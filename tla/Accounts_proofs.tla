---- MODULE Accounts_proofs ----
(***************************************************************************)
(* For any number of phones, calls and codes: sessions rest on consumed    *)
(* codes and verified accounts, and bookings on profiles that stay.        *)
(***************************************************************************)
EXTENDS Accounts, SequenceTheorems, TLAPS

Consumed(codes, p) == \E i \in DOMAIN codes[p] : codes[p][i] \notin Unused

\* The calls that have consumed a code of their phone.
PastCode ==
    {"markUsers", "findCustomer", "markVerified", "loginFind", "createAccount", "loginMark",
     "findUser"}

HasCode(c) ==
    /\ call[c].pc \in PastCode => Consumed(code, call[c].phone)
    /\ (call[c].pc = "open" /\ call[c].actor.via = "code") => Consumed(code, call[c].actor.phone)
CodeInv == SessionHasCode /\ \A c \in Calls : HasCode(c)

IsVerified(c) ==
    (call[c].pc = "open" /\ call[c].actor.kind = "CUSTOMER") =>
        account[call[c].actor.phone] = TRUE
VerifiedInv == CustomerIsVerified /\ \A c \in Calls : IsVerified(c)

\* The calls that know of an account of their phone.
HasAccount(c) ==
    /\ call[c].pc \in {"profileCheck", "profileCreate"} => account[call[c].phone] # None
    /\ (call[c].pc = "commit" /\ call[c].seen) => account[call[c].phone] # None
ProfileInv ==
    /\ NoOrphans
    /\ \A p \in Phones : profile[p] # None => account[p] # None
    /\ \A c \in Calls : HasAccount(c)
----------------------------------------------------------------------------
(* Types.                                                                   *)

Items == (1..MaxCodes) \cup SessionIds \cup ProfileIds \cup {None}

\* The steps at which a call holds what TypeOK says of it.
Prepared == {"open", "consumeUser", "consumeCustomer", "issue", "revoke", "profileDelete"}
TypedCall(r) ==
    /\ r \in CallRecord \cup {NoCall}
    /\ r.pc = "open" => r.actor \in Actors
    /\ r.pc \in {"consumeUser", "consumeCustomer"} => r.item \in DOMAIN code[r.phone]
    /\ r.pc \in {"issue", "revoke"} => r.item \in SessionIds /\ session[r.item] # None
    /\ r.pc = "profileDelete" => r.item \in ProfileIds
CallsOK ==
    /\ call \in [Calls -> CallRecord \cup {NoCall}]
    /\ \A c \in Calls : TypedCall(call[c])

\* A call at any step but idle has a phone.
LEMMA AtStep ==
    ASSUME TypeOK, NEW c \in Calls, call[c].pc # "idle"
    PROVE  call[c] \in CallRecord /\ call[c].phone \in Phones
BY DEF TypeOK, CallRecord, NoCall

\* No step takes a code away.
LEMMA CodesStay ==
    ASSUME TypeOK, [Next]_vars, NEW p \in Phones
    PROVE  /\ code'[p] \in Seq(CodeStates)
           /\ Len(code[p]) <= Len(code'[p])
           /\ \A i \in DOMAIN code[p] :
                 code[p][i] \notin Unused => code'[p][i] \notin Unused
<1> DEFINE Goal == /\ code'[p] \in Seq(CodeStates)
                   /\ Len(code[p]) <= Len(code'[p])
                   /\ \A i \in DOMAIN code[p] :
                         code[p][i] \notin Unused => code'[p][i] \notin Unused
<1>1. code[p] \in Seq(CodeStates) /\ Len(code[p]) \in Nat /\ DOMAIN code[p] = 1..Len(code[p])
  BY DEF TypeOK
<1>2. CASE UNCHANGED code
  BY <1>1, <1>2
<1>3. ASSUME NEW q \in Phones, SendsCode(q) PROVE Goal
  <2>1. CASE q = p
    <3>1. code'[p] = Append(code[p], "sent")
      BY <1>3, <2>1 DEF SendsCode, TypeOK
    <3>2. QED
      BY <1>1, <3>1 DEF CodeStates
  <2>2. CASE q # p
    BY <1>1, <1>3, <2>2 DEF SendsCode, TypeOK
  <2>3. QED
    BY <2>1, <2>2
<1>4. ASSUME NEW q \in Phones, NEW i, i \in DOMAIN code[q], NEW x \in {"expired", "fresh", "old"},
             x = "expired" => code[q][i] \in Unused,
             code' = [code EXCEPT ![q][i] = x]
      PROVE  Goal
  <2>1. CASE q = p
    <3>1. code'[p] = [code[p] EXCEPT ![i] = x]
      BY <1>4, <2>1 DEF TypeOK
    <3>2. x \in CodeStates /\ i \in 1..Len(code[p])
      BY <1>1, <1>4, <2>1 DEF CodeStates
    <3>3. code'[p] \in Seq(CodeStates) /\ Len(code'[p]) = Len(code[p])
      BY <1>1, <3>1, <3>2, ExceptSeq
    <3>4. QED
      BY <1>1, <1>4, <2>1, <3>1, <3>3 DEF Unused
  <2>2. CASE q # p
    BY <1>1, <1>4, <2>2 DEF TypeOK
  <2>3. QED
    BY <2>1, <2>2
<1>5. ASSUME NEW c \in Calls, ConsumeOtp(c) PROVE Goal
  <2>1. call[c].phone \in Phones /\ call[c].item \in DOMAIN code[call[c].phone]
    BY <1>5, AtStep DEF ConsumeOtp, At, TypeOK
  <2>2. QED
    BY <1>4, <1>5, <2>1 DEF ConsumeOtp
<1>6. ASSUME NEW q \in Phones, NEW i \in 1..MaxCodes, CodeAges(q, i) PROVE Goal
  <2> DEFINE x == IF code[q][i] = "sent" THEN "expired" ELSE "old"
  <2>1. code' = [code EXCEPT ![q][i] = x]
    BY <1>6 DEF CodeAges, TypeOK
  <2>2. QED
    BY <1>4, <1>6, <2>1 DEF CodeAges, Unused
<1>7. QED
  BY <1>2, <1>3, <1>5, <1>6 DEF Next, Serves, Crash, Time, RequestUserOtp, RequestCustomerOtp,
     AuthArrives, AuthProceeds, CustomerArrives, CustomerProceeds, VerifyOtp, LoginUserWithOtp,
     LoginUser, RefreshAuthToken, Logout, MarkUserPhoneVerified, FindCustomer, MarkCustomer,
     FindsAccount, MarksAccount, LoginCustomerFind, CreateCustomer, LoginMark, FindUser,
     IssueToken, RevokeSession, CreateAndSaveSession, AccessExpires, SessionExpires,
     UpsertAccount, FindProfile, CreateProfile, FindProfileToDelete, DeleteProfile, BookRead,
     PublicBookRead, BookCommit, authVars, vars

\* No step takes a session away.
LEMMA SessionsStay ==
    ASSUME TypeOK, [Next]_vars, NEW s \in SessionIds, session[s] # None
    PROVE  /\ session'[s] \in SessionRows
           /\ session'[s].actor = session[s].actor
<1>1. session[s] \in SessionRows
  BY DEF TypeOK
<1>2. CASE UNCHANGED session
  BY <1>1, <1>2
<1>3. ASSUME NEW c \in Calls, NEW t \in SessionIds, CreateAndSaveSession(c, t)
      PROVE  session'[s] = session[s]
  BY <1>3 DEF CreateAndSaveSession, TypeOK
<1>4. ASSUME NEW t \in SessionIds,
             \/ session' = [session EXCEPT ![t].revoked = TRUE]
             \/ session' = [session EXCEPT ![t].expired = TRUE]
      PROVE  session'[s] \in SessionRows /\ session'[s].actor = session[s].actor
  <2>1. \/ session'[s] = session[s]
        \/ session'[s] = [session[s] EXCEPT !.revoked = TRUE]
        \/ session'[s] = [session[s] EXCEPT !.expired = TRUE]
    BY <1>4 DEF TypeOK
  <2>2. QED
    BY <1>1, <2>1 DEF SessionRows
<1>5. ASSUME NEW c \in Calls, RevokeSession(c)
      PROVE  session'[s] \in SessionRows /\ session'[s].actor = session[s].actor
  BY <1>4, <1>5 DEF RevokeSession, At, TypeOK
<1>6. ASSUME NEW t \in SessionIds, SessionExpires(t)
      PROVE  session'[s] \in SessionRows /\ session'[s].actor = session[s].actor
  BY <1>4, <1>6 DEF SessionExpires
<1>7. QED
  BY <1>1, <1>2, <1>3, <1>5, <1>6 DEF Next, Serves, Crash, Time, RequestUserOtp,
     RequestCustomerOtp, SendsCode, ConsumeOtp, CodeAges,
     AuthArrives, AuthProceeds, CustomerArrives, CustomerProceeds, VerifyOtp, LoginUserWithOtp,
     LoginUser, RefreshAuthToken, Logout, MarkUserPhoneVerified, FindCustomer, MarkCustomer,
     FindsAccount, MarksAccount, LoginCustomerFind, CreateCustomer, LoginMark, FindUser,
     IssueToken, AccessExpires,
     UpsertAccount, FindProfile, CreateProfile, FindProfileToDelete, DeleteProfile, BookRead,
     PublicBookRead, BookCommit, authVars, vars

\* What a call's record may become.
LEMMA CallMoves ==
    ASSUME TypeOK, [Next]_vars, NEW c \in Calls, NEW r, r \in CallRecord \cup {NoCall},
           r.pc = "open" => r.actor \in Actors,
           r.pc \in {"consumeUser", "consumeCustomer"} => r.item \in DOMAIN code'[r.phone],
           r.pc \in {"issue", "revoke"} => r.item \in SessionIds /\ session'[r.item] # None,
           r.pc = "profileDelete" => r.item \in ProfileIds,
           call' = [call EXCEPT ![c] = r]
    PROVE  CallsOK'
<1>1. ASSUME NEW d \in Calls, d # c PROVE TypedCall(call[d])'
  <2>1. call'[d] = call[d]
    BY <1>1 DEF TypeOK
  <2>2. call[d].pc \in {"consumeUser", "consumeCustomer"} =>
           call[d].item \in DOMAIN code'[call[d].phone]
    <3> SUFFICES ASSUME call[d].pc \in {"consumeUser", "consumeCustomer"}
                 PROVE  call[d].item \in DOMAIN code'[call[d].phone]
      OBVIOUS
    <3>1. call[d].phone \in Phones /\ call[d].item \in DOMAIN code[call[d].phone]
      BY AtStep DEF TypeOK
    <3>2. QED
      BY <3>1, CodesStay DEF TypeOK
  <2>3. call[d].pc \in {"issue", "revoke"} =>
           call[d].item \in SessionIds /\ session'[call[d].item] # None
    BY SessionsStay, NoneIsNoValue DEF TypeOK
  <2>4. QED
    BY <2>1, <2>2, <2>3 DEF TypedCall, TypeOK, At
<1>2. call'[c] = r
  BY DEF TypeOK
<1>3. QED
  BY <1>1, <1>2 DEF CallsOK, TypedCall, TypeOK

LEMMA GotoMoves ==
    ASSUME TypeOK, [Next]_vars, NEW c \in Calls, call[c].pc # "idle",
           NEW pc \in Steps \ Prepared, Goto(c, pc)
    PROVE  CallsOK'
<1> DEFINE r == [call[c] EXCEPT !.pc = pc]
<1>1. r \in CallRecord /\ r.pc = pc
  BY AtStep DEF CallRecord
<1>2. call' = [call EXCEPT ![c] = r]
  BY DEF Goto
<1>3. QED
  BY <1>1, <1>2, CallMoves DEF Prepared

LEMMA EndsMoves ==
    ASSUME TypeOK, [Next]_vars, NEW c \in Calls, Ends(c)
    PROVE  CallsOK'
<1>1. NoCall.pc = "idle"
  BY DEF NoCall
<1>2. QED
  BY <1>1, CallMoves DEF Ends

LEMMA BeginsMoves ==
    ASSUME TypeOK, [Next]_vars, NEW c \in Calls, NEW p \in Phones, NEW item \in Items,
           NEW pc \in Steps \ {"open"}, BeginsWith(c, p, pc, item),
           pc \in {"consumeUser", "consumeCustomer"} => item \in DOMAIN code'[p],
           pc \in {"issue", "revoke"} => item \in SessionIds /\ session'[item] # None,
           pc = "profileDelete" => item \in ProfileIds
    PROVE  CallsOK'
<1> DEFINE r == [NoCall EXCEPT !.pc = pc, !.phone = p, !.item = item]
<1>1. r \in CallRecord /\ r.pc = pc /\ r.phone = p /\ r.item = item
  BY DEF CallRecord, NoCall, Items
<1>2. QED
  BY <1>1, CallMoves DEF BeginsWith

LEMMA BeginsPlain ==
    ASSUME TypeOK, [Next]_vars, NEW c \in Calls, NEW p \in Phones,
           NEW pc \in Steps \ Prepared, Begins(c, p, pc)
    PROVE  CallsOK'
<1> DEFINE r == [NoCall EXCEPT !.pc = pc, !.phone = p]
<1>1. r \in CallRecord /\ r.pc = pc
  BY DEF CallRecord, NoCall
<1>2. QED
  BY <1>1, CallMoves DEF Begins, Prepared

LEMMA OpensMoves ==
    ASSUME TypeOK, [Next]_vars, NEW c \in Calls, call[c].pc # "idle",
           NEW kind \in {"USER", "CUSTOMER"}, OpensAs(c, kind, "code")
    PROVE  CallsOK'
<1> DEFINE a == [kind |-> kind, phone |-> call[c].phone, via |-> "code"]
           r == [call[c] EXCEPT !.pc = "open", !.actor = a]
<1>1. a \in Actors
  BY AtStep DEF Actors
<1>2. r \in CallRecord /\ r.pc = "open" /\ r.actor = a
  BY <1>1, AtStep DEF CallRecord, Steps
<1>3. call' = [call EXCEPT ![c] = r]
  BY DEF OpensAs, TypeOK
<1>4. QED
  BY <1>1, <1>2, <1>3, CallMoves

\* The codes keep their type, and the other variables theirs.
LEMMA TypesExceptCall ==
    ASSUME TypeOK, [Next]_vars, CallsOK'
    PROVE  TypeOK'
<1>1. code' \in [Phones -> Seq(CodeStates)]
  <2>1. code' = [p \in Phones |-> code'[p]]
    BY DEF TypeOK, Next, Serves, Crash, Time, RequestUserOtp, RequestCustomerOtp, SendsCode,
       ConsumeOtp, CodeAges, AuthArrives, AuthProceeds, CustomerArrives, CustomerProceeds,
       VerifyOtp, LoginUserWithOtp, LoginUser, RefreshAuthToken, Logout,
       MarkUserPhoneVerified, FindCustomer, MarkCustomer, FindsAccount, MarksAccount,
       LoginCustomerFind, CreateCustomer, LoginMark, FindUser, IssueToken, RevokeSession,
       CreateAndSaveSession, AccessExpires, SessionExpires, UpsertAccount, FindProfile,
       CreateProfile, FindProfileToDelete, DeleteProfile, BookRead, PublicBookRead,
       BookCommit, authVars, vars
  <2>2. QED
    BY <2>1, CodesStay
<1> DEFINE Rest == /\ user' \in [Phones -> BOOLEAN \cup {None}]
                   /\ account' \in [Phones -> BOOLEAN \cup {None}]
                   /\ profile' \in [Phones -> ProfileIds \cup {None}]
                   /\ dropped' \subseteq ProfileIds
                   /\ booking' \in [Bookings -> ProfileIds \cup {None}]
                   /\ session' \in [SessionIds -> SessionRows \cup {None}]
                   /\ access' \in [SessionIds -> {"valid", "expired", None}]
                   /\ \A s \in SessionIds : access'[s] # None => session'[s] # None
<1>0. \A s \in SessionIds : session[s] # None => session'[s] # None
  BY SessionsStay, NoneIsNoValue
<1>a. {"valid", "expired"} \cap {None} = {}
  BY NoneIsNoValue
<1>2. ASSUME NEW c \in Calls, AuthArrives(c) \/ CustomerArrives(c) PROVE Rest
  BY <1>2 DEF AuthArrives, VerifyOtp, LoginUserWithOtp, LoginUser, RefreshAuthToken, Logout,
     CustomerArrives, UpsertAccount, FindProfileToDelete, BookRead, PublicBookRead, TypeOK,
     customerVars, authVars
<1>3. ASSUME NEW c \in Calls, AuthProceeds(c) PROVE Rest
  <2>1. call[c] \in CallRecord /\ call[c].phone \in Phones
    BY <1>3, AtStep DEF AuthProceeds, ConsumeOtp, MarkUserPhoneVerified, FindCustomer,
       MarkCustomer, FindsAccount, MarksAccount, LoginCustomerFind, CreateCustomer, LoginMark,
       FindUser, IssueToken, RevokeSession, CreateAndSaveSession, At
  <2>2. ASSUME NEW s \in SessionIds, CreateAndSaveSession(c, s) PROVE Rest
    <3>1. [actor |-> call[c].actor, revoked |-> FALSE, expired |-> FALSE] \in SessionRows
      BY <2>2 DEF CreateAndSaveSession, TypeOK, SessionRows
    <3>2. QED
      BY <2>2, <3>1, NoneIsNoValue DEF CreateAndSaveSession, TypeOK, customerVars
  <2>3. CASE RevokeSession(c)
    <3>1. call[c].item \in SessionIds /\ session[call[c].item] # None
      BY <2>3 DEF RevokeSession, At, TypeOK
    <3>2. [session[call[c].item] EXCEPT !.revoked = TRUE] \in SessionRows
      BY <3>1 DEF TypeOK, SessionRows
    <3>3. session' \in [SessionIds -> SessionRows \cup {None}]
      BY <2>3, <3>1, <3>2 DEF RevokeSession, TypeOK
    <3>4. QED
      BY <1>0, <2>3, <3>3 DEF RevokeSession, TypeOK, customerVars
  <2>4. CASE IssueToken(c)
    BY <2>4 DEF IssueToken, At, TypeOK, customerVars
  <2>5. CASE MarkUserPhoneVerified(c)
    BY <2>1, <2>5 DEF MarkUserPhoneVerified, TypeOK, customerVars, authVars
  <2>6. CASE MarkCustomer(c) \/ CreateCustomer(c) \/ LoginMark(c)
    BY <2>1, <2>6 DEF MarkCustomer, MarksAccount, CreateCustomer, LoginMark, TypeOK, authVars
  <2>7. CASE ConsumeOtp(c) \/ FindCustomer(c) \/ LoginCustomerFind(c) \/ FindUser(c)
    BY <2>7 DEF ConsumeOtp, FindCustomer, FindsAccount, LoginCustomerFind, FindUser, TypeOK,
       customerVars, authVars
  <2>8. QED
    BY <1>3, <2>2, <2>3, <2>4, <2>5, <2>6, <2>7 DEF AuthProceeds
<1>4. ASSUME NEW c \in Calls, CustomerProceeds(c) PROVE Rest
  <2>1. call[c] \in CallRecord /\ call[c].phone \in Phones
    BY <1>4, AtStep DEF CustomerProceeds, FindProfile, DeleteProfile, CreateProfile,
       BookCommit, At
  <2>2. CASE FindProfile(c)
    BY <2>2 DEF FindProfile, TypeOK, customerVars, authVars
  <2>3. CASE DeleteProfile(c)
    <3>1. UNCHANGED <<user, account, booking, session, access>>
      BY <2>3 DEF DeleteProfile, authVars
    <3>2. CASE profile[call[c].phone] = call[c].item /\ \A b \in Bookings : booking[b] # call[c].item
      <4>1. call[c].item \in ProfileIds
        BY <2>3 DEF DeleteProfile, TypeOK
      <4>2. QED
        BY <2>1, <2>3, <3>1, <3>2, <4>1 DEF DeleteProfile, TypeOK
    <3>3. CASE UNCHANGED <<profile, dropped>>
      BY <3>1, <3>3 DEF TypeOK
    <3>4. QED
      BY <2>3, <3>2, <3>3 DEF DeleteProfile
  <2>4. ASSUME NEW f \in ProfileIds, CreateProfile(c, f) PROVE Rest
    BY <2>1, <2>4 DEF CreateProfile, TypeOK, authVars
  <2>5. ASSUME NEW f \in ProfileIds, NEW b \in Bookings, BookCommit(c, f, b) PROVE Rest
    <3>1. CASE Refused(c)
      BY <2>5, <3>1 DEF BookCommit, TypeOK, authVars
    <3>2. CASE ~Refused(c)
      <4>1. call[c].item = profile[call[c].phone]
        BY <3>2 DEF Refused
      <4>2. (IF call[c].item = None THEN f ELSE call[c].item) \in ProfileIds
        BY <2>1, <4>1 DEF TypeOK
      <4>3. QED
        BY <2>1, <2>5, <3>2, <4>2 DEF BookCommit, TypeOK, authVars
    <3>3. QED
      BY <3>1, <3>2
  <2>6. QED
    BY <1>4, <2>2, <2>3, <2>4, <2>5 DEF CustomerProceeds
<1>5. ASSUME NEW c \in Calls, Crash(c) PROVE Rest
  BY <1>5 DEF Crash, TypeOK, customerVars, authVars
<1>6. ASSUME NEW p \in Phones, SendsCode(p) PROVE Rest
  BY <1>6 DEF SendsCode, TypeOK, customerVars
<1>7. ASSUME Time PROVE Rest
  <2>1. ASSUME NEW p \in Phones, NEW i \in 1..MaxCodes, CodeAges(p, i) PROVE Rest
    BY <2>1 DEF CodeAges, TypeOK, customerVars
  <2>2. ASSUME NEW s \in SessionIds, AccessExpires(s) PROVE Rest
    BY <1>a, <2>2 DEF AccessExpires, TypeOK, customerVars
  <2>3. ASSUME NEW s \in SessionIds, SessionExpires(s) PROVE Rest
    <3>1. [session[s] EXCEPT !.expired = TRUE] \in SessionRows
      BY <2>3 DEF SessionExpires, TypeOK, SessionRows
    <3>2. session' \in [SessionIds -> SessionRows \cup {None}]
      BY <2>3, <3>1 DEF SessionExpires, TypeOK
    <3>3. QED
      BY <1>0, <2>3, <3>2 DEF SessionExpires, TypeOK, customerVars
  <2>4. QED
    <3> HIDE DEF Rest
    <3>1. QED
      BY <1>7, <2>1, <2>2, <2>3 DEF Time
<1>8. ASSUME UNCHANGED vars PROVE Rest
  <2>1. UNCHANGED <<user, account, profile, dropped, booking, session, access>>
    BY <1>8 DEF vars, customerVars, authVars
  <2>2. \A s \in SessionIds : access[s] # None => session[s] # None
    BY DEF TypeOK
  <2>3. QED
    BY <2>1, <2>2 DEF TypeOK
<1>9. Rest
  <2> HIDE DEF Rest
  <2>1. ASSUME NEW c \in Calls, Serves(c) \/ Crash(c) PROVE Rest
    BY <1>2, <1>3, <1>4, <1>5, <2>1 DEF Serves
  <2>2. ASSUME NEW p \in Phones, RequestUserOtp(p) \/ RequestCustomerOtp(p) PROVE Rest
    BY <1>6, <2>2 DEF RequestUserOtp, RequestCustomerOtp
  <2>3. QED
    BY <1>7, <1>8, <2>1, <2>2 DEF Next
<1>10. QED
  BY <1>1, <1>9 DEF TypeOK, CallsOK, TypedCall, At

\* Every step keeps every variable in its type.
LEMMA TypeStep == TypeOK /\ [Next]_vars => TypeOK'
<1> SUFFICES ASSUME TypeOK, [Next]_vars PROVE CallsOK'
  BY TypesExceptCall
<1>1. ASSUME NEW c \in Calls, AuthArrives(c) PROVE CallsOK'
  <2>1. ASSUME NEW p \in Phones, NEW i \in 1..MaxCodes, VerifyOtp(c, p, i) PROVE CallsOK'
    <3>1. i \in DOMAIN code'[p] /\ i \in Items
      BY <2>1 DEF VerifyOtp, IsRecentOtp, authVars, Items
    <3>2. {"consumeUser", "consumeCustomer"} \subseteq Steps \ {"open"}
      BY DEF Steps
    <3>3. PICK pc \in {"consumeUser", "consumeCustomer"} : BeginsWith(c, p, pc, i)
      BY <2>1 DEF VerifyOtp
    <3>4. QED
      BY <3>1, <3>2, <3>3, BeginsMoves
  <2>2. ASSUME NEW p \in Phones, LoginUserWithOtp(c, p) PROVE CallsOK'
    <3>1. "findUser" \in Steps \ Prepared
      BY DEF Steps, Prepared
    <3>2. QED
      BY <2>2, <3>1, BeginsPlain DEF LoginUserWithOtp
  <2>3. ASSUME NEW p \in Phones, LoginUser(c, p) PROVE CallsOK'
    <3> DEFINE a == [kind |-> "USER", phone |-> p, via |-> "password"]
               r == [NoCall EXCEPT !.pc = "open", !.phone = p, !.actor = a]
    <3>1. a \in Actors
      BY DEF Actors
    <3>2. r \in CallRecord /\ r.pc = "open" /\ r.actor = a
      BY <3>1 DEF NoCall, CallRecord, Steps
    <3>3. QED
      BY <2>3, <3>1, <3>2, CallMoves DEF LoginUser
  <2>4. ASSUME NEW s \in SessionIds, RefreshAuthToken(c, s) \/ Logout(c, s) PROVE CallsOK'
    <3>1. session[s] # None /\ session'[s] # None
      <4>1. access[s] # None \/ session[s] # None
        BY <2>4, NoneIsNoValue DEF RefreshAuthToken, Logout, Authenticated
      <4>2. QED
        BY <4>1, SessionsStay, NoneIsNoValue DEF TypeOK
    <3>0. session[s].actor.phone \in Phones
      BY <3>1 DEF TypeOK, SessionRows, Actors
    <3>2. {"revoke", "issue"} \subseteq Steps \ {"open"} /\ s \in Items
      BY DEF Steps, Items
    <3>3. PICK pc \in {"revoke", "issue"} : BeginsWith(c, session[s].actor.phone, pc, s)
      BY <2>4 DEF RefreshAuthToken, Logout
    <3>4. QED
      BY <3>0, <3>1, <3>2, <3>3, BeginsMoves
  <2>5. QED
    BY <1>1, <2>1, <2>2, <2>3, <2>4 DEF AuthArrives
<1>2. ASSUME NEW c \in Calls, AuthProceeds(c) PROVE CallsOK'
  <2>1. call[c].pc # "idle"
    BY <1>2 DEF AuthProceeds, ConsumeOtp, MarkUserPhoneVerified, FindCustomer, MarkCustomer,
       FindsAccount, MarksAccount, LoginCustomerFind, CreateCustomer, LoginMark, FindUser,
       IssueToken, RevokeSession, CreateAndSaveSession, At
  <2>2. \/ Ends(c)
        \/ \E pc \in PastCode : Goto(c, pc)
        \/ OpensAs(c, "CUSTOMER", "code") \/ OpensAs(c, "USER", "code")
    BY <1>2 DEF AuthProceeds, ConsumeOtp, MarkUserPhoneVerified, FindCustomer, MarkCustomer,
       FindsAccount, MarksAccount, LoginCustomerFind, CreateCustomer, LoginMark, FindUser,
       IssueToken, RevokeSession, CreateAndSaveSession, PastCode
  <2>3. PastCode \subseteq Steps \ Prepared
    BY DEF Prepared, PastCode, Steps
  <2>4. QED
    BY <2>1, <2>2, <2>3, EndsMoves, GotoMoves, OpensMoves
<1>3. ASSUME NEW c \in Calls, CustomerArrives(c) PROVE CallsOK'
  <2>1. ASSUME NEW p \in Phones, UpsertAccount(c, p) \/ FindProfileToDelete(c, p)
        PROVE  CallsOK'
    <3>1. /\ "profileCheck" \in Steps \ Prepared
          /\ "profileDelete" \in Steps \ {"open"} /\ profile[p] \in Items
      BY DEF Steps, Prepared, Items, TypeOK
    <3>2. CASE Begins(c, p, "profileCheck")
      BY <3>1, <3>2, BeginsPlain
    <3>3. CASE profile[p] # None /\ BeginsWith(c, p, "profileDelete", profile[p])
      BY <3>1, <3>3, BeginsMoves DEF TypeOK
    <3>4. QED
      BY <2>1, <3>2, <3>3 DEF UpsertAccount, FindProfileToDelete
  <2>2. ASSUME NEW p \in Phones, BookRead(c, p) PROVE CallsOK'
    <3> DEFINE n == Normal[p]
               r == [NoCall EXCEPT !.pc = "commit", !.phone = n, !.item = profile[n],
                                   !.seen = account[n] # None]
    <3>1. n \in Phones /\ profile[n] \in ProfileIds \cup {None}
      BY NormalAssumption DEF TypeOK
    <3>2. r \in CallRecord /\ r.pc = "commit"
      BY <3>1 DEF NoCall, CallRecord, Steps
    <3>3. QED
      BY <2>2, <3>2, CallMoves DEF BookRead
  <2>3. QED
    BY <1>3, <2>1, <2>2 DEF CustomerArrives, PublicBookRead
<1>4. ASSUME NEW c \in Calls, CustomerProceeds(c) PROVE CallsOK'
  <2>1. call[c].pc # "idle" /\ (Ends(c) \/ Goto(c, "profileCreate"))
    BY <1>4 DEF CustomerProceeds, FindProfile, DeleteProfile, CreateProfile, BookCommit, At
  <2>2. "profileCreate" \in Steps \ Prepared
    BY DEF Prepared, Steps
  <2>3. QED
    BY <2>1, <2>2, EndsMoves, GotoMoves
<1>5. ASSUME UNCHANGED call PROVE CallsOK'
  <2>1. ASSUME NEW c \in Calls PROVE TypedCall(call[c])'
    <3>1. call[c].pc \in {"consumeUser", "consumeCustomer"} =>
             call[c].item \in DOMAIN code'[call[c].phone]
      <4> SUFFICES ASSUME call[c].pc \in {"consumeUser", "consumeCustomer"}
                   PROVE  call[c].item \in DOMAIN code'[call[c].phone]
        OBVIOUS
      <4>1. call[c].phone \in Phones /\ call[c].item \in DOMAIN code[call[c].phone]
        BY AtStep DEF TypeOK
      <4>2. QED
        BY <4>1, CodesStay DEF TypeOK
    <3>2. call[c].pc \in {"issue", "revoke"} =>
             call[c].item \in SessionIds /\ session'[call[c].item] # None
      BY SessionsStay, NoneIsNoValue DEF TypeOK
    <3>3. QED
      BY <1>5, <3>1, <3>2 DEF TypedCall, TypeOK, At
  <2>2. QED
    BY <1>5, <2>1 DEF CallsOK, TypeOK
<1>6. QED
  BY <1>1, <1>2, <1>3, <1>4, <1>5, EndsMoves
  DEF Next, Serves, Crash, Time, RequestUserOtp, RequestCustomerOtp, SendsCode, CodeAges,
      AccessExpires, SessionExpires, vars

\* The types hold for every number of phones, calls, codes and sessions.
THEOREM TypeCorrect == Spec => []TypeOK
<1>1. ASSUME Init PROVE TypeOK
  <2>1. code \in [Phones -> Seq(CodeStates)]
    BY <1>1 DEF Init
  <2>2. \A c \in Calls : call[c].pc = "idle"
    BY <1>1 DEF Init, NoCall
  <2>3. QED
    BY <1>1, <2>1, <2>2 DEF Init, TypeOK, At
<1>2. QED
  BY <1>1, TypeStep, PTL DEF Spec
----------------------------------------------------------------------------
(* What a step does to sessions, codes and accounts.                       *)

\* A step is of one call, or leaves all calls alone.
LEMMA OneCallMoves ==
    ASSUME TypeOK, [Next]_vars
    PROVE  \/ UNCHANGED call
           \/ \E c \in Calls : /\ Serves(c) \/ Crash(c)
                              /\ \A d \in Calls \ {c} : call'[d] = call[d]
<1>1. ASSUME NEW c \in Calls, Serves(c) \/ Crash(c)
      PROVE  \A d \in Calls \ {c} : call'[d] = call[d]
  BY <1>1 DEF Serves, Crash, AuthArrives, AuthProceeds, CustomerArrives, CustomerProceeds,
     VerifyOtp, LoginUserWithOtp, LoginUser, RefreshAuthToken, Logout, ConsumeOtp,
     MarkUserPhoneVerified, FindCustomer, MarkCustomer, FindsAccount, MarksAccount,
     LoginCustomerFind, CreateCustomer, LoginMark, FindUser, IssueToken, RevokeSession,
     CreateAndSaveSession, UpsertAccount, FindProfile, CreateProfile, FindProfileToDelete,
     DeleteProfile, BookRead, PublicBookRead, BookCommit, Begins, BeginsWith, Goto, Ends,
     OpensAs, TypeOK
<1>2. QED
  BY <1>1 DEF Next, Time, RequestUserOtp, RequestCustomerOtp, SendsCode, CodeAges,
     AccessExpires, SessionExpires, vars

\* A session is new only where one is opened, for the actor of the call.
LEMMA NewSession ==
    ASSUME TypeOK, [Next]_vars, NEW s \in SessionIds, session[s] = None, session'[s] # None
    PROVE  \E c \in Calls : call[c].pc = "open" /\ session'[s].actor = call[c].actor
<1>1. ASSUME NEW c \in Calls, NEW t \in SessionIds, CreateAndSaveSession(c, t)
      PROVE  call[c].pc = "open" /\ session'[s].actor = call[c].actor
  BY <1>1 DEF CreateAndSaveSession, At, TypeOK
<1>2. ASSUME NEW c \in Calls, RevokeSession(c) PROVE FALSE
  <2>1. call[c].item \in SessionIds /\ session[call[c].item] # None
    BY <1>2 DEF RevokeSession, At, TypeOK
  <2>2. QED
    BY <1>2, <2>1 DEF RevokeSession, TypeOK
<1>3. ASSUME NEW t \in SessionIds, SessionExpires(t) PROVE FALSE
  BY <1>3 DEF SessionExpires, TypeOK
<1>4. QED
  BY <1>1, <1>2, <1>3 DEF Next, Serves, Crash, Time, RequestUserOtp,
     RequestCustomerOtp, SendsCode, ConsumeOtp, CodeAges,
     AuthArrives, AuthProceeds, CustomerArrives, CustomerProceeds, VerifyOtp, LoginUserWithOtp,
     LoginUser, RefreshAuthToken, Logout, MarkUserPhoneVerified, FindCustomer, MarkCustomer,
     FindsAccount, MarksAccount, LoginCustomerFind, CreateCustomer, LoginMark, FindUser,
     IssueToken, AccessExpires,
     UpsertAccount, FindProfile, CreateProfile, FindProfileToDelete, DeleteProfile, BookRead,
     PublicBookRead, BookCommit, authVars, vars

\* A phone that had a code consumed has had one ever after.
LEMMA ConsumedStays ==
    ASSUME TypeOK, [Next]_vars, NEW p \in Phones, Consumed(code, p)
    PROVE  Consumed(code', p)
<1>1. PICK i \in DOMAIN code[p] : code[p][i] \notin Unused
  BY DEF Consumed
<1>2. code[p] \in Seq(CodeStates) /\ code'[p] \in Seq(CodeStates)
      /\ Len(code[p]) <= Len(code'[p]) /\ code'[p][i] \notin Unused
  BY <1>1, CodesStay DEF TypeOK
<1>3. i \in DOMAIN code'[p]
  BY <1>1, <1>2
<1>4. QED
  BY <1>2, <1>3 DEF Consumed

\* A verified account stays verified, and an account stays.
LEMMA AccountsStay ==
    ASSUME TypeOK, [Next]_vars, NEW p \in Phones
    PROVE  /\ account[p] = TRUE => account'[p] = TRUE
           /\ account[p] # None => account'[p] # None
<1> USE NoneIsNoValue
<1> DEFINE Goal == /\ account[p] = TRUE => account'[p] = TRUE
                   /\ account[p] # None => account'[p] # None
<1>1. ASSUME NEW c \in Calls, MarkCustomer(c) \/ CreateCustomer(c) \/ LoginMark(c) PROVE Goal
  BY <1>1, AtStep DEF MarkCustomer, MarksAccount, CreateCustomer, LoginMark, At, TypeOK
<1>2. ASSUME NEW c \in Calls, NEW q \in Phones, UpsertAccount(c, q) PROVE Goal
  BY <1>2 DEF UpsertAccount, TypeOK
<1>3. ASSUME NEW c \in Calls, NEW f \in ProfileIds, NEW b \in Bookings, BookCommit(c, f, b)
      PROVE  Goal
  BY <1>3, AtStep DEF BookCommit, Refused, At, TypeOK
<1>4. ASSUME UNCHANGED account PROVE Goal
  BY <1>4
<1> HIDE DEF Goal
<1>5. Goal
  BY <1>1, <1>2, <1>3, <1>4 DEF Next, Serves, Crash, Time, RequestUserOtp,
     RequestCustomerOtp, SendsCode, ConsumeOtp, CodeAges,
     AuthArrives, AuthProceeds, CustomerArrives, CustomerProceeds, VerifyOtp, LoginUserWithOtp,
     LoginUser, RefreshAuthToken, Logout, MarkUserPhoneVerified, FindCustomer,
     FindsAccount, LoginCustomerFind, FindUser, RevokeSession, CreateAndSaveSession,
     IssueToken, AccessExpires, SessionExpires,
     FindProfile, CreateProfile, FindProfileToDelete, DeleteProfile, BookRead,
     PublicBookRead, customerVars, vars
<1>6. QED
  BY <1>5 DEF Goal
----------------------------------------------------------------------------
(* Sessions rest on codes.                                                 *)

\* The call that acts has a code consumed wherever it needs one.
LEMMA ActorHasCode ==
    ASSUME TypeOK, [Next]_vars, NEW c \in Calls, HasCode(c), Serves(c) \/ Crash(c)
    PROVE  HasCode(c)'
<1> USE DEF HasCode
<1>1. CASE call'[c].pc \notin PastCode \cup {"open"}
  BY <1>1
<1>2. CASE ConsumeOtp(c)
  <2>1. /\ call[c] \in CallRecord /\ call[c].phone \in Phones
        /\ call[c].item \in DOMAIN code[call[c].phone]
    BY <1>2, AtStep DEF ConsumeOtp, At, TypeOK
  <2> DEFINE p == call[c].phone
  <2>2. call'[c].phone = p /\ call'[c].pc # "open"
    BY <1>2, <2>1 DEF ConsumeOtp, Goto, TypeOK, CallRecord
  <2>3. code'[p][call[c].item] = "fresh" /\ code'[p] \in Seq(CodeStates)
    BY <1>2, <2>1, CodesStay DEF ConsumeOtp, TypeOK
  <2>4. call[c].item \in DOMAIN code'[p]
    <3>1. code[p] \in Seq(CodeStates) /\ Len(code[p]) <= Len(code'[p])
      BY <2>1, CodesStay DEF TypeOK
    <3>2. QED
      BY <2>1, <2>3, <3>1
  <2>5. Consumed(code', p)
    BY <2>3, <2>4 DEF Consumed, Unused
  <2>6. QED
    BY <2>2, <2>5 DEF Consumed
<1>3. ASSUME NEW p \in Phones, LoginUserWithOtp(c, p) PROVE HasCode(c)'
  <2>1. Consumed(code', p)
    BY <1>3 DEF LoginUserWithOtp, RecentConsumedOtp, Consumed, Unused, authVars
  <2>2. call'[c].phone = p /\ call'[c].pc = "findUser"
    BY <1>3 DEF LoginUserWithOtp, Begins, NoCall, TypeOK
  <2>3. QED
    BY <2>1, <2>2 DEF Consumed
<1>4. ASSUME NEW p \in Phones, LoginUser(c, p) PROVE HasCode(c)'
  BY <1>4 DEF LoginUser, NoCall, TypeOK, PastCode
<1>5. CASE call[c].pc \in PastCode /\ \E pc \in PastCode : Goto(c, pc)
  <2>1. call[c] \in CallRecord /\ call[c].phone \in Phones
    BY <1>5, AtStep DEF PastCode
  <2>2. call'[c].phone = call[c].phone /\ call'[c].pc \in PastCode
    BY <1>5, <2>1 DEF Goto, TypeOK, CallRecord
  <2>3. Consumed(code', call[c].phone)
    BY <1>5, <2>1, ConsumedStays
  <2>4. QED
    BY <2>2, <2>3 DEF Consumed, PastCode
<1>6. ASSUME NEW kind, call[c].pc \in PastCode, OpensAs(c, kind, "code") PROVE HasCode(c)'
  <2>1. call[c] \in CallRecord /\ call[c].phone \in Phones
    BY <1>6, AtStep DEF PastCode
  <2>2. call'[c].actor.phone = call[c].phone /\ call'[c].pc = "open"
    BY <1>6, <2>1 DEF OpensAs, TypeOK, CallRecord
  <2>3. Consumed(code', call[c].phone)
    BY <1>6, <2>1, ConsumedStays
  <2>4. QED
    BY <2>2, <2>3 DEF Consumed, PastCode
<1>7. CASE AuthProceeds(c)
  <2>1. \/ call'[c].pc \notin PastCode \cup {"open"} \/ ConsumeOtp(c)
        \/ call[c].pc \in PastCode /\ \E pc \in PastCode : Goto(c, pc)
        \/ call[c].pc \in PastCode /\ (\/ OpensAs(c, "CUSTOMER", "code")
                                       \/ OpensAs(c, "USER", "code"))
    BY <1>7 DEF AuthProceeds, MarkUserPhoneVerified, FindCustomer, MarkCustomer,
       FindsAccount, MarksAccount, LoginCustomerFind, CreateCustomer, LoginMark, FindUser,
       IssueToken, RevokeSession, CreateAndSaveSession, Ends, NoCall, At, PastCode, TypeOK
  <2>2. QED
    BY <1>1, <1>2, <1>5, <1>6, <2>1
<1>8. CASE AuthArrives(c)
  <2>1. ASSUME NEW p \in Phones, NEW i \in 1..MaxCodes, VerifyOtp(c, p, i) PROVE HasCode(c)'
    <3>1. call'[c].pc \in {"consumeUser", "consumeCustomer"}
      BY <2>1 DEF VerifyOtp, BeginsWith, NoCall, TypeOK
    <3>2. QED
      BY <1>1, <3>1 DEF PastCode
  <2>2. ASSUME NEW s \in SessionIds, RefreshAuthToken(c, s) \/ Logout(c, s) PROVE HasCode(c)'
    <3>1. call'[c].pc \in {"issue", "revoke"}
      BY <2>2 DEF RefreshAuthToken, Logout, BeginsWith, NoCall, TypeOK
    <3>2. QED
      BY <1>1, <3>1 DEF PastCode
  <2>3. QED
    BY <1>3, <1>4, <1>8, <2>1, <2>2 DEF AuthArrives
<1>9. CASE CustomerArrives(c) \/ CustomerProceeds(c) \/ Crash(c)
  <2>1. CASE CustomerArrives(c)
    <3>1. call'[c].pc \in {"profileCheck", "profileDelete", "commit"}
      <4>1. ASSUME NEW p, UpsertAccount(c, p) PROVE call'[c].pc = "profileCheck"
        BY <4>1 DEF UpsertAccount, Begins, NoCall, TypeOK
      <4>2. ASSUME NEW p, FindProfileToDelete(c, p) PROVE call'[c].pc = "profileDelete"
        BY <4>2 DEF FindProfileToDelete, BeginsWith, NoCall, TypeOK
      <4>3. ASSUME NEW p, BookRead(c, p) PROVE call'[c].pc = "commit"
        BY <4>3 DEF BookRead, NoCall, TypeOK
      <4>4. QED
        BY <2>1, <4>1, <4>2, <4>3 DEF CustomerArrives, PublicBookRead
    <3>2. QED
      BY <1>1, <3>1 DEF PastCode
  <2>2. CASE CustomerProceeds(c) \/ Crash(c)
    <3>1. Ends(c) \/ Goto(c, "profileCreate")
      BY <2>2 DEF CustomerProceeds, FindProfile, DeleteProfile, CreateProfile, BookCommit, Crash
    <3>2. call'[c].pc \in {"idle", "profileCreate"}
      BY <3>1 DEF Ends, Goto, NoCall, TypeOK, CallRecord
    <3>3. QED
      BY <1>1, <3>2 DEF PastCode
  <2>3. QED
    BY <1>9, <2>1, <2>2
<1>10. QED
  BY <1>7, <1>8, <1>9 DEF Serves

\* Every step keeps sessions and calls on their codes.
LEMMA CodeStep == TypeOK /\ CodeInv /\ [Next]_vars => CodeInv'
<1> SUFFICES ASSUME TypeOK, CodeInv, [Next]_vars PROVE CodeInv'
  OBVIOUS
<1>1. ASSUME NEW d \in Calls, call'[d] = call[d] PROVE HasCode(d)'
  <2>1. HasCode(d)
    BY DEF CodeInv
  <2>2. (call[d].pc \in PastCode => Consumed(code', call[d].phone))
    <3> SUFFICES ASSUME call[d].pc \in PastCode PROVE Consumed(code', call[d].phone)
      OBVIOUS
    <3>1. call[d].phone \in Phones
      BY AtStep DEF PastCode
    <3>2. QED
      BY <2>1, <3>1, ConsumedStays DEF HasCode
  <2>3. (call[d].pc = "open" /\ call[d].actor.via = "code") => Consumed(code', call[d].actor.phone)
    BY <2>1, ConsumedStays DEF HasCode, TypeOK, At, Actors
  <2>4. QED
    BY <1>1, <2>2, <2>3 DEF HasCode, Consumed
<1>2. ASSUME NEW d \in Calls PROVE HasCode(d)'
  <2>1. CASE call'[d] = call[d]
    BY <1>1, <2>1
  <2>2. CASE Serves(d) \/ Crash(d)
    BY <2>2, ActorHasCode DEF CodeInv
  <2>3. QED
    BY <2>1, <2>2, OneCallMoves
<1>3. ASSUME NEW s \in SessionIds, session'[s] # None, session'[s].actor.via = "code"
      PROVE  Consumed(code', session'[s].actor.phone)
  <2>1. CASE session[s] # None
    <3>1. session'[s].actor = session[s].actor /\ session[s].actor.phone \in Phones
      BY <2>1, SessionsStay DEF TypeOK, SessionRows, Actors
    <3>2. Consumed(code, session[s].actor.phone)
      BY <1>3, <2>1, <3>1 DEF CodeInv, SessionHasCode, Consumed
    <3>3. QED
      BY <3>1, <3>2, ConsumedStays
  <2>2. CASE session[s] = None
    <3>1. PICK c \in Calls : call[c].pc = "open" /\ session'[s].actor = call[c].actor
      BY <1>3, <2>2, NewSession
    <3>2. Consumed(code, call[c].actor.phone) /\ call[c].actor.phone \in Phones
      BY <1>3, <3>1 DEF CodeInv, HasCode, TypeOK, At, Actors
    <3>3. QED
      BY <3>1, <3>2, ConsumedStays
  <2>3. QED
    BY <2>1, <2>2
<1>4. SessionHasCode'
  BY <1>3 DEF SessionHasCode, Consumed
<1>5. QED
  BY <1>2, <1>4 DEF CodeInv

\* No session without a password or a code of its own phone, consumed before.
THEOREM SessionsRestOnCodes == Spec => []SessionHasCode
<1>1. Init => CodeInv
  BY DEF Init, CodeInv, SessionHasCode, HasCode, NoCall, PastCode
<1>2. CodeInv => SessionHasCode
  BY DEF CodeInv
<1>3. QED
  BY <1>1, <1>2, TypeCorrect, CodeStep, PTL DEF Spec
----------------------------------------------------------------------------
(* Customers are verified.                                                 *)

\* A call opens a customer's session only for an account it saw verified.
LEMMA ActorIsVerified ==
    ASSUME TypeOK, [Next]_vars, NEW c \in Calls, Serves(c) \/ Crash(c)
    PROVE  IsVerified(c)'
<1> USE DEF IsVerified
<1>1. CASE call'[c].pc # "open"
  BY <1>1
<1>2. CASE CreateCustomer(c) \/ LoginMark(c) \/ LoginCustomerFind(c)
  <2>1. call[c] \in CallRecord /\ call[c].phone \in Phones
    BY <1>2, AtStep DEF CreateCustomer, LoginMark, LoginCustomerFind, At
  <2>2. CASE OpensAs(c, "CUSTOMER", "code")
    <3>1. call'[c].actor.phone = call[c].phone
      BY <2>1, <2>2 DEF OpensAs, TypeOK, CallRecord
    <3>2. account'[call[c].phone] = TRUE
      <4>1. ~Ends(c) /\ \A pc \in PastCode : ~Goto(c, pc)
        <5>1. call'[c].pc = "open"
          BY <2>1, <2>2 DEF OpensAs, TypeOK, CallRecord
        <5>2. QED
          BY <2>1, <5>1 DEF Ends, Goto, NoCall, TypeOK, CallRecord, PastCode
      <4>2. CASE CreateCustomer(c)
        BY <2>1, <4>1, <4>2 DEF CreateCustomer, TypeOK
      <4>3. CASE LoginMark(c)
        BY <2>1, <4>3 DEF LoginMark, TypeOK
      <4>4. CASE LoginCustomerFind(c)
        <5>1. account[call[c].phone] # None /\ account[call[c].phone]
          BY <4>1, <4>4 DEF LoginCustomerFind, PastCode
        <5>2. QED
          BY <2>1, <4>4, <5>1 DEF LoginCustomerFind, TypeOK, customerVars
      <4>5. QED
        BY <1>2, <4>2, <4>3, <4>4
    <3>3. QED
      BY <3>1, <3>2
  <2>3. CASE Ends(c) \/ \E pc \in PastCode : Goto(c, pc)
    <3>1. call'[c].pc # "open"
      BY <2>1, <2>3 DEF Ends, Goto, NoCall, TypeOK, CallRecord, PastCode
    <3>2. QED
      BY <3>1
  <2>4. QED
    BY <1>2, <2>2, <2>3 DEF CreateCustomer, LoginMark, LoginCustomerFind, PastCode
<1>3. CASE FindUser(c)
  <2>1. call[c] \in CallRecord
    BY <1>3, AtStep DEF FindUser, At
  <2>2. call'[c].pc # "open" \/ call'[c].actor.kind = "USER"
    BY <1>3, <2>1 DEF FindUser, OpensAs, Ends, NoCall, TypeOK, CallRecord
  <2>3. QED
    BY <2>2
<1>4. ASSUME NEW p \in Phones, LoginUser(c, p) PROVE IsVerified(c)'
  BY <1>4 DEF LoginUser, NoCall, TypeOK
<1>5. CASE ConsumeOtp(c) \/ MarkUserPhoneVerified(c) \/ FindCustomer(c) \/ MarkCustomer(c)
           \/ IssueToken(c) \/ RevokeSession(c)
           \/ \E s \in SessionIds : CreateAndSaveSession(c, s)
  <2>1. Ends(c) \/ \E pc \in PastCode : Goto(c, pc)
    BY <1>5 DEF ConsumeOtp, MarkUserPhoneVerified, FindCustomer, MarkCustomer, FindsAccount,
       MarksAccount, IssueToken, RevokeSession, CreateAndSaveSession, PastCode
  <2>2. call[c] \in CallRecord
    BY <1>5, AtStep DEF ConsumeOtp, MarkUserPhoneVerified, FindCustomer, MarkCustomer,
       FindsAccount, MarksAccount, IssueToken, RevokeSession, CreateAndSaveSession, At
  <2>3. call'[c].pc # "open"
    BY <2>1, <2>2 DEF Ends, Goto, NoCall, TypeOK, CallRecord, PastCode
  <2>4. QED
    BY <2>3
<1>6. CASE AuthArrives(c)
  <2>1. ASSUME NEW p \in Phones, NEW i \in 1..MaxCodes, VerifyOtp(c, p, i)
        PROVE  call'[c].pc # "open"
    BY <2>1 DEF VerifyOtp, BeginsWith, NoCall, TypeOK
  <2>2. ASSUME NEW s \in SessionIds, RefreshAuthToken(c, s) \/ Logout(c, s)
        PROVE  call'[c].pc # "open"
    BY <2>2 DEF RefreshAuthToken, Logout, BeginsWith, NoCall, TypeOK
  <2>3. ASSUME NEW p \in Phones, LoginUserWithOtp(c, p) PROVE call'[c].pc # "open"
    BY <2>3 DEF LoginUserWithOtp, Begins, NoCall, TypeOK
  <2>4. QED
    BY <1>1, <1>4, <1>6, <2>1, <2>2, <2>3 DEF AuthArrives
<1>7. CASE CustomerArrives(c)
  <2>1. ASSUME NEW p, UpsertAccount(c, p) PROVE call'[c].pc # "open"
    BY <2>1 DEF UpsertAccount, Begins, NoCall, TypeOK
  <2>2. ASSUME NEW p, FindProfileToDelete(c, p) PROVE call'[c].pc # "open"
    BY <2>2 DEF FindProfileToDelete, BeginsWith, NoCall, TypeOK
  <2>3. ASSUME NEW p, BookRead(c, p) PROVE call'[c].pc # "open"
    BY <2>3 DEF BookRead, NoCall, TypeOK
  <2>4. QED
    BY <1>1, <1>7, <2>1, <2>2, <2>3 DEF CustomerArrives, PublicBookRead
<1>8. CASE CustomerProceeds(c) \/ Crash(c)
  <2>1. Ends(c) \/ Goto(c, "profileCreate")
    BY <1>8 DEF CustomerProceeds, FindProfile, DeleteProfile, CreateProfile, BookCommit, Crash
  <2>2. call'[c].pc # "open"
    BY <2>1 DEF Ends, Goto, NoCall, TypeOK, CallRecord
  <2>3. QED
    BY <2>2
<1>9. QED
  BY <1>2, <1>3, <1>4, <1>5, <1>6, <1>7, <1>8 DEF Serves, AuthProceeds

\* Every step keeps customers' sessions on verified accounts.
LEMMA VerifiedStep == TypeOK /\ VerifiedInv /\ [Next]_vars => VerifiedInv'
<1> SUFFICES ASSUME TypeOK, VerifiedInv, [Next]_vars PROVE VerifiedInv'
  OBVIOUS
<1>1. ASSUME NEW d \in Calls PROVE IsVerified(d)'
  <2>1. CASE call'[d] = call[d]
    BY <2>1, AccountsStay DEF VerifiedInv, IsVerified, TypeOK, At, Actors
  <2>2. CASE Serves(d) \/ Crash(d)
    BY <2>2, ActorIsVerified
  <2>3. QED
    BY <2>1, <2>2, OneCallMoves
<1>2. ASSUME NEW s \in SessionIds, session'[s] # None, session'[s].actor.kind = "CUSTOMER"
      PROVE  account'[session'[s].actor.phone] = TRUE
  <2>1. CASE session[s] # None
    <3>1. session'[s].actor = session[s].actor /\ session[s].actor.phone \in Phones
      BY <2>1, SessionsStay DEF TypeOK, SessionRows, Actors
    <3>2. account[session[s].actor.phone] = TRUE
      BY <1>2, <2>1, <3>1 DEF VerifiedInv, CustomerIsVerified
    <3>3. QED
      BY <3>1, <3>2, AccountsStay
  <2>2. CASE session[s] = None
    <3>1. PICK c \in Calls : call[c].pc = "open" /\ session'[s].actor = call[c].actor
      BY <1>2, <2>2, NewSession
    <3>2. account[call[c].actor.phone] = TRUE /\ call[c].actor.phone \in Phones
      BY <1>2, <3>1 DEF VerifiedInv, IsVerified, TypeOK, At, Actors
    <3>3. QED
      BY <3>1, <3>2, AccountsStay
  <2>3. QED
    BY <2>1, <2>2
<1>3. QED
  BY <1>1, <1>2 DEF VerifiedInv, CustomerIsVerified

\* Nobody is logged in as a customer whose account is not verified.
THEOREM CustomersAreVerified == Spec => []CustomerIsVerified
<1>1. Init => VerifiedInv
  BY DEF Init, VerifiedInv, CustomerIsVerified, IsVerified, NoCall
<1>2. VerifiedInv => CustomerIsVerified
  BY DEF VerifiedInv
<1>3. QED
  BY <1>1, <1>2, TypeCorrect, VerifiedStep, PTL DEF Spec
----------------------------------------------------------------------------
(* Bookings keep their profile.                                            *)

\* A call that will create or use a profile knows that its account is there.
LEMMA ActorHasAccount ==
    ASSUME TypeOK, [Next]_vars, NEW c \in Calls, HasAccount(c), Serves(c) \/ Crash(c)
    PROVE  HasAccount(c)'
<1> USE DEF HasAccount
<1>1. CASE call'[c].pc \notin {"profileCheck", "profileCreate", "commit"}
  BY <1>1
<1>2. ASSUME NEW p \in Phones, UpsertAccount(c, p) PROVE HasAccount(c)'
  <2>1. call'[c].phone = p /\ call'[c].pc = "profileCheck"
    BY <1>2 DEF UpsertAccount, Begins, NoCall, TypeOK
  <2>2. account'[p] # None
    BY <1>2, NoneIsNoValue DEF UpsertAccount, TypeOK
  <2>3. QED
    BY <2>1, <2>2
<1>3. ASSUME NEW p \in Phones, BookRead(c, p) PROVE HasAccount(c)'
  <2>1. /\ call'[c].phone = Normal[p] /\ call'[c].pc = "commit"
        /\ call'[c].seen = (account[Normal[p]] # None)
        /\ UNCHANGED account
    BY <1>3 DEF BookRead, NoCall, TypeOK, customerVars
  <2>2. QED
    BY <2>1
<1>4. CASE FindProfile(c)
  <2>1. call[c] \in CallRecord /\ account[call[c].phone] # None /\ UNCHANGED account
    BY <1>4, AtStep DEF FindProfile, At, customerVars
  <2>2. Ends(c) \/ Goto(c, "profileCreate")
    BY <1>4 DEF FindProfile
  <2>3. \/ call'[c].pc = "idle"
        \/ call'[c].pc = "profileCreate" /\ call'[c].phone = call[c].phone
    BY <2>1, <2>2 DEF Ends, Goto, NoCall, TypeOK, CallRecord
  <2>4. QED
    BY <2>1, <2>3
<1>5. CASE AuthProceeds(c)
  <2>1. call[c] \in CallRecord
    BY <1>5, AtStep DEF AuthProceeds, ConsumeOtp, MarkUserPhoneVerified, FindCustomer,
       MarkCustomer, FindsAccount, MarksAccount, LoginCustomerFind, CreateCustomer, LoginMark,
       FindUser, IssueToken, RevokeSession, CreateAndSaveSession, At
  <2>2. \/ Ends(c) \/ \E pc \in PastCode : Goto(c, pc)
        \/ OpensAs(c, "CUSTOMER", "code") \/ OpensAs(c, "USER", "code")
    BY <1>5 DEF AuthProceeds, ConsumeOtp, MarkUserPhoneVerified, FindCustomer, MarkCustomer,
       FindsAccount, MarksAccount, LoginCustomerFind, CreateCustomer, LoginMark, FindUser,
       IssueToken, RevokeSession, CreateAndSaveSession, PastCode
  <2>3. call'[c].pc \in PastCode \cup {"idle", "open"}
    BY <2>1, <2>2 DEF Ends, Goto, OpensAs, NoCall, TypeOK, CallRecord
  <2>4. QED
    BY <1>1, <2>3 DEF PastCode
<1>6. CASE AuthArrives(c)
  <2>1. ASSUME NEW p \in Phones, NEW i \in 1..MaxCodes, VerifyOtp(c, p, i)
        PROVE  call'[c].pc \in {"consumeUser", "consumeCustomer"}
    BY <2>1 DEF VerifyOtp, BeginsWith, NoCall, TypeOK
  <2>2. ASSUME NEW s \in SessionIds, RefreshAuthToken(c, s) \/ Logout(c, s)
        PROVE  call'[c].pc \in {"issue", "revoke"}
    BY <2>2 DEF RefreshAuthToken, Logout, BeginsWith, NoCall, TypeOK
  <2>3. ASSUME NEW p \in Phones, LoginUserWithOtp(c, p) PROVE call'[c].pc = "findUser"
    BY <2>3 DEF LoginUserWithOtp, Begins, NoCall, TypeOK
  <2>4. ASSUME NEW p \in Phones, LoginUser(c, p) PROVE call'[c].pc = "open"
    BY <2>4 DEF LoginUser, NoCall, TypeOK
  <2>5. QED
    BY <1>1, <1>6, <2>1, <2>2, <2>3, <2>4 DEF AuthArrives
<1>7. ASSUME NEW p \in Phones, FindProfileToDelete(c, p) PROVE HasAccount(c)'
  <2>1. call'[c].pc = "profileDelete"
    BY <1>7 DEF FindProfileToDelete, BeginsWith, NoCall, TypeOK
  <2>2. QED
    BY <1>1, <2>1
<1>8. CASE Ends(c)
  BY <1>1, <1>8 DEF Ends, NoCall, TypeOK
<1>9. QED
  BY <1>2, <1>3, <1>4, <1>5, <1>6, <1>7, <1>8 DEF Serves, Crash, CustomerArrives,
     PublicBookRead, CustomerProceeds, DeleteProfile, CreateProfile, BookCommit

\* What a step does to profiles and bookings.
LEMMA ProfileMoves ==
    ASSUME TypeOK, ProfileInv, [Next]_vars
    PROVE  /\ NoOrphans'
           /\ \A p \in Phones : profile'[p] # None => account'[p] # None
<1> USE NoneIsNoValue
<1> DEFINE Goal == /\ NoOrphans'
                   /\ \A p \in Phones : profile'[p] # None => account'[p] # None
<1>1. ASSUME UNCHANGED <<profile, booking>> PROVE Goal
  BY <1>1, AccountsStay DEF ProfileInv, NoOrphans
<1>2. ASSUME NEW c \in Calls, NEW f \in ProfileIds, CreateProfile(c, f) PROVE Goal
  <2>1. call[c].phone \in Phones /\ account[call[c].phone] # None
    BY <1>2, AtStep DEF CreateProfile, At, ProfileInv, HasAccount
  <2>2. /\ UNCHANGED <<booking, account>>
        /\ profile' = IF profile[call[c].phone] = None
                       THEN [profile EXCEPT ![call[c].phone] = f] ELSE profile
    BY <1>2 DEF CreateProfile
  <2>3. \A p \in Phones : profile[p] # None => profile'[p] = profile[p]
    BY <2>1, <2>2 DEF TypeOK
  <2>4. \A p \in Phones : p # call[c].phone => profile'[p] = profile[p]
    BY <2>1, <2>2 DEF TypeOK
  <2>5. \A b \in Bookings : booking[b] # None =>
           \E p \in Phones : profile'[p] = booking[b] /\ account[p] # None
    BY <2>3 DEF ProfileInv, NoOrphans
  <2>6. QED
    BY <2>1, <2>2, <2>4, <2>5 DEF ProfileInv, NoOrphans
<1>3. ASSUME NEW c \in Calls, DeleteProfile(c) PROVE Goal
  <2> DEFINE p0 == call[c].phone
             f == call[c].item
  <2>1. p0 \in Phones /\ UNCHANGED <<booking, account>>
    BY <1>3, AtStep DEF DeleteProfile, At
  <2>2. CASE /\ profile[p0] = f /\ \A b \in Bookings : booking[b] # f
             /\ profile' = [profile EXCEPT ![p0] = None]
    <3>1. \A p \in Phones : profile'[p] = IF p = p0 THEN None ELSE profile[p]
      BY <2>1, <2>2 DEF TypeOK
    <3>2. \A b \in Bookings : booking[b] # None =>
             \E p \in Phones : profile'[p] = booking[b] /\ account[p] # None
      BY <2>2, <3>1 DEF ProfileInv, NoOrphans
    <3>3. QED
      BY <2>1, <3>1, <3>2 DEF ProfileInv, NoOrphans
  <2>3. CASE UNCHANGED profile
    BY <1>1, <2>1, <2>3
  <2>4. QED
    BY <1>3, <2>2, <2>3 DEF DeleteProfile
<1>4. ASSUME NEW c \in Calls, NEW f \in ProfileIds, NEW b \in Bookings, BookCommit(c, f, b)
      PROVE  Goal
  <2> DEFINE p0 == call[c].phone
             g == IF call[c].item = None THEN f ELSE call[c].item
  <2>1. p0 \in Phones /\ (call[c].seen => account[p0] # None)
    BY <1>4, AtStep DEF BookCommit, At, ProfileInv, HasAccount
  <2>2. CASE Refused(c)
    BY <1>1, <1>4, <2>2 DEF BookCommit
  <2>3. CASE ~Refused(c)
    <3>1. call[c].item = profile[p0]
      BY <2>3 DEF Refused
    <3>2. /\ profile' = [profile EXCEPT ![p0] = g]
          /\ booking' = [booking EXCEPT ![b] = g]
          /\ account' = IF call[c].seen THEN account ELSE [account EXCEPT ![p0] = FALSE]
      BY <1>4, <2>3 DEF BookCommit
    <3>3. account'[p0] # None
      BY <2>1, <3>2 DEF TypeOK
    <3>4. profile'[p0] = g /\ \A p \in Phones : profile[p] # None => profile'[p] = profile[p]
      BY <2>1, <3>1, <3>2 DEF TypeOK
    <3>5. \A p \in Phones : p # p0 => profile'[p] = profile[p]
      BY <2>1, <3>2 DEF TypeOK
    <3>6. \A d \in Bookings : booking'[d] = IF d = b THEN g ELSE booking[d]
      BY <3>2 DEF TypeOK
    <3>7. ASSUME NEW d \in Bookings, booking'[d] # None
          PROVE  \E p \in Phones : profile'[p] = booking'[d] /\ account'[p] # None
      <4>1. CASE d = b
        BY <2>1, <3>3, <3>4, <3>6, <4>1
      <4>2. CASE d # b
        <5>1. booking'[d] = booking[d] /\ booking[d] # None
          BY <3>6, <3>7, <4>2
        <5>2. PICK p \in Phones : profile[p] = booking[d] /\ account[p] # None
          BY <5>1 DEF ProfileInv, NoOrphans
        <5>3. QED
          BY <3>4, <5>1, <5>2, AccountsStay
      <4>3. QED
        BY <4>1, <4>2
    <3>8. \A p \in Phones : profile'[p] # None => account'[p] # None
      BY <3>3, <3>5, AccountsStay DEF ProfileInv
    <3>9. QED
      BY <3>7, <3>8 DEF NoOrphans
  <2>4. QED
    BY <2>2, <2>3
<1> HIDE DEF Goal
<1>5. Goal
  BY <1>1, <1>2, <1>3, <1>4 DEF Next, Serves, Crash, Time, RequestUserOtp,
     RequestCustomerOtp, SendsCode, ConsumeOtp, CodeAges,
     AuthArrives, AuthProceeds, CustomerArrives, CustomerProceeds, VerifyOtp, LoginUserWithOtp,
     LoginUser, RefreshAuthToken, Logout, MarkUserPhoneVerified, FindCustomer,
     FindsAccount, LoginCustomerFind, FindUser, RevokeSession, CreateAndSaveSession,
     IssueToken, AccessExpires, SessionExpires, MarkCustomer, MarksAccount, CreateCustomer,
     LoginMark, UpsertAccount, FindProfile, FindProfileToDelete, BookRead,
     PublicBookRead, customerVars, vars
<1>6. QED
  BY <1>5 DEF Goal

\* Every step keeps every booking's profile.
LEMMA ProfileStep == TypeOK /\ ProfileInv /\ [Next]_vars => ProfileInv'
<1> SUFFICES ASSUME TypeOK, ProfileInv, [Next]_vars PROVE ProfileInv'
  OBVIOUS
<1>1. ASSUME NEW d \in Calls PROVE HasAccount(d)'
  <2>1. CASE call'[d] = call[d]
    <3>1. call[d].pc \in {"profileCheck", "profileCreate", "commit"} => call[d].phone \in Phones
      BY AtStep
    <3>2. QED
      BY <2>1, <3>1, AccountsStay DEF ProfileInv, HasAccount
  <2>2. CASE Serves(d) \/ Crash(d)
    BY <2>2, ActorHasAccount DEF ProfileInv
  <2>3. QED
    BY <2>1, <2>2, OneCallMoves
<1>2. QED
  BY <1>1, ProfileMoves DEF ProfileInv

\* A booking's profile and its account are there from its commit on.
THEOREM BookingsKeepProfiles == Spec => []NoOrphans
<1>1. Init => ProfileInv
  BY DEF Init, ProfileInv, NoOrphans, HasAccount, NoCall
<1>2. ProfileInv => NoOrphans
  BY DEF ProfileInv
<1>3. QED
  BY <1>1, <1>2, TypeCorrect, ProfileStep, PTL DEF Spec
====
