---- MODULE AccountData ----
(***************************************************************************)
(* Who can act in PxTime: staff users, customer accounts and their profile *)
(* in a center, one-time codes, sessions and access tokens.  One center.   *)
(***************************************************************************)
EXTENDS Naturals, Sequences

CONSTANTS
    Phones,     \* phone numbers as typed
    Normal,     \* normalizePhone: the spelling used for a public booking
    MaxCodes,   \* bound: codes sent to a phone
    SessionIds, \* bound: sessions opened
    ProfileIds, \* bound: profiles created
    Bookings,   \* bound: bookings made
    Calls,      \* calls being served at the same time
    RequireOtp, \* the center's setting requireOtpForPublicBooking
    None

ASSUME NormalAssumption ==
    /\ Normal \in [Phones -> Phones]
    /\ \A p \in Phones : Normal[Normal[p]] = Normal[p]
ASSUME CodeAssumption == MaxCodes \in Nat \ {0}
ASSUME NoneAssumption ==
    /\ None \notin Phones \cup SessionIds \cup ProfileIds \cup Bookings

VARIABLES
    user,     \* user[p]: whether the staff row with phone p is verified, or None
    account,  \* account[p]: whether the account with phone p is verified, or None
    profile,  \* profile[p]: the profile of account p in the center (unique)
    dropped,  \* profile ids that were deleted
    booking,  \* booking[b]: the profile it references
    code,     \* code[p]: the one-time codes of p, oldest first
    session,  \* session[s]: session rows
    access,   \* access[s]: the access token issued last for s
    call      \* call[c]: what the call being served holds

customerVars == <<account, profile, dropped, booking>>
authVars == <<code, session, access>>
vars == <<user, customerVars, authVars, call>>
----------------------------------------------------------------------------
\* Time is what became of a code: sent, past its 2 minutes, consumed within
\* the last 5 minutes ("fresh") or earlier.
CodeStates == {"sent", "expired", "fresh", "old"}
Unused == {"sent", "expired"}
Actors == [kind : {"USER", "CUSTOMER"}, phone : Phones, via : {"code", "password"}]
SessionRows == [actor : Actors, revoked : BOOLEAN, expired : BOOLEAN]

ASSUME NoneIsNoValue ==
    None \notin BOOLEAN /\ None \notin SessionRows /\ None \notin {"valid", "expired"}

Steps == {"consumeUser", "consumeCustomer", "markUsers", "findCustomer", "markVerified", "loginFind",
          "createAccount", "loginMark", "findUser", "open", "issue", "revoke",
          "profileCheck", "profileCreate", "profileDelete", "commit"}

NoCall == [pc |-> "idle", phone |-> None, actor |-> None, item |-> None, seen |-> None]
CallRecord ==
    [pc : Steps, phone : Phones, actor : Actors \cup {None},
     item : (1..MaxCodes) \cup SessionIds \cup ProfileIds \cup {None},
     seen : BOOLEAN \cup {None}]

At(c, pc) == call[c].pc = pc
Goto(c, pc) == call' = [call EXCEPT ![c].pc = pc]
Ends(c) == call' = [call EXCEPT ![c] = NoCall]
Begins(c, p, pc) ==
    /\ call[c] = NoCall
    /\ call' = [call EXCEPT ![c] = [NoCall EXCEPT !.pc = pc, !.phone = p]]
BeginsWith(c, p, pc, item) ==
    /\ call[c] = NoCall
    /\ call' = [call EXCEPT ![c] = [NoCall EXCEPT !.pc = pc, !.phone = p, !.item = item]]

\* findRecentOtp: the newest code of p that is neither consumed nor expired.
IsRecentOtp(p, i) ==
    /\ i \in DOMAIN code[p] /\ code[p][i] = "sent"
    /\ \A j \in DOMAIN code[p] : j > i => code[p][j] # "sent"

\* findRecentConsumedOtp: p had a code accepted within the window.
RecentConsumedOtp(p) == \E i \in DOMAIN code[p] : code[p][i] = "fresh"

UnusedProfiles ==
    ProfileIds \ (dropped \cup {profile[p] : p \in Phones})
====
