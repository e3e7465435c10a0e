---- MODULE CustomerOps ----
(***************************************************************************)
(* The center's customer list, and the part of a booking that finds or     *)
(* creates the customer.  The list's handlers run statement by statement;  *)
(* a booking is one REPEATABLE READ transaction.  Uniqueness of phone and  *)
(* of (center, account), and the foreign key of a booking to its profile,  *)
(* are the database's.                                                     *)
(***************************************************************************)
EXTENDS AccountData

\* createCustomer first upserts the account, which leaves a known one as it is.
UpsertAccount(c, p) ==
    /\ Begins(c, p, "profileCheck")
    /\ account' = IF account[p] = None THEN [account EXCEPT ![p] = FALSE] ELSE account
    /\ UNCHANGED <<user, profile, dropped, booking, authVars>>

FindProfile(c) ==
    /\ At(c, "profileCheck")
    /\ IF profile[call[c].phone] = None THEN Goto(c, "profileCreate") ELSE Ends(c)
    /\ UNCHANGED <<user, customerVars, authVars>>

\* The check is stale by now; the unique key decides (409).
CreateProfile(c, f) ==
    LET p == call[c].phone IN
    /\ At(c, "profileCreate") /\ Ends(c) /\ f \in UnusedProfiles
    /\ profile' = IF profile[p] = None THEN [profile EXCEPT ![p] = f] ELSE profile
    /\ UNCHANGED <<user, account, dropped, booking, authVars>>

FindProfileToDelete(c, p) ==
    /\ profile[p] # None
    /\ BeginsWith(c, p, "profileDelete", profile[p])
    /\ UNCHANGED <<user, customerVars, authVars>>

\* Mutant: the relation of a booking to its profile does not restrict.
DeleteProfile_Unrestricted(c) ==
    LET p == call[c].phone IN
    /\ At(c, "profileDelete") /\ Ends(c)
    /\ IF profile[p] = call[c].item
       THEN /\ profile' = [profile EXCEPT ![p] = None]
            /\ dropped' = dropped \cup {call[c].item}
       ELSE UNCHANGED <<profile, dropped>>
    /\ UNCHANGED <<user, account, booking, authVars>>

\* A profile that a booking references is kept (400); one that is gone is
\* not found (404).
DeleteProfile(c) ==
    LET p == call[c].phone
        f == call[c].item
    IN
    /\ At(c, "profileDelete") /\ Ends(c)
    /\ IF profile[p] = f /\ \A b \in Bookings : booking[b] # f
       THEN /\ profile' = [profile EXCEPT ![p] = None]
            /\ dropped' = dropped \cup {f}
       ELSE UNCHANGED <<profile, dropped>>
    /\ UNCHANGED <<user, account, booking, authVars>>
----------------------------------------------------------------------------
\* findOrCreateCustomerProfile in the snapshot of a booking: the normalized
\* phone's account and profile, if they are there.
BookRead(c, p) ==
    LET n == Normal[p] IN
    /\ call[c] = NoCall
    /\ call' = [call EXCEPT ![c] = [NoCall EXCEPT
                  !.pc = "commit", !.phone = n, !.item = profile[n],
                  !.seen = account[n] # None]]
    /\ UNCHANGED <<user, customerVars, authVars>>

\* A public booking may need a code accepted within the window, which is
\* looked up by the normalized phone.
PublicBookRead(c, p) ==
    /\ RequireOtp => RecentConsumedOtp(Normal[p])
    /\ BookRead(c, p)

\* What the snapshot did not show is created, unless someone has created it
\* since (unique key); a profile deleted since fails the foreign key.
Refused(c) ==
    LET p == call[c].phone IN
    \/ ~call[c].seen /\ account[p] # None
    \/ call[c].item # profile[p]

BookCommit(c, f, b) ==
    LET p == call[c].phone
        g == IF call[c].item = None THEN f ELSE call[c].item
    IN
    /\ At(c, "commit") /\ Ends(c) /\ f \in UnusedProfiles /\ booking[b] = None
    /\ IF Refused(c) THEN UNCHANGED <<account, profile, booking>>
       ELSE /\ account' = IF call[c].seen THEN account ELSE [account EXCEPT ![p] = FALSE]
            /\ profile' = [profile EXCEPT ![p] = g]
            /\ booking' = [booking EXCEPT ![b] = g]
    /\ UNCHANGED <<user, dropped, authVars>>
----------------------------------------------------------------------------
\* The routes of the customer list that change it, and the bookings.
CustomerArrives(c) ==
    \E p \in Phones :
        \/ UpsertAccount(c, p) \/ FindProfileToDelete(c, p)
        \/ BookRead(c, p) \/ PublicBookRead(c, p)

CustomerProceeds(c) ==
    \/ FindProfile(c) \/ DeleteProfile(c)
    \/ \E f \in ProfileIds : CreateProfile(c, f)
    \/ \E f \in ProfileIds, b \in Bookings : BookCommit(c, f, b)
====
