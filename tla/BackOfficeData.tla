---- MODULE BackOfficeData ----
(***************************************************************************)
(* A gaming center's own records, as its managers edit them and its public *)
(* site shows them: pages and the slugs they used to have, one media row,  *)
(* the site settings, the audited rows (center, station, staff member,     *)
(* settings, commission policy) and the part payments of one commission.   *)
(* A manager's call stops where the code awaits, with what it has read.    *)
(***************************************************************************)
EXTENDS Integers, Sequences, FiniteSets, FiniteSetsExt

CONSTANTS
    None,
    Managers,    \* calls in flight at the same time
    PageIds, Slugs,
    Rows,        \* which of the audited rows exist
    Prices,
    Amounts, Commission, \* part payments, and the commissionAmount due
    MaxEdits     \* bound: calls in a behaviour

ASSUME OfficeAssumption ==
    /\ Rows \subseteq
          {"GamingCenter", "GameStation", "User", "Settings", "CommissionPolicy"}
    /\ "GamingCenter" \in Rows
    /\ Prices \cup Amounts \cup {Commission} \subseteq Nat \ {0}
    /\ MaxEdits \in Nat

VARIABLES
    page,      \* page -> [slug, status, stamp], or None
    history,   \* PageSlugHistory: pairs of a page and a slug it had
    published, \* for the properties: pairs of a page and a slug it was live under
    clock,     \* the stamp of the latest write of a page
    settings,  \* the site settings' latest version
    copy,      \* a browser's copy of a page: [slug, stamp, settings], or None
    media,     \* the media row: [purpose, alt]
    row,       \* audited row -> [version, price, active]
    trail,     \* audited row -> its audit rows: [old, own, new] versions
    earning,   \* the commission's status
    parts,     \* its part payments, a set of [by, amount, paid]
    call,      \* manager -> the call in flight, or None
    edits,     \* number of calls begun
    crossed    \* for the properties: what two calls handled at the same time

siteVars == <<page, history, published, clock, settings, copy>>
recordVars == <<row, trail>>
moneyVars == <<earning, parts>>
vars == <<siteVars, media, recordVars, moneyVars, call, edits, crossed>>
----------------------------------------------------------------------------
\* ARCHIVED is treated everywhere as DRAFT is.
PageStatus == {"DRAFT", "PUBLISHED"}
NeedsAltText == {"LOGO", "COVER"}

Pages == [slug : Slugs, status : PageStatus, stamp : Nat]
MediaRows == [purpose : {"GALLERY", "LOGO", "COVER"}, alt : {"null", "text"}]

ASSUME NoneAssumption == None \notin Pages /\ None \notin MediaRows

\* A body names a field or leaves it out.
Given(field, old) == IF field = None THEN old ELSE field

At(m, op, pc) == call[m] # None /\ call[m].op = op /\ call[m].pc = pc

\* A manager's call arrives and makes its first read.
Begins(m, op, thing, id, seen, body) ==
    /\ call[m] = None /\ edits < MaxEdits
    /\ edits' = edits + 1
    /\ call' = [call EXCEPT ![m] =
           [op |-> op, pc |-> "write", thing |-> thing, id |-> id, seen |-> seen,
            body |-> body, own |-> None, after |-> None]]
    /\ crossed' = crossed \cup
           {x \in {thing} : \E n \in Managers : call[n] # None /\ call[n].thing = x}

Goes(m, pc, own, after) ==
    /\ call' = [call EXCEPT ![m].pc = pc, ![m].own = own, ![m].after = after]
    /\ UNCHANGED <<edits, crossed>>
Ends(m) == call' = [call EXCEPT ![m] = None] /\ UNCHANGED <<edits, crossed>>

\* One statement is the whole call.
Single == /\ edits < MaxEdits /\ edits' = edits + 1 /\ UNCHANGED <<call, crossed>>

OfficeTypeOK ==
    /\ page \in [PageIds -> Pages \cup {None}]
    /\ \A p \in PageIds : page[p] # None => page[p].stamp \in 1..clock
    /\ media \in MediaRows \cup {None}
    /\ clock \in Nat
    /\ history \cup published \subseteq PageIds \X Slugs
    /\ settings \in Nat
    /\ row \in [Rows -> [version : Nat, price : Prices, active : BOOLEAN]]
    /\ earning \in {"PENDING", "CHARGED"}
    /\ \A x \in parts : x.by \in 1..MaxEdits /\ x.amount \in Amounts
    /\ edits \in 0..MaxEdits
====
