---- MODULE BackOffice_proofs ----
(***************************************************************************)
(* For any number of managers, pages, slugs and edits: audit rows span     *)
(* their edit, a deleted center stays deleted, links and copies of pages   *)
(* are right, a logo keeps its text while edits do not overlap, and a      *)
(* commission is charged once its payments cover it.                       *)
(***************************************************************************)
EXTENDS BackOffice, SumTheorems, TLAPS

\* A call in flight has these fields.
Shape(c) ==
    c = [op |-> c.op, pc |-> c.pc, thing |-> c.thing, id |-> c.id, seen |-> c.seen,
         body |-> c.body, own |-> c.own, after |-> c.after]

\* An edit of a row read a version before the one it wrote, and reads none
\* before it again; the center's was found active.
RowCall(c) ==
    c.op \in RowOps =>
        /\ c.id \in Rows /\ c.pc \in {"write", "reread", "audit"}
        /\ c.body.active \in BOOLEAN \cup {None} /\ c.body.price \in Prices \cup {None}
        /\ c.seen.version \in Nat /\ c.seen.version <= row[c.id].version
        /\ c.pc # "write" => /\ c.own \in Nat /\ c.seen.version < c.own
                             /\ c.own <= row[c.id].version
        /\ (c.pc = "audit" /\ c.after # None) => c.after \in Nat /\ c.own <= c.after
        /\ c.id = "GamingCenter" =>
              /\ c.seen.active = TRUE
              /\ \/ c.op = "updateCenter"
                 \/ c.op = "deleteCenter" /\ c.body.active = FALSE

PageCall(c) ==
    c.op = "updatePage" =>
        /\ c.thing = "page" /\ c.id \in PageIds /\ page[c.id] # None
        /\ c.seen \in Pages
        /\ c.body.slug \in Slugs \cup {None} /\ c.body.status \in PageStatus \cup {None}
        /\ "page" \notin crossed => c.seen = page[c.id]

MediaCall(c) ==
    c.op = "updateMedia" =>
        /\ c.thing = "media" /\ media # None /\ c.body \in MediaBodies
        /\ "media" \notin crossed =>
              /\ c.seen = media
              /\ AltTextPresent(Given(c.body.purpose, media.purpose),
                                NextAltText(media, c.body))

PartCall(c) ==
    c.op = "payCommission" => c.body.by \in 1..MaxEdits /\ c.body.amount \in Amounts

CallOK(c) == Shape(c) /\ RowCall(c) /\ PageCall(c) /\ MediaCall(c) /\ PartCall(c)
CallsOK ==
    /\ call = [m \in Managers |-> call[m]]
    /\ \A m \in Managers : call[m] # None => CallOK(call[m])

\* Two calls on a thing at the same time are remembered.
Alone ==
    \A m, n \in Managers :
        (call[m] # None /\ call[n] # None /\ call[m].thing = call[n].thing) =>
            m = n \/ call[m].thing \in crossed

\* A slug under which a page was live is its own or in its history.
LinksInv == "page" \notin crossed =>
    \A x \in published : page[x[1]] # None /\ (page[x[1]].slug = x[2] \/ x \in history)

\* A page with the copied slug is the copied one or was written since.
CopyInv == copy # None =>
    /\ copy.stamp \in 1..clock
    /\ \A p \in PageIds : (page[p] # None /\ page[p].slug = copy.slug) =>
          copy.stamp <= page[p].stamp

TrailInv == AuditSpansItsEdit /\ trail = [r \in Rows |-> trail[r]]
OfficeInv ==
    /\ TypeOK /\ CallsOK /\ Alone /\ TrailInv /\ LinksInv /\ CopyInv /\ BrandHasAltText
----------------------------------------------------------------------------
(* The first read of a call, and its other steps.                          *)

\* What the arrival of a call does to the calls.
LEMMA Arrival ==
    ASSUME OfficeInv, NEW m \in Managers, NEW op, NEW thing, NEW id, NEW seen, NEW body,
           Begins(m, op, thing, id, seen, body)
    PROVE  /\ edits' \in 1..MaxEdits /\ edits' = edits + 1 /\ crossed \subseteq crossed'
           /\ call' = [n \in Managers |-> call'[n]] /\ call[m] = None
           /\ \A n \in Managers \ {m} : call'[n] = call[n]
           /\ call'[m] = [op |-> op, pc |-> "write", thing |-> thing, id |-> id,
                          seen |-> seen, body |-> body, own |-> None, after |-> None]
           /\ Alone'
<1>1. /\ edits' \in 1..MaxEdits /\ edits' = edits + 1 /\ crossed \subseteq crossed'
  BY OfficeAssumption DEF Begins, OfficeInv, TypeOK, OfficeTypeOK
<1>2. call = [n \in Managers |-> call[n]]
  BY DEF OfficeInv, CallsOK
<1>3. /\ call' = [n \in Managers |-> call'[n]] /\ call[m] = None
      /\ \A n \in Managers \ {m} : call'[n] = call[n]
      /\ call'[m] = [op |-> op, pc |-> "write", thing |-> thing, id |-> id,
                     seen |-> seen, body |-> body, own |-> None, after |-> None]
  BY <1>2 DEF Begins
<1>4. \A n \in Managers \ {m} : (call[n] # None /\ call[n].thing = thing) => thing \in crossed'
  BY DEF Begins
<1>5. call'[m].thing = thing
  BY <1>3
<1>6. Alone'
  <2> SUFFICES ASSUME NEW x \in Managers, NEW y \in Managers, call'[x] # None,
                      call'[y] # None, call'[x].thing = call'[y].thing, x # y
               PROVE  call'[x].thing \in crossed'
    BY DEF Alone
  <2>1. CASE x = m \/ y = m
    BY <1>3, <1>4, <1>5, <2>1
  <2>2. CASE x # m /\ y # m
    BY <1>1, <1>3, <2>2 DEF OfficeInv, Alone
  <2>3. QED
    BY <2>1, <2>2
<1>7. QED
  BY <1>1, <1>3, <1>6

\* What the end of a call does.
LEMMA End ==
    ASSUME OfficeInv, NEW m \in Managers, Ends(m)
    PROVE  /\ UNCHANGED <<edits, crossed>>
           /\ call' = [n \in Managers |-> call'[n]]
           /\ call'[m] = None /\ \A n \in Managers \ {m} : call'[n] = call[n]
           /\ Alone'
<1>1. call = [n \in Managers |-> call[n]]
  BY DEF OfficeInv, CallsOK
<1>2. /\ UNCHANGED <<edits, crossed>>
      /\ call' = [n \in Managers |-> call'[n]]
      /\ call'[m] = None /\ \A n \in Managers \ {m} : call'[n] = call[n]
  BY <1>1 DEF Ends
<1>3. Alone'
  BY <1>2 DEF OfficeInv, Alone
<1>4. QED
  BY <1>2, <1>3

\* What a step in the middle of a call does.
LEMMA Middle ==
    ASSUME OfficeInv, NEW m \in Managers, call[m] # None, NEW pc, NEW own, NEW after,
           Goes(m, pc, own, after)
    PROVE  /\ UNCHANGED <<edits, crossed>>
           /\ call' = [n \in Managers |-> call'[n]]
           /\ \A n \in Managers \ {m} : call'[n] = call[n]
           /\ call'[m] = [op |-> call[m].op, pc |-> pc, thing |-> call[m].thing,
                          id |-> call[m].id, seen |-> call[m].seen, body |-> call[m].body,
                          own |-> own, after |-> after]
           /\ Alone'
<1>1. call = [n \in Managers |-> call[n]] /\ Shape(call[m])
  BY DEF OfficeInv, CallsOK, CallOK
<1>2. /\ UNCHANGED <<edits, crossed>>
      /\ call' = [n \in Managers |-> call'[n]]
      /\ \A n \in Managers \ {m} : call'[n] = call[n]
      /\ call'[m] = [call[m] EXCEPT !.pc = pc, !.own = own, !.after = after]
  BY <1>1 DEF Goes
<1>3. call'[m] = [op |-> call[m].op, pc |-> pc, thing |-> call[m].thing,
                  id |-> call[m].id, seen |-> call[m].seen, body |-> call[m].body,
                  own |-> own, after |-> after]
  BY <1>1, <1>2 DEF Shape
<1>4. call'[m].thing = call[m].thing
  BY <1>3
<1>5. Alone'
  BY <1>2, <1>4 DEF OfficeInv, Alone
<1>6. QED
  BY <1>2, <1>3, <1>5

\* What a call holds stays true while others write the site, the media row,
\* other rows and the commission, except that its own thing is written.
Grows ==
    /\ \A r \in Rows : row'[r].version \in Nat /\ row[r].version <= row'[r].version
    /\ \A p \in PageIds : page[p] # None => page'[p] # None
    /\ media # None => media' # None
    /\ crossed \subseteq crossed'

LEMMA HeldStays ==
    ASSUME OfficeInv, Grows, NEW n \in Managers, call[n] # None,
           call[n].op = "updatePage" /\ "page" \notin crossed' =>
               page'[call[n].id] = page[call[n].id],
           call[n].op = "updateMedia" /\ "media" \notin crossed' => media' = media
    PROVE  CallOK(call[n])'
           \/ call'[n] # call[n]
<1> SUFFICES ASSUME call'[n] = call[n] PROVE CallOK(call[n])'
  OBVIOUS
<1>1. CallOK(call[n])
  BY DEF OfficeInv, CallsOK
<1>2. Shape(call'[n]) /\ PartCall(call'[n])
  BY <1>1 DEF CallOK, Shape, PartCall
<1>3. RowCall(call[n])'
  <2>1. \A r \in Rows : row[r].version \in Nat
    BY DEF OfficeInv, TypeOK, OfficeTypeOK
  <2>2. QED
    BY <1>1, <2>1 DEF CallOK, RowCall, Grows
<1>4. PageCall(call[n])'
  BY <1>1 DEF CallOK, PageCall, Grows
<1>5. MediaCall(call[n])'
  BY <1>1 DEF CallOK, MediaCall, Grows
<1>6. QED
  BY <1>2, <1>3, <1>4, <1>5 DEF CallOK, Shape, PartCall

\* The calls after a step of m.
LEMMA CallsFollow ==
    ASSUME OfficeInv, Grows, NEW m \in Managers, call' = [n \in Managers |-> call'[n]],
           \A n \in Managers \ {m} : call'[n] = call[n],
           call'[m] # None => CallOK(call[m])',
           \A n \in Managers \ {m} : (call[n] # None /\ call[n].op = "updatePage") =>
               "page" \in crossed' \/ page'[call[n].id] = page[call[n].id],
           \A n \in Managers \ {m} : (call[n] # None /\ call[n].op = "updateMedia") =>
               "media" \in crossed' \/ media' = media
    PROVE  CallsOK'
<1>1. ASSUME NEW n \in Managers \ {m}, call'[n] # None PROVE CallOK(call[n])'
  BY <1>1, HeldStays
<1>2. QED
  BY <1>1 DEF CallsOK

\* The calls after a step of none.
LEMMA CallsStay ==
    ASSUME OfficeInv, Grows, UNCHANGED call,
           \A n \in Managers : (call[n] # None /\ call[n].op = "updatePage") =>
               "page" \in crossed' \/ page'[call[n].id] = page[call[n].id],
           \A n \in Managers : (call[n] # None /\ call[n].op = "updateMedia") =>
               "media" \in crossed' \/ media' = media
    PROVE  CallsOK'
<1>1. ASSUME NEW n \in Managers, call'[n] # None PROVE CallOK(call[n])'
  BY <1>1, HeldStays
<1>2. QED
  BY <1>1 DEF CallsOK, OfficeInv

\* What is not written keeps its part of the invariant.
LEMMA SiteStays ==
    ASSUME OfficeInv, UNCHANGED siteVars, crossed \subseteq crossed'
    PROVE  LinksInv' /\ CopyInv'
BY DEF OfficeInv, LinksInv, CopyInv, siteVars

LEMMA MediaStays ==
    ASSUME OfficeInv, UNCHANGED media, crossed \subseteq crossed'
    PROVE  BrandHasAltText'
BY DEF OfficeInv, BrandHasAltText

LEMMA TypesStay ==
    ASSUME OfficeInv, UNCHANGED <<siteVars, media, row, moneyVars>>, edits' \in 0..MaxEdits
    PROVE  TypeOK'
BY DEF OfficeInv, TypeOK, OfficeTypeOK, siteVars, moneyVars

LEMMA RowsStay ==
    ASSUME OfficeInv, UNCHANGED <<page, media, row>>, crossed \subseteq crossed'
    PROVE  Grows
BY DEF OfficeInv, TypeOK, OfficeTypeOK, Grows

LEMMA TrailStays ==
    ASSUME OfficeInv, UNCHANGED trail
    PROVE  TrailInv'
BY DEF OfficeInv, TrailInv, AuditSpansItsEdit
----------------------------------------------------------------------------
(* Calls begin and end.                                                    *)

Quiet == UNCHANGED <<siteVars, media, recordVars, moneyVars>>

LEMMA BeginsKeeps ==
    ASSUME OfficeInv, Quiet, NEW m \in Managers,
           NEW op, NEW thing, NEW id, NEW seen, NEW body, Begins(m, op, thing, id, seen, body),
           CallOK(call[m])'
    PROVE  OfficeInv'
<1>1. Grows /\ TypeOK' /\ TrailInv' /\ LinksInv' /\ CopyInv' /\ BrandHasAltText'
  <2>1. crossed \subseteq crossed' /\ edits' \in 0..MaxEdits
    BY OfficeAssumption DEF Begins, OfficeInv, TypeOK, OfficeTypeOK
  <2>2. UNCHANGED <<siteVars, media, row, trail, moneyVars, page>>
    BY DEF Quiet, siteVars, recordVars
  <2>3. QED
    BY <2>1, <2>2, SiteStays, MediaStays, TypesStay, RowsStay, TrailStays
<1>2. Alone' /\ CallsOK'
  BY <1>1, Arrival, CallsFollow DEF Quiet, siteVars
<1>3. QED
  BY <1>1, <1>2 DEF OfficeInv

LEMMA EndsKeeps ==
    ASSUME OfficeInv, Quiet, NEW m \in Managers, Ends(m)
    PROVE  OfficeInv'
<1>1. Grows /\ TypeOK' /\ TrailInv' /\ LinksInv' /\ CopyInv' /\ BrandHasAltText'
  <2>1. crossed \subseteq crossed' /\ edits' \in 0..MaxEdits
    BY End DEF OfficeInv, TypeOK, OfficeTypeOK
  <2>2. UNCHANGED <<siteVars, media, row, trail, moneyVars, page>>
    BY DEF Quiet, siteVars, recordVars
  <2>3. QED
    BY <2>1, <2>2, SiteStays, MediaStays, TypesStay, RowsStay, TrailStays
<1>2. Alone' /\ CallsOK'
  BY <1>1, End, CallsFollow DEF Quiet, siteVars
<1>3. QED
  BY <1>1, <1>2 DEF OfficeInv

LEMMA FindRowKeeps ==
    ASSUME OfficeInv, NEW m \in Managers, NEW op \in RowOps, NEW r \in Rows, NEW body,
           body.active \in BOOLEAN \cup {None}, body.price \in Prices \cup {None},
           \/ r # "GamingCenter" \/ op = "updateCenter"
           \/ op = "deleteCenter" /\ body.active = FALSE,
           FindRow(m, op, r, body)
    PROVE  OfficeInv'
<1>1. Begins(m, op, r, r, row[r], body) /\ Quiet
  BY DEF FindRow, Quiet
<1>2. call'[m] = [op |-> op, pc |-> "write", thing |-> r, id |-> r, seen |-> row[r],
                  body |-> body, own |-> None, after |-> None]
  BY <1>1, Arrival
<1>3. row' = row /\ row[r].version \in Nat /\ row[r].active \in BOOLEAN
  BY <1>1 DEF Quiet, recordVars, OfficeInv, TypeOK, OfficeTypeOK
<1>4. r = "GamingCenter" => row[r].active = TRUE
  BY <1>3 DEF FindRow, Findable
<1>5. RowCall(call[m])'
  BY <1>2, <1>3, <1>4 DEF RowCall
<1>6. Shape(call[m])' /\ PageCall(call[m])' /\ MediaCall(call[m])' /\ PartCall(call[m])'
  BY <1>2 DEF Shape, PageCall, MediaCall, PartCall, RowOps
<1>7. CallOK(call[m])'
  BY <1>5, <1>6 DEF CallOK
<1>8. QED
  BY <1>1, <1>7, BeginsKeeps

LEMMA RowArrives ==
    ASSUME OfficeInv, NEW m \in Managers,
           \/ CenterStep(m) \/ StationStep(m) \/ StaffStep(m) \/ UpdateSettings(m)
           \/ UpsertPolicy(m)
    PROVE  OfficeInv'
<1>1. \A body \in StationBodies :
         body.active \in BOOLEAN \cup {None} /\ body.price \in Prices \cup {None}
  BY DEF StationBodies, Activity, NoFields
<1>2. /\ Activity \subseteq StationBodies /\ NoFields \in StationBodies
      /\ Deactivation \in StationBodies /\ Deactivation.active = FALSE
  <2>1. \A a : [NoFields EXCEPT !.active = a] = [price |-> None, active |-> a]
    BY DEF NoFields
  <2>2. \A a \in {None} \cup BOOLEAN : [price |-> None, active |-> a] \in Activity
    BY <2>1 DEF Activity
  <2>3. Deactivation = [price |-> None, active |-> FALSE]
    BY <2>1, Zenon DEF Deactivation
  <2>4. QED
    BY <2>2, <2>3 DEF StationBodies, NoFields
<1>3. CASE CenterStep(m)
  <2>1. "GamingCenter" \in Rows /\ "updateCenter" \in RowOps /\ "deleteCenter" \in RowOps
    BY OfficeAssumption DEF RowOps
  <2>2. CASE UpdateGamingCenter(m)
    <3>1. PICK body \in Activity : FindRow(m, "updateCenter", "GamingCenter", body)
      BY <2>2 DEF UpdateGamingCenter
    <3>2. PICK op \in RowOps, r \in Rows : op = "updateCenter" /\ FindRow(m, op, r, body)
      BY <2>1, <3>1
    <3>3. body.active \in BOOLEAN \cup {None} /\ body.price \in Prices \cup {None}
      BY <1>1, <1>2
    <3>4. QED
      BY <3>2, <3>3, FindRowKeeps
  <2>3. CASE DeleteGamingCenter(m)
    <3>1. FindRow(m, "deleteCenter", "GamingCenter", Deactivation)
      BY <2>3 DEF DeleteGamingCenter
    <3>2. /\ Deactivation.active \in BOOLEAN \cup {None} /\ Deactivation.active = FALSE
          /\ Deactivation.price \in Prices \cup {None}
      BY <1>1, <1>2
    <3>3. QED
      BY <2>1, <3>1, <3>2, FindRowKeeps
  <2>4. QED
    BY <1>3, <2>2, <2>3 DEF CenterStep
<1>4. CASE StationStep(m) \/ StaffStep(m) \/ UpdateSettings(m) \/ UpsertPolicy(m)
  <2>1. PICK op \in RowOps, r \in Rows, body \in StationBodies :
           r # "GamingCenter" /\ FindRow(m, op, r, body)
    <3>1. {"updateStation", "deactivateStation", "updateStaffMember", "deleteStaffMember",
           "updateSettings", "upsertPolicy"} \subseteq RowOps
      BY DEF RowOps
    <3>2. \A op, r, body : FindRow(m, op, r, body) => r \in Rows
      BY DEF FindRow
    <3>3. CASE StationStep(m)
      BY <1>2, <3>1, <3>2, <3>3 DEF StationStep, UpdateStation, DeactivateStation
    <3>4. CASE StaffStep(m)
      BY <1>2, <3>1, <3>2, <3>4 DEF StaffStep, UpdateStaffMember, DeleteStaffMember
    <3>5. CASE UpdateSettings(m)
      BY <1>2, <3>1, <3>2, <3>5 DEF UpdateSettings
    <3>6. CASE UpsertPolicy(m)
      <4>1. PICK a \in BOOLEAN :
               FindRow(m, "upsertPolicy", "CommissionPolicy", [NoFields EXCEPT !.active = a])
        BY <3>6 DEF UpsertPolicy
      <4>2. [NoFields EXCEPT !.active = a] \in StationBodies
        BY DEF StationBodies, Activity
      <4>3. QED
        BY <3>1, <3>2, <4>1, <4>2
    <3>7. QED
      BY <1>4, <3>3, <3>4, <3>5, <3>6
  <2>2. QED
    BY <1>1, <2>1, FindRowKeeps
<1>5. QED
  BY <1>3, <1>4

LEMMA FindPageKeeps ==
    ASSUME OfficeInv, NEW m \in Managers, NEW p \in PageIds, NEW s \in Slugs \cup {None},
           NEW st \in PageStatus \cup {None}, FindPage(m, p, [slug |-> s, status |-> st])
    PROVE  OfficeInv'
<1> DEFINE body == [slug |-> s, status |-> st]
<1>1. Begins(m, "updatePage", "page", p, page[p], body) /\ Quiet /\ page[p] # None
  BY DEF FindPage, Quiet
<1>2. call'[m] = [op |-> "updatePage", pc |-> "write", thing |-> "page", id |-> p,
                  seen |-> page[p], body |-> body, own |-> None, after |-> None]
  BY <1>1, Arrival
<1>3. page' = page /\ page[p] \in Pages
  BY <1>1 DEF Quiet, siteVars, OfficeInv, TypeOK, OfficeTypeOK
<1>4. PageCall(call[m])'
  BY <1>1, <1>2, <1>3 DEF PageCall
<1>5. Shape(call[m])' /\ RowCall(call[m])' /\ MediaCall(call[m])' /\ PartCall(call[m])'
  BY <1>2 DEF Shape, RowCall, MediaCall, PartCall, RowOps
<1>6. CallOK(call[m])'
  BY <1>4, <1>5 DEF CallOK
<1>7. QED
  BY <1>1, <1>6, BeginsKeeps

LEMMA FindMediaKeeps ==
    ASSUME OfficeInv, NEW m \in Managers, NEW body \in MediaBodies, FindMedia(m, body)
    PROVE  OfficeInv'
<1>1. Begins(m, "updateMedia", "media", None, media, body) /\ Quiet /\ media # None
  BY DEF FindMedia, Quiet
<1>2. call'[m] = [op |-> "updateMedia", pc |-> "write", thing |-> "media", id |-> None,
                  seen |-> media, body |-> body, own |-> None, after |-> None]
  BY <1>1, Arrival
<1>3. media' = media
  BY <1>1 DEF Quiet
<1>4. MediaCall(call[m])'
  BY <1>1, <1>2, <1>3 DEF MediaCall, FindMedia, NextAltText
<1>5. Shape(call[m])' /\ RowCall(call[m])' /\ PageCall(call[m])' /\ PartCall(call[m])'
  BY <1>2 DEF Shape, RowCall, PageCall, PartCall, RowOps
<1>6. CallOK(call[m])'
  BY <1>4, <1>5 DEF CallOK
<1>7. QED
  BY <1>1, <1>6, BeginsKeeps

LEMMA FindCommissionKeeps ==
    ASSUME OfficeInv, NEW m \in Managers, NEW amount \in Amounts, NEW paid \in BOOLEAN,
           FindCommission(m, amount, paid)
    PROVE  OfficeInv'
<1> DEFINE body == [by |-> edits + 1, amount |-> amount, paid |-> paid]
<1>1. Begins(m, "payCommission", "earning", None, None, body) /\ Quiet
  BY DEF FindCommission, Quiet
<1>2. call'[m] = [op |-> "payCommission", pc |-> "write", thing |-> "earning", id |-> None,
                  seen |-> None, body |-> body, own |-> None, after |-> None]
      /\ edits + 1 \in 1..MaxEdits
  BY <1>1, Arrival
<1>3. PartCall(call[m])'
  BY <1>2 DEF PartCall
<1>4. Shape(call[m])' /\ RowCall(call[m])' /\ PageCall(call[m])' /\ MediaCall(call[m])'
  BY <1>2 DEF Shape, RowCall, PageCall, MediaCall, RowOps
<1>5. CallOK(call[m])'
  BY <1>3, <1>4 DEF CallOK
<1>6. QED
  BY <1>1, <1>5, BeginsKeeps
----------------------------------------------------------------------------
(* The steps of an edit of an audited row.                                 *)

\* What such a call holds.
LEMMA RowHeld ==
    ASSUME OfficeInv, NEW m \in Managers, NEW pc, \E op \in RowOps : At(m, op, pc)
    PROVE  /\ call[m] # None /\ call[m].op \in RowOps /\ call[m].pc = pc
           /\ CallOK(call[m])
           /\ call[m].op \notin {"updatePage", "updateMedia", "payCommission"}
BY DEF OfficeInv, CallsOK, At, RowOps

\* A call that goes on with its row.
LEMMA RowGoesOn ==
    ASSUME OfficeInv, Grows, UNCHANGED <<page, media>>, NEW m \in Managers,
           call[m] # None, call[m].op \in RowOps, NEW pc, NEW own, NEW after,
           Goes(m, pc, own, after), pc \in {"reread", "audit"},
           own \in Nat, call[m].seen.version < own, own <= row'[call[m].id].version,
           (pc = "audit" /\ after # None) => after \in Nat /\ own <= after
    PROVE  Alone' /\ CallsOK' /\ UNCHANGED <<edits, crossed>>
<1>1. CallOK(call[m]) /\ call[m].op \notin {"updatePage", "updateMedia", "payCommission"}
  BY DEF OfficeInv, CallsOK, RowOps
<1>2. /\ UNCHANGED <<edits, crossed>> /\ Alone'
      /\ call' = [n \in Managers |-> call'[n]]
      /\ \A n \in Managers \ {m} : call'[n] = call[n]
      /\ call'[m] = [op |-> call[m].op, pc |-> pc, thing |-> call[m].thing,
                     id |-> call[m].id, seen |-> call[m].seen, body |-> call[m].body,
                     own |-> own, after |-> after]
  BY Middle
<1>3. RowCall(call[m])'
  <2>1. /\ call'[m].op = call[m].op /\ call'[m].id = call[m].id /\ call'[m].pc = pc
        /\ call'[m].seen = call[m].seen /\ call'[m].body = call[m].body
        /\ call'[m].own = own /\ call'[m].after = after
    BY <1>2
  <2>2. row[call[m].id].version <= row'[call[m].id].version
        /\ row'[call[m].id].version \in Nat /\ row[call[m].id].version \in Nat
    BY <1>1 DEF CallOK, RowCall, Grows, OfficeInv, TypeOK, OfficeTypeOK
  <2>3. QED
    BY <1>1, <2>1, <2>2 DEF CallOK, RowCall
<1>4. Shape(call[m])' /\ PageCall(call[m])' /\ MediaCall(call[m])' /\ PartCall(call[m])'
  BY <1>1, <1>2 DEF Shape, PageCall, MediaCall, PartCall
<1>5. CallsOK'
  BY <1>2, <1>3, <1>4, CallsFollow DEF CallOK
<1>6. QED
  BY <1>2, <1>5

\* The row an edit writes.
LEMMA RowWritten ==
    ASSUME OfficeInv, NEW m \in Managers, WriteRow(m)
    PROVE  /\ call[m] # None /\ call[m].op \in RowOps /\ CallOK(call[m])
           /\ call[m].id \in Rows
           /\ row' = [row EXCEPT ![call[m].id] = Written(call[m])]
           /\ Written(call[m]) \in [version : Nat, price : Prices, active : BOOLEAN]
           /\ Written(call[m]).version = row[call[m].id].version + 1
           /\ Written(call[m]).active =
                  Given(call[m].body.active, row[call[m].id].active)
<1>1. call[m] # None /\ call[m].op \in RowOps /\ CallOK(call[m])
  BY RowHeld DEF WriteRow
<1>2. row' = [row EXCEPT ![call[m].id] = Written(call[m])]
  BY DEF WriteRow
<1>3. /\ call[m].id \in Rows
      /\ call[m].body.active \in BOOLEAN \cup {None}
      /\ call[m].body.price \in Prices \cup {None}
  BY <1>1 DEF CallOK, RowCall
<1>4. row[call[m].id] \in [version : Nat, price : Prices, active : BOOLEAN]
  BY <1>3 DEF OfficeInv, TypeOK, OfficeTypeOK
<1>5. Given(call[m].body.active, row[call[m].id].active) \in BOOLEAN
      /\ Given(call[m].body.price, row[call[m].id].price) \in Prices
  BY <1>3, <1>4 DEF Given
<1>6. QED
  BY <1>1, <1>2, <1>3, <1>4, <1>5 DEF Written

LEMMA WriteRowKeeps ==
    ASSUME OfficeInv, NEW m \in Managers, WriteRow(m)
    PROVE  OfficeInv'
<1> DEFINE w == Written(call[m])
           r == call[m].id
<1>1. /\ call[m] # None /\ call[m].op \in RowOps /\ CallOK(call[m]) /\ r \in Rows
      /\ row' = [row EXCEPT ![r] = w]
      /\ w \in [version : Nat, price : Prices, active : BOOLEAN]
      /\ w.version = row[r].version + 1
  BY RowWritten
<1>2. UNCHANGED <<siteVars, page, media, trail, moneyVars>>
  BY DEF WriteRow, siteVars
<1>3. \A x \in Rows : row[x] \in [version : Nat, price : Prices, active : BOOLEAN]
  BY DEF OfficeInv, TypeOK, OfficeTypeOK
<1>4. row \in [Rows -> [version : Nat, price : Prices, active : BOOLEAN]]
  BY DEF OfficeInv, TypeOK, OfficeTypeOK
<1>5. row'[r] = w /\ (\A x \in Rows \ {r} : row'[x] = row[x])
      /\ row' \in [Rows -> [version : Nat, price : Prices, active : BOOLEAN]]
  <2> HIDE DEF w, r
  <2> QED
    BY <1>1, <1>4
<1>6. UNCHANGED crossed
  BY DEF WriteRow, Goes
<1>7. Grows
  <2>1. \A x \in Rows : row'[x].version \in Nat /\ row[x].version <= row'[x].version
    <3> HIDE DEF w, r
    <3> QED
      BY <1>1, <1>3, <1>5
  <2>2. QED
    BY <1>2, <1>6, <2>1 DEF Grows
<1>8. Alone' /\ CallsOK' /\ UNCHANGED <<edits, crossed>>
  <2>1. w.version \in Nat /\ call[m].seen.version < w.version /\ w.version <= row'[r].version
    BY <1>1, <1>3, <1>5 DEF CallOK, RowCall
  <2>2. CASE call[m].op \in ReturnsRow
    <3>1. Goes(m, "audit", w.version, w.version)
      BY <2>2 DEF WriteRow
    <3>2. QED
      BY <1>1, <1>2, <1>7, <2>1, <3>1, RowGoesOn
  <2>3. CASE call[m].op \notin ReturnsRow
    <3>1. Goes(m, "reread", w.version, None)
      BY <2>3 DEF WriteRow
    <3>2. QED
      BY <1>1, <1>2, <1>7, <2>1, <3>1, RowGoesOn
  <2>4. QED
    BY <2>2, <2>3
<1>9. TypeOK'
  BY <1>2, <1>5, <1>8 DEF OfficeInv, TypeOK, OfficeTypeOK, siteVars, moneyVars
<1>10. TrailInv' /\ LinksInv' /\ CopyInv' /\ BrandHasAltText'
  BY <1>2, <1>6, SiteStays, MediaStays, TrailStays
<1>11. QED
  BY <1>8, <1>9, <1>10 DEF OfficeInv

LEMMA RereadRowKeeps ==
    ASSUME OfficeInv, NEW m \in Managers, RereadRow(m)
    PROVE  OfficeInv'
<1>1. /\ call[m] # None /\ call[m].op \in RowOps /\ CallOK(call[m])
      /\ call[m].pc = "reread"
  BY RowHeld DEF RereadRow
<1>2. UNCHANGED <<siteVars, page, media, row, trail, moneyVars>> /\ UNCHANGED <<edits, crossed>>
  BY DEF RereadRow, Goes, siteVars, recordVars
<1>3. Grows
  BY <1>2, RowsStay
<1>4. /\ call[m].own \in Nat /\ call[m].seen.version < call[m].own
      /\ call[m].own <= row[call[m].id].version /\ row[call[m].id].version \in Nat
  BY <1>1 DEF CallOK, RowCall, OfficeInv, TypeOK, OfficeTypeOK
<1>5. Reread(call[m]) # None => Reread(call[m]) \in Nat /\ call[m].own <= Reread(call[m])
  BY <1>4 DEF Reread
<1>6. Goes(m, "audit", call[m].own, Reread(call[m]))
  BY DEF RereadRow
<1>7. Alone' /\ CallsOK'
  BY <1>1, <1>2, <1>3, <1>4, <1>5, <1>6, RowGoesOn
<1>8. TypeOK' /\ TrailInv' /\ LinksInv' /\ CopyInv' /\ BrandHasAltText'
  <2>1. edits' \in 0..MaxEdits
    BY <1>2 DEF OfficeInv, TypeOK, OfficeTypeOK
  <2>2. QED
    BY <1>2, <2>1, SiteStays, MediaStays, TypesStay, TrailStays
<1>9. QED
  BY <1>7, <1>8 DEF OfficeInv

LEMMA RecordLogKeeps ==
    ASSUME OfficeInv, NEW m \in Managers, RecordLog(m)
    PROVE  OfficeInv'
<1>1. /\ call[m] # None /\ call[m].op \in RowOps /\ CallOK(call[m])
      /\ call[m].pc = "audit"
  BY RowHeld DEF RecordLog
<1>2. UNCHANGED <<siteVars, page, media, row, moneyVars>> /\ Ends(m)
  BY DEF RecordLog, siteVars
<1>3. /\ UNCHANGED <<edits, crossed>> /\ Alone'
      /\ call' = [n \in Managers |-> call'[n]]
      /\ call'[m] = None /\ \A n \in Managers \ {m} : call'[n] = call[n]
  BY <1>2, End
<1>4. Grows
  BY <1>2, <1>3, RowsStay
<1>5. CallsOK'
  BY <1>2, <1>3, <1>4, CallsFollow
<1>6. TypeOK' /\ LinksInv' /\ CopyInv' /\ BrandHasAltText'
  <2>1. edits' \in 0..MaxEdits
    BY <1>3 DEF OfficeInv, TypeOK, OfficeTypeOK
  <2>2. QED
    BY <1>2, <1>3, <2>1, SiteStays, MediaStays, TypesStay
<1>7. TrailInv'
  <2> DEFINE x == [action |-> AuditAction(call[m]), old |-> call[m].seen.version,
                   own |-> call[m].own, new |-> call[m].after]
  <2>1. x.old < x.own /\ (x.new # None => x.own <= x.new) /\ call[m].id \in Rows
    BY <1>1 DEF CallOK, RowCall
  <2>2. CASE UNCHANGED trail
    BY <2>2, TrailStays
  <2>3. CASE trail' = [trail EXCEPT ![call[m].id] = @ \cup {x}]
    <3> HIDE DEF x
    <3>1. \A r \in Rows : trail'[r] \subseteq trail[r] \cup {x}
      BY <2>3 DEF OfficeInv, TrailInv
    <3>2. trail' = [r \in Rows |-> trail'[r]]
      BY <2>3 DEF OfficeInv, TrailInv
    <3>3. QED
      BY <2>1, <3>1, <3>2 DEF OfficeInv, TrailInv, AuditSpansItsEdit
  <2>4. QED
    BY <2>2, <2>3 DEF RecordLog
<1>8. QED
  BY <1>3, <1>5, <1>6, <1>7 DEF OfficeInv
----------------------------------------------------------------------------
(* The part payments.                                                      *)

LEMMA CountPartsKeeps ==
    ASSUME OfficeInv, NEW m \in Managers, CountParts(m)
    PROVE  OfficeInv'
<1> DEFINE total == Total(FindEarningPayments(parts \cup {call[m].body}))
<1>1. /\ call[m] # None /\ call[m].op = "payCommission" /\ CallOK(call[m])
      /\ Goes(m, "commit", None, total)
  BY DEF CountParts, At, OfficeInv, CallsOK
<1>2. UNCHANGED <<siteVars, page, media, row, trail, moneyVars>>
  BY DEF CountParts, siteVars, recordVars
<1> HIDE DEF total
<1>3. /\ UNCHANGED <<edits, crossed>> /\ Alone'
      /\ call' = [n \in Managers |-> call'[n]]
      /\ \A n \in Managers \ {m} : call'[n] = call[n]
      /\ call'[m] = [op |-> call[m].op, pc |-> "commit", thing |-> call[m].thing,
                     id |-> call[m].id, seen |-> call[m].seen, body |-> call[m].body,
                     own |-> None, after |-> total]
  BY <1>1, Middle
<1>4. Grows
  BY <1>2, <1>3, RowsStay
<1>5. CallOK(call[m])'
  BY <1>1, <1>3 DEF CallOK, Shape, RowCall, PageCall, MediaCall, PartCall, RowOps
<1>6. CallsOK'
  BY <1>2, <1>3, <1>4, <1>5, CallsFollow
<1>7. TypeOK' /\ TrailInv' /\ LinksInv' /\ CopyInv' /\ BrandHasAltText'
  <2>1. edits' \in 0..MaxEdits
    BY <1>3 DEF OfficeInv, TypeOK, OfficeTypeOK
  <2>2. QED
    BY <1>2, <1>3, <2>1, SiteStays, MediaStays, TypesStay, TrailStays
<1>8. QED
  BY <1>3, <1>6, <1>7 DEF OfficeInv

LEMMA CommitPartKeeps ==
    ASSUME OfficeInv, NEW m \in Managers, CommitPart(m)
    PROVE  OfficeInv'
<1>1. /\ call[m] # None /\ call[m].op = "payCommission" /\ CallOK(call[m])
      /\ Ends(m)
  BY DEF CommitPart, At, OfficeInv, CallsOK
<1>2. UNCHANGED <<siteVars, page, history, published, clock, settings, copy, media, row, trail>>
  BY DEF CommitPart, siteVars, recordVars
<1>3. /\ UNCHANGED <<edits, crossed>> /\ Alone'
      /\ call' = [n \in Managers |-> call'[n]]
      /\ call'[m] = None /\ \A n \in Managers \ {m} : call'[n] = call[n]
  BY <1>1, End
<1>4. Grows
  BY <1>2, <1>3, RowsStay
<1>5. CallsOK'
  BY <1>2, <1>3, <1>4, CallsFollow
<1>6. TypeOK'
  <2>1. parts' = parts \cup {call[m].body} /\ earning' \in {"PENDING", "CHARGED"}
    BY DEF CommitPart, OfficeInv, TypeOK, OfficeTypeOK
  <2>2. \A x \in parts' : x.by \in 1..MaxEdits /\ x.amount \in Amounts
    BY <1>1, <2>1 DEF CallOK, PartCall, OfficeInv, TypeOK, OfficeTypeOK
  <2>3. QED
    BY <1>2, <1>3, <2>1, <2>2 DEF OfficeInv, TypeOK, OfficeTypeOK
<1>7. TrailInv' /\ LinksInv' /\ CopyInv' /\ BrandHasAltText'
  BY <1>2, <1>3, SiteStays, MediaStays, TrailStays
<1>8. QED
  BY <1>3, <1>5, <1>6, <1>7 DEF OfficeInv
----------------------------------------------------------------------------
(* The site.                                                               *)

\* What a write of a page does, whoever makes it.
LEMMA PageWritten ==
    ASSUME OfficeInv, NEW p \in PageIds, NEW s \in Slugs, NEW st \in PageStatus,
           SlugFree(s, p), WritePage(p, s, st),
           UNCHANGED <<settings, copy, media, row, moneyVars>>,
           history' \subseteq PageIds \X Slugs, edits' \in 0..MaxEdits,
           crossed \subseteq crossed'
    PROVE  /\ TypeOK' /\ CopyInv' /\ Grows
           /\ page'[p] = [slug |-> s, status |-> st, stamp |-> clock + 1]
           /\ page'[p] # None /\ page'[p].slug = s
           /\ \A q \in PageIds \ {p} : page'[q] = page[q]
           /\ published' \subseteq published \cup {<<p, s>>}
<1> DEFINE new == [slug |-> s, status |-> st, stamp |-> clock + 1]
<1>1. clock \in Nat /\ clock' = clock + 1 /\ page \in [PageIds -> Pages \cup {None}]
  BY DEF OfficeInv, TypeOK, OfficeTypeOK, WritePage
<1>2. new \in Pages /\ new # None /\ new.slug = s /\ new.stamp = clock + 1
  BY <1>1, NoneAssumption DEF Pages
<1>3. page' = [page EXCEPT ![p] = new]
  BY DEF WritePage
<1> HIDE DEF new
<1>4. /\ page'[p] = new /\ (\A q \in PageIds \ {p} : page'[q] = page[q])
      /\ page' \in [PageIds -> Pages \cup {None}]
  BY <1>1, <1>2, <1>3
<1>5. published' \subseteq published \cup {<<p, s>>}
  BY DEF WritePage
<1>6. OfficeTypeOK'
  <2>1. \A q \in PageIds : page'[q] # None => page'[q].stamp \in 1..clock'
    BY <1>1, <1>2, <1>4 DEF OfficeInv, TypeOK, OfficeTypeOK
  <2>2. history' \cup published' \subseteq PageIds \X Slugs
    BY <1>5 DEF OfficeInv, TypeOK, OfficeTypeOK
  <2>3. QED
    BY <1>1, <1>4, <2>1, <2>2 DEF OfficeInv, TypeOK, OfficeTypeOK, moneyVars
<1>7. \A q, r \in PageIds :
         (q # r /\ page'[q] # None /\ page'[r] # None) => page'[q].slug # page'[r].slug
  BY <1>2, <1>4 DEF SlugFree, OfficeInv, TypeOK
<1>8. CopyInv'
  <2> SUFFICES ASSUME copy # None
               PROVE  /\ copy.stamp \in 1..clock'
                      /\ \A q \in PageIds : (page'[q] # None /\ page'[q].slug = copy.slug) =>
                            copy.stamp <= page'[q].stamp
    BY DEF CopyInv
  <2>1. copy.stamp \in 1..clock
    BY DEF OfficeInv, CopyInv
  <2>2. QED
    BY <1>1, <1>2, <1>4, <2>1 DEF OfficeInv, CopyInv
<1>9. Grows
  <2>1. \A r \in Rows : row[r].version \in Nat
    BY DEF OfficeInv, TypeOK, OfficeTypeOK
  <2>2. QED
    BY <1>2, <1>4, <2>1 DEF Grows
<1>10. QED
  BY <1>2, <1>4, <1>5, <1>6, <1>7, <1>8, <1>9 DEF TypeOK, new

LEMMA UpdatePageKeeps ==
    ASSUME OfficeInv, NEW m \in Managers, UpdatePage(m)
    PROVE  OfficeInv'
<1> DEFINE c == call[m]
           p == c.id
           s == Given(c.body.slug, page[p].slug)
           st == Given(c.body.status, c.seen.status)
<1>1. c # None /\ c.op = "updatePage" /\ CallOK(c)
  BY DEF UpdatePage, At, OfficeInv, CallsOK
<1>2. /\ c.thing = "page" /\ p \in PageIds /\ page[p] # None /\ c.seen \in Pages
      /\ c.body.slug \in Slugs \cup {None} /\ c.body.status \in PageStatus \cup {None}
      /\ "page" \notin crossed => c.seen = page[p]
  BY <1>1 DEF CallOK, PageCall
<1>3. page[p] \in Pages
  BY <1>2 DEF OfficeInv, TypeOK, OfficeTypeOK
<1>4. s \in Slugs /\ st \in PageStatus /\ c.seen.slug \in Slugs
  BY <1>2, <1>3 DEF Given, Pages
<1>5. CASE ~SlugFree(s, p)
  <2>1. Ends(m) /\ Quiet
    BY <1>5 DEF UpdatePage, Quiet, siteVars
  <2>2. QED
    BY <2>1, EndsKeeps
<1>6. CASE SlugFree(s, p)
  <2>1. /\ WritePage(p, s, st) /\ history' = history \cup SlugHistory(c) /\ Ends(m)
        /\ UNCHANGED <<settings, copy, media, row, trail, moneyVars>>
    BY <1>6 DEF UpdatePage, recordVars
  <2>2. /\ UNCHANGED <<edits, crossed>> /\ Alone'
        /\ call' = [n \in Managers |-> call'[n]]
        /\ call'[m] = None /\ \A n \in Managers \ {m} : call'[n] = call[n]
    BY <2>1, End
  <2>3. history' \subseteq PageIds \X Slugs
    BY <1>2, <1>4, <2>1 DEF SlugHistory, OfficeInv, TypeOK, OfficeTypeOK
  <2>4. edits' \in 0..MaxEdits
    BY <2>2 DEF OfficeInv, TypeOK, OfficeTypeOK
  <2>5. /\ TypeOK' /\ CopyInv' /\ Grows
        /\ page'[p] # None /\ page'[p].slug = s
        /\ \A q \in PageIds \ {p} : page'[q] = page[q]
        /\ published' \subseteq published \cup {<<p, s>>}
    <3> HIDE DEF c, p, s, st
    <3> QED
      BY <1>2, <1>4, <1>6, <2>1, <2>2, <2>3, <2>4, PageWritten
  <2>6. \A n \in Managers \ {m} : (call[n] # None /\ call[n].op = "updatePage") =>
            "page" \in crossed'
    <3> SUFFICES ASSUME NEW n \in Managers \ {m}, call[n] # None, call[n].op = "updatePage"
                 PROVE  "page" \in crossed
      BY <2>2
    <3>1. call[n].thing = "page"
      BY DEF OfficeInv, CallsOK, CallOK, PageCall
    <3>2. QED
      BY <1>1, <1>2, <3>1 DEF OfficeInv, Alone
  <2>7. CallsOK'
    BY <2>1, <2>2, <2>5, <2>6, CallsFollow
  <2>8. LinksInv'
    <3> SUFFICES ASSUME "page" \notin crossed, NEW x \in published'
                 PROVE  /\ page'[x[1]] # None
                        /\ page'[x[1]].slug = x[2] \/ x \in history'
      BY <2>2 DEF LinksInv
    <3>1. CASE x = <<p, s>>
      BY <2>5, <3>1
    <3>2. CASE x \in published
      <4>1. /\ x \in PageIds \X Slugs /\ page[x[1]] # None
            /\ page[x[1]].slug = x[2] \/ x \in history
        BY <3>2 DEF OfficeInv, TypeOK, OfficeTypeOK, LinksInv
      <4>2. CASE x[1] # p \/ x \in history
        BY <2>1, <2>5, <4>1, <4>2
      <4>3. CASE x[1] = p /\ page[p].slug = x[2]
        <5>1. x = <<p, c.seen.slug>> /\ c.seen = page[p]
          BY <1>2, <4>1, <4>3
        <5>2. s # c.seen.slug => x \in history'
          BY <2>1, <5>1 DEF SlugHistory
        <5>3. QED
          BY <2>5, <4>3, <5>1, <5>2
      <4>4. QED
        BY <4>1, <4>2, <4>3
    <3>3. QED
      BY <2>5, <3>1, <3>2
  <2>9. TrailInv' /\ BrandHasAltText'
    BY <2>1, <2>2, TrailStays, MediaStays
  <2>10. QED
    BY <2>2, <2>5, <2>7, <2>8, <2>9 DEF OfficeInv
<1>7. QED
  BY <1>5, <1>6

LEMMA CreatePageKeeps ==
    ASSUME OfficeInv, NEW p \in PageIds, NEW s \in Slugs, NEW st \in PageStatus \cup {None},
           CreatePage(p, s, st)
    PROVE  OfficeInv'
<1>1. /\ page[p] = None /\ SlugFree(s, p) /\ WritePage(p, s, Given(st, "DRAFT"))
      /\ UNCHANGED <<history, settings, copy, media, row, trail, moneyVars, call, crossed>>
      /\ edits' \in 0..MaxEdits
  BY OfficeAssumption
  DEF CreatePage, Single, recordVars, OfficeInv, TypeOK, OfficeTypeOK
<1>2. Given(st, "DRAFT") \in PageStatus
  BY DEF Given, PageStatus
<1>3. history' \subseteq PageIds \X Slugs
  BY <1>1 DEF OfficeInv, TypeOK, OfficeTypeOK
<1>4. /\ TypeOK' /\ CopyInv' /\ Grows
      /\ page'[p] # None /\ page'[p].slug = s
      /\ \A q \in PageIds \ {p} : page'[q] = page[q]
      /\ published' \subseteq published \cup {<<p, s>>}
  BY <1>1, <1>2, <1>3, PageWritten
<1>5. CallsOK'
  <2>1. \A n \in Managers : (call[n] # None /\ call[n].op = "updatePage") =>
            page'[call[n].id] = page[call[n].id]
    BY <1>1, <1>4 DEF OfficeInv, CallsOK, CallOK, PageCall
  <2>2. QED
    BY <1>1, <1>4, <2>1, CallsStay
<1>6. Alone'
  BY <1>1 DEF OfficeInv, Alone
<1>7. LinksInv'
  <2> SUFFICES ASSUME "page" \notin crossed, NEW x \in published'
               PROVE  /\ page'[x[1]] # None
                      /\ page'[x[1]].slug = x[2] \/ x \in history'
    BY <1>1 DEF LinksInv
  <2>1. CASE x = <<p, s>>
    BY <1>4, <2>1
  <2>2. CASE x \in published
    <3>1. /\ x \in PageIds \X Slugs /\ page[x[1]] # None
          /\ page[x[1]].slug = x[2] \/ x \in history
      BY <2>2 DEF OfficeInv, TypeOK, OfficeTypeOK, LinksInv
    <3>2. QED
      BY <1>1, <1>4, <3>1
  <2>3. QED
    BY <1>4, <2>1, <2>2
<1>8. TrailInv' /\ BrandHasAltText'
  BY <1>1, TrailStays, MediaStays
<1>9. QED
  BY <1>4, <1>5, <1>6, <1>7, <1>8 DEF OfficeInv

\* A step of no call that leaves pages, media and rows as they are.
LEMMA SiteSteps ==
    ASSUME OfficeInv, UpsertSiteSettings \/ \E s \in Slugs : GetPage(s)
    PROVE  OfficeInv'
<1>1. /\ UNCHANGED <<page, history, published, clock, media, row, trail, moneyVars>>
      /\ UNCHANGED <<call, crossed>>
      /\ settings' \in Nat /\ edits' \in 0..MaxEdits
  BY OfficeAssumption
  DEF UpsertSiteSettings, GetPage, Single, recordVars, OfficeInv, TypeOK, OfficeTypeOK
<1>2. Grows
  BY <1>1, RowsStay
<1>3. CallsOK'
  BY <1>1, <1>2, CallsStay
<1>4. Alone' /\ LinksInv'
  BY <1>1 DEF OfficeInv, Alone, LinksInv
<1>5. TypeOK'
  BY <1>1 DEF OfficeInv, TypeOK, OfficeTypeOK, moneyVars
<1>6. CopyInv'
  <2>1. CASE UpsertSiteSettings
    BY <1>1, <2>1 DEF UpsertSiteSettings, OfficeInv, CopyInv
  <2>2. CASE \E s \in Slugs : GetPage(s)
    <3>1. PICK s \in Slugs : GetPage(s)
      BY <2>2
    <3>5. PICK p \in Found(s) :
            copy' = [slug |-> s, stamp |-> page[p].stamp, settings |-> settings]
      BY <3>1 DEF GetPage
    <3>2. p \in PageIds /\ page[p] # None /\ page[p].slug = s /\ page[p].stamp \in 1..clock
      BY DEF Found, Live, OfficeInv, TypeOK, OfficeTypeOK
    <3>3. copy'.slug = s /\ copy'.stamp = page[p].stamp
      BY <3>5
    <3>4. \A q \in PageIds : (page[q] # None /\ page[q].slug = s) => q = p
      BY <3>2 DEF OfficeInv, TypeOK
    <3>6. QED
      BY <1>1, <3>2, <3>3, <3>4 DEF CopyInv
  <2>3. QED
    BY <2>1, <2>2
<1>7. TrailInv' /\ BrandHasAltText'
  BY <1>1, TrailStays, MediaStays
<1>8. QED
  BY <1>3, <1>4, <1>5, <1>6, <1>7 DEF OfficeInv
----------------------------------------------------------------------------
(* The media row.                                                          *)

LEMMA CreateMediaKeeps ==
    ASSUME OfficeInv, NEW purpose \in {"GALLERY", "LOGO"}, NEW alt \in {"null", "text"},
           CreateMedia(purpose, alt)
    PROVE  OfficeInv'
<1>1. /\ media = None /\ AltTextPresent(purpose, alt)
      /\ media' = [purpose |-> purpose, alt |-> alt]
      /\ UNCHANGED <<siteVars, page, row, trail, moneyVars, call, crossed>>
      /\ edits' \in 0..MaxEdits
  BY OfficeAssumption
  DEF CreateMedia, Single, siteVars, recordVars, OfficeInv, TypeOK, OfficeTypeOK
<1>2. media' \in MediaRows /\ media'.purpose = purpose /\ media'.alt = alt
  BY <1>1 DEF MediaRows
<1>3. Grows
  BY <1>1 DEF OfficeInv, TypeOK, OfficeTypeOK, Grows
<1>4. CallsOK'
  <2>1. \A n \in Managers : call[n] # None => call[n].op # "updateMedia"
    BY <1>1 DEF OfficeInv, CallsOK, CallOK, MediaCall
  <2>2. QED
    BY <1>1, <1>3, <2>1, CallsStay
<1>5. TypeOK'
  BY <1>1, <1>2 DEF OfficeInv, TypeOK, OfficeTypeOK, siteVars, moneyVars
<1>6. Alone' /\ BrandHasAltText'
  BY <1>1, <1>2 DEF OfficeInv, Alone, BrandHasAltText
<1>7. LinksInv' /\ CopyInv' /\ TrailInv'
  BY <1>1, SiteStays, TrailStays
<1>8. QED
  BY <1>4, <1>5, <1>6, <1>7 DEF OfficeInv

LEMMA UpdateMediaKeeps ==
    ASSUME OfficeInv, NEW m \in Managers, UpdateMedia(m)
    PROVE  OfficeInv'
<1> DEFINE purpose == Given(call[m].body.purpose, media.purpose)
           alt == Given(call[m].body.alt, media.alt)
<1>1. call[m] # None /\ call[m].op = "updateMedia" /\ CallOK(call[m]) /\ Ends(m)
  BY DEF UpdateMedia, At, OfficeInv, CallsOK
<1>2. /\ call[m].thing = "media" /\ media # None /\ call[m].body \in MediaBodies
      /\ "media" \notin crossed => AltTextPresent(purpose, alt)
  BY <1>1 DEF CallOK, MediaCall, NextAltText
<1>3. purpose \in {"GALLERY", "LOGO", "COVER"} /\ alt \in {"null", "text"}
  <2>1. media \in MediaRows
    BY <1>2 DEF OfficeInv, TypeOK, OfficeTypeOK
  <2>2. /\ call[m].body.purpose \in {None, "GALLERY", "LOGO"}
        /\ call[m].body.alt \in {None, "null", "text"}
    BY <1>2 DEF MediaBodies
  <2>3. QED
    BY <2>1, <2>2 DEF Given, MediaRows
<1>4. media' = [purpose |-> purpose, alt |-> alt]
      /\ UNCHANGED <<siteVars, page, row, trail, moneyVars>>
  BY DEF UpdateMedia, siteVars, recordVars
<1> HIDE DEF purpose, alt
<1>5. /\ media' \in MediaRows /\ media' # None
      /\ media'.purpose = purpose /\ media'.alt = alt
  BY <1>3, <1>4, NoneAssumption DEF MediaRows
<1>6. /\ UNCHANGED <<edits, crossed>> /\ Alone'
      /\ call' = [n \in Managers |-> call'[n]]
      /\ call'[m] = None /\ \A n \in Managers \ {m} : call'[n] = call[n]
  BY <1>1, End
<1>7. Grows
  BY <1>4, <1>5, <1>6 DEF OfficeInv, TypeOK, OfficeTypeOK, Grows
<1>8. \A n \in Managers \ {m} : (call[n] # None /\ call[n].op = "updateMedia") =>
          "media" \in crossed'
  <2> SUFFICES ASSUME NEW n \in Managers \ {m}, call[n] # None, call[n].op = "updateMedia"
               PROVE  "media" \in crossed
    BY <1>6
  <2>1. call[n].thing = "media"
    BY DEF OfficeInv, CallsOK, CallOK, MediaCall
  <2>2. QED
    BY <1>1, <1>2, <2>1 DEF OfficeInv, Alone
<1>9. CallsOK'
  BY <1>4, <1>6, <1>7, <1>8, CallsFollow
<1>10. TypeOK'
  BY <1>4, <1>5, <1>6 DEF OfficeInv, TypeOK, OfficeTypeOK, siteVars, moneyVars
<1>11. BrandHasAltText'
  BY <1>2, <1>5, <1>6 DEF BrandHasAltText
<1>12. LinksInv' /\ CopyInv' /\ TrailInv'
  BY <1>4, <1>6, SiteStays, TrailStays
<1>13. QED
  BY <1>6, <1>9, <1>10, <1>11, <1>12 DEF OfficeInv
----------------------------------------------------------------------------
(* The theorems.                                                           *)

LEMMA InitEstablishes == Init => OfficeInv
<1> SUFFICES ASSUME Init PROVE OfficeInv
  OBVIOUS
<1>1. TypeOK
  <2>1. PICK price \in Prices :
           row = [r \in Rows |-> [version |-> 0, price |-> price, active |-> TRUE]]
    BY DEF Init
  <2>2. row \in [Rows -> [version : Nat, price : Prices, active : BOOLEAN]]
    BY <2>1
  <2>3. QED
    BY <2>2, OfficeAssumption DEF Init, TypeOK, OfficeTypeOK
<1>2. CallsOK /\ Alone
  BY DEF Init, CallsOK, Alone
<1>3. TrailInv /\ LinksInv /\ CopyInv /\ BrandHasAltText
  BY DEF Init, TrailInv, AuditSpansItsEdit, LinksInv, CopyInv, BrandHasAltText
<1>4. QED
  BY <1>1, <1>2, <1>3 DEF OfficeInv

LEMMA OfficeStep == OfficeInv /\ [Next]_vars => OfficeInv'
<1> SUFFICES ASSUME OfficeInv, [Next]_vars PROVE OfficeInv'
  OBVIOUS
<1>1. ASSUME NEW m \in Managers, PageStep(m) PROVE OfficeInv'
  BY <1>1, FindPageKeeps, UpdatePageKeeps DEF PageStep
<1>2. ASSUME NEW m \in Managers, MediaStep(m) PROVE OfficeInv'
  BY <1>2, FindMediaKeeps, UpdateMediaKeeps DEF MediaStep
<1>3. ASSUME NEW m \in Managers, RowStep(m) PROVE OfficeInv'
  BY <1>3, RowArrives, WriteRowKeeps, RereadRowKeeps, RecordLogKeeps DEF RowStep
<1>4. ASSUME NEW m \in Managers, CommissionStep(m) PROVE OfficeInv'
  BY <1>4, FindCommissionKeeps, CountPartsKeeps, CommitPartKeeps DEF CommissionStep
<1>5. ASSUME NEW m \in Managers, Abandon(m) PROVE OfficeInv'
  BY <1>5, EndsKeeps DEF Abandon, Quiet
<1>6. CASE UNCHANGED vars
  BY <1>6 DEF vars, siteVars, recordVars, moneyVars, OfficeInv, TypeOK, OfficeTypeOK,
     CallsOK, CallOK, Shape, RowCall, PageCall, MediaCall, PartCall, Alone, TrailInv,
     AuditSpansItsEdit, LinksInv, CopyInv, BrandHasAltText
<1>7. QED
  BY <1>1, <1>2, <1>3, <1>4, <1>5, <1>6, CreatePageKeeps, CreateMediaKeeps, SiteSteps
  DEF Next

LEMMA OfficeCorrect == Spec => []OfficeInv
BY InitEstablishes, OfficeStep, PTL DEF Spec

\* Every variable holds a value of its kind; a slug belongs to one page.
THEOREM TypeCorrect == Spec => []TypeOK
<1>1. OfficeInv => TypeOK
  BY DEF OfficeInv
<1>2. QED
  BY <1>1, OfficeCorrect, PTL

\* An audit row's versions lie on both sides of the edit it describes.
THEOREM AuditRowsSpanTheirEdits == Spec => []AuditSpansItsEdit
<1>1. OfficeInv => AuditSpansItsEdit
  BY DEF OfficeInv, TrailInv
<1>2. QED
  BY <1>1, OfficeCorrect, PTL

\* A logo has its alternative text, unless two edits of it overlapped.
THEOREM BrandsAreDescribed == Spec => []BrandHasAltText
<1>1. OfficeInv => BrandHasAltText
  BY DEF OfficeInv
<1>2. QED
  BY <1>1, OfficeCorrect, PTL

\* A link under which a live page was once reachable still leads somewhere,
\* unless two edits of pages overlapped.
THEOREM LinksLeadSomewhere == Spec => []OldLinksWork
<1>1. ASSUME OfficeInv PROVE OldLinksWork
  <2> SUFFICES ASSUME "page" \notin crossed, NEW x \in published, Live(x[1])
               PROVE  Resolves(x[2])
    BY DEF OldLinksWork
  <2>1. /\ x \in PageIds \X Slugs
        /\ page[x[1]].slug = x[2] \/ x \in history
    BY <1>1 DEF OfficeInv, LinksInv, TypeOK, OfficeTypeOK
  <2>2. x[1] \in PageIds /\ x = <<x[1], x[2]>>
    BY <2>1
  <2>3. x[1] \in Found(x[2]) \cup FoundByOldSlug(x[2])
    BY <2>1, <2>2 DEF Found, FoundByOldSlug
  <2>4. QED
    BY <2>3 DEF Resolves
<1>2. QED
  BY <1>1, OfficeCorrect, PTL

\* 304 is answered only to a copy of the page as it is.
THEOREM CopiesAreCurrent == Spec => []NotModifiedIsRight
<1>1. ASSUME OfficeInv PROVE NotModifiedIsRight
  <2> SUFFICES ASSUME copy # None, NEW p \in Found(copy.slug), NotModified(copy, p)
               PROVE  copy.stamp = page[p].stamp
    BY DEF NotModifiedIsRight
  <2>1. p \in PageIds /\ page[p] # None /\ page[p].slug = copy.slug
    BY DEF Found, Live
  <2>2. /\ copy.stamp \in Nat /\ page[p].stamp \in Nat /\ copy.stamp <= page[p].stamp
    BY <1>1, <2>1 DEF OfficeInv, TypeOK, OfficeTypeOK, CopyInv
  <2>3. (copy.stamp \div 2) * 2 <= copy.stamp
    BY <2>2
  <2>4. QED
    BY <2>2, <2>3 DEF NotModified
<1>2. QED
  BY <1>1, OfficeCorrect, PTL

\* A deleted center becomes active again only by an update that had found it.
THEOREM DeletedCentersStay == Spec => CenterStaysDeleted
<1> DEFINE Back == \E m \in Managers : /\ call[m] # None /\ call[m].op = "updateCenter"
                                       /\ call[m].seen.active /\ call[m].body.active = TRUE
           Revives == ~SiteIsUp /\ SiteIsUp'
<1>1. ASSUME OfficeInv, NEW m \in Managers, WriteRow(m), Revives PROVE Back
  <2> DEFINE c == call[m]
  <2>1. /\ c # None /\ c.op \in RowOps /\ CallOK(c) /\ c.id \in Rows
        /\ row' = [row EXCEPT ![c.id] = Written(c)]
        /\ Written(c).active = Given(c.body.active, row[c.id].active)
    BY <1>1, RowWritten
  <2>2. row \in [Rows -> [version : Nat, price : Prices, active : BOOLEAN]]
    BY <1>1 DEF OfficeInv, TypeOK, OfficeTypeOK
  <2>3. c.id = "GamingCenter"
    <3>1. c.id # "GamingCenter" => row'["GamingCenter"] = row["GamingCenter"]
      BY <2>1, <2>2
    <3>2. QED
      BY <1>1, <3>1 DEF SiteIsUp
  <2>4. Given(c.body.active, row["GamingCenter"].active) = row'["GamingCenter"].active
    BY <2>1, <2>2, <2>3
  <2>5. c.body.active # None /\ c.body.active
    BY <1>1, <2>4 DEF Given, SiteIsUp
  <2>6. /\ c.body.active \in BOOLEAN \cup {None} /\ c.seen.active = TRUE
        /\ c.op = "updateCenter" \/ c.body.active = FALSE
    BY <2>1, <2>3 DEF CallOK, RowCall
  <2>7. c.body.active = TRUE /\ c.op = "updateCenter" /\ c.seen.active
    BY <2>5, <2>6
  <2>8. QED
    BY <2>1, <2>7
<1>2. ASSUME OfficeInv, [Next]_vars, \A m \in Managers : ~WriteRow(m)
      PROVE  ~Revives
  <2>1. UNCHANGED row
    BY <1>2 DEF Next, PageStep, MediaStep, RowStep, CommissionStep, Abandon, FindPage,
       UpdatePage, FindMedia, UpdateMedia, CenterStep, StationStep, StaffStep,
       UpdateSettings, UpsertPolicy, UpdateGamingCenter, DeleteGamingCenter, UpdateStation,
       DeactivateStation, UpdateStaffMember, DeleteStaffMember, FindRow, RereadRow,
       RecordLog, FindCommission, CountParts, CommitPart, CreatePage, CreateMedia,
       UpsertSiteSettings, GetPage, recordVars, vars
  <2>2. QED
    BY <2>1 DEF SiteIsUp
<1>3. OfficeInv /\ [Next]_vars => [Revives => Back]_vars
  BY <1>1, <1>2
<1>4. QED
  BY <1>3, OfficeCorrect, PTL DEF Spec, CenterStaysDeleted
----------------------------------------------------------------------------
(* Part payments of commissions.                                           *)

\* The sum of the committed part payments and a call's own bounds what the call
\* has read, since nothing removes a payment; it was read without the parts
\* that others have in flight.
PartsInv ==
    /\ IsFiniteSet(parts) /\ ChargedIsCovered
    /\ \A m \in Managers : At(m, "payCommission", "commit") =>
          /\ call[m].after \in Nat
          /\ call[m].after <= Total(FindEarningPayments(parts \cup {call[m].body}))

LEMMA TotalIsSum ==
    ASSUME NEW f, NEW ps, IsFiniteSet(ps), \A x \in ps : f[x] = x.amount
    PROVE  Total(ps) = Sum(f, ps)
<1> DEFINE Adds(g) == g = [s \in SUBSET ps |-> IF s = {} THEN 0
                             ELSE LET x == CHOOSE x \in s : TRUE IN x.amount + g[s \ {x}]]
           h == CHOOSE g : Adds(g)
<1>1. PICK g : IsSum(g, f, ps)
  BY SumExists
<1>2. ASSUME NEW k PROVE IsSum(k, f, ps) <=> Adds(k)
  <2>1. \A s \in SUBSET ps : s # {} =>
           f[CHOOSE x \in s : TRUE] = (CHOOSE x \in s : TRUE).amount
    OBVIOUS
  <2>2. QED
    BY <2>1 DEF IsSum
<1>3. Total(ps) = h[ps]
  BY DEF Total, MapThenSumSet, MapThenFoldSet
<1> HIDE DEF Adds
<1>4. Adds(h)
  BY <1>1, <1>2
<1> HIDE DEF h
<1>5. IsSum(h, f, ps)
  BY <1>2, <1>4
<1>6. QED
  BY <1>3, <1>5, SumIs

LEMMA TotalGrows ==
    ASSUME NEW ps, IsFiniteSet(ps), \A x \in ps : x.amount \in Nat, NEW qs \in SUBSET ps
    PROVE  Total(qs) \in Nat /\ Total(ps) \in Nat /\ Total(qs) <= Total(ps)
<1> DEFINE f == [x \in ps |-> x.amount]
<1>1. (\A x \in ps : f[x] = x.amount) /\ (\A x \in qs : f[x] = x.amount)
  OBVIOUS
<1>2. IsFiniteSet(qs)
  BY FS_Subset
<1>3. \A x \in ps : f[x] \in Nat
  BY <1>1
<1> HIDE DEF f
<1>4. Total(ps) = Sum(f, ps) /\ Total(qs) = Sum(f, qs)
  BY <1>1, <1>2, TotalIsSum
<1>5. QED
  BY <1>2, <1>3, <1>4, SumType, SumMonotone

LEMMA PaidGrows ==
    ASSUME NEW ps, IsFiniteSet(ps), \A x \in ps : x.amount \in Amounts, NEW qs \in SUBSET ps
    PROVE  /\ Total(FindEarningPayments(ps)) \in Nat
           /\ Total(FindEarningPayments(qs)) \in Nat
           /\ Total(FindEarningPayments(qs)) <= Total(FindEarningPayments(ps))
<1> DEFINE all == FindEarningPayments(ps)
           some == FindEarningPayments(qs)
<1>1. all \in SUBSET ps /\ some \in SUBSET all
  BY DEF FindEarningPayments
<1>2. IsFiniteSet(all) /\ \A x \in all : x.amount \in Nat
  BY <1>1, FS_Subset, OfficeAssumption
<1> HIDE DEF all, some
<1>3. Total(some) \in Nat /\ Total(all) \in Nat /\ Total(some) <= Total(all)
  BY <1>1, <1>2, TotalGrows
<1>4. QED
  BY <1>3 DEF all, some

\* The amounts of the payments made, and of the one a call is making.
LEMMA PartsAmounts ==
    ASSUME OfficeInv, PartsInv, NEW m \in Managers, call[m] # None,
           call[m].op = "payCommission"
    PROVE  LET ps == parts \cup {call[m].body}
           IN  IsFiniteSet(ps) /\ \A x \in ps : x.amount \in Amounts
<1>1. IsFiniteSet(parts \cup {call[m].body})
  BY FS_AddElement DEF PartsInv
<1>2. call[m].body.amount \in Amounts
  BY DEF OfficeInv, CallsOK, CallOK, PartCall
<1>3. \A x \in parts : x.amount \in Amounts
  BY DEF OfficeInv, TypeOK, OfficeTypeOK
<1>4. QED
  BY <1>1, <1>2, <1>3

LEMMA PartsStay ==
    ASSUME PartsInv, UNCHANGED moneyVars,
           \A n \in Managers : At(n, "payCommission", "commit")' => call'[n] = call[n]
    PROVE  PartsInv'
<1>1. IsFiniteSet(parts)' /\ ChargedIsCovered'
  BY DEF PartsInv, ChargedIsCovered, Paid, moneyVars
<1>2. ASSUME NEW n \in Managers, At(n, "payCommission", "commit")'
      PROVE  /\ call'[n].after \in Nat
             /\ call'[n].after <= Total(FindEarningPayments(parts' \cup {call'[n].body}))
  <2>1. call'[n] = call[n] /\ parts' = parts
    BY <1>2 DEF moneyVars
  <2>2. At(n, "payCommission", "commit")
    BY <1>2, <2>1 DEF At
  <2>3. QED
    BY <2>1, <2>2 DEF PartsInv
<1>3. QED
  BY <1>1, <1>2 DEF PartsInv

LEMMA PartsCounted ==
    ASSUME OfficeInv, PartsInv, NEW m \in Managers, CountParts(m)
    PROVE  PartsInv'
<1> DEFINE ps == parts \cup {call[m].body}
           total == Total(FindEarningPayments(ps))
<1>1. /\ call[m] # None /\ call[m].op = "payCommission" /\ CallOK(call[m])
      /\ Goes(m, "commit", None, total) /\ UNCHANGED moneyVars
  BY DEF CountParts, At, OfficeInv, CallsOK
<1>2. total \in Nat
  <2>1. IsFiniteSet(ps) /\ \A x \in ps : x.amount \in Amounts
    BY <1>1, PartsAmounts
  <2> HIDE DEF ps
  <2>2. PICK qs : qs = ps
    OBVIOUS
  <2>3. QED
    BY <2>1, <2>2, PaidGrows
<1> HIDE DEF total
<1>3. /\ \A n \in Managers \ {m} : call'[n] = call[n]
      /\ call'[m].after = total /\ call'[m].body = call[m].body
  <2>1. /\ \A n \in Managers \ {m} : call'[n] = call[n]
        /\ call'[m] = [op |-> call[m].op, pc |-> "commit", thing |-> call[m].thing,
                       id |-> call[m].id, seen |-> call[m].seen, body |-> call[m].body,
                       own |-> None, after |-> total]
    BY <1>1, Middle
  <2>2. QED
    BY <2>1
<1>4. IsFiniteSet(parts)' /\ ChargedIsCovered'
  BY <1>1 DEF PartsInv, ChargedIsCovered, Paid, moneyVars
<1>5. ASSUME NEW n \in Managers, At(n, "payCommission", "commit")'
      PROVE  /\ call'[n].after \in Nat
             /\ call'[n].after <= Total(FindEarningPayments(parts' \cup {call'[n].body}))
  <2>1. CASE n = m
    <3>1. Total(FindEarningPayments(parts' \cup {call'[n].body})) = total
      BY <1>1, <1>3, <2>1 DEF total, moneyVars
    <3>2. QED
      BY <1>2, <1>3, <2>1, <3>1
  <2>2. CASE n # m
    <3>1. call'[n] = call[n] /\ parts' = parts
      BY <1>1, <1>3, <2>2 DEF moneyVars
    <3>2. At(n, "payCommission", "commit")
      BY <1>5, <3>1 DEF At
    <3>3. QED
      BY <3>1, <3>2 DEF PartsInv
  <2>3. QED
    BY <2>1, <2>2
<1>6. QED
  BY <1>4, <1>5 DEF PartsInv

LEMMA PartCommitted ==
    ASSUME OfficeInv, PartsInv, NEW m \in Managers, CommitPart(m)
    PROVE  PartsInv'
<1>1. /\ call[m] # None /\ call[m].op = "payCommission" /\ CallOK(call[m])
      /\ At(m, "payCommission", "commit") /\ Ends(m)
      /\ parts' = parts \cup {call[m].body}
      /\ earning' = IF call[m].after >= Commission THEN "CHARGED" ELSE earning
  BY DEF CommitPart, At, OfficeInv, CallsOK
<1>2. PICK body : body = call[m].body
  OBVIOUS
<1>3. PICK ps : ps = parts \cup {body}
  OBVIOUS
<1>4. IsFiniteSet(ps) /\ \A x \in ps : x.amount \in Amounts
  BY <1>1, <1>2, <1>3, PartsAmounts
<1>5. ASSUME NEW qs \in SUBSET ps
      PROVE  /\ Total(FindEarningPayments(ps)) \in Nat
             /\ Total(FindEarningPayments(qs)) \in Nat
             /\ Total(FindEarningPayments(qs)) <= Total(FindEarningPayments(ps))
  BY <1>4, PaidGrows
<1>6. ChargedIsCovered'
  <2>1. Paid' = Total(FindEarningPayments(ps))
    BY <1>1, <1>2, <1>3 DEF Paid, FindEarningPayments
  <2>2. Paid \in Nat /\ Paid <= Paid' /\ Paid' \in Nat
    <3>1. parts \in SUBSET ps
      BY <1>3
    <3>2. Paid = Total(FindEarningPayments(parts))
      BY DEF Paid, FindEarningPayments
    <3>3. QED
      BY <1>5, <2>1, <3>1, <3>2
  <2>3. Commission \in Nat
    BY OfficeAssumption
  <2>4. CASE call[m].after >= Commission
    <3>1. call[m].after \in Nat /\ call[m].after <= Paid'
      BY <1>1, <1>2, <1>3, <2>1 DEF PartsInv
    <3>2. QED
      BY <2>2, <2>3, <2>4, <3>1 DEF ChargedIsCovered
  <2>5. CASE ~(call[m].after >= Commission)
    <3>1. earning' = earning
      BY <1>1, <2>5
    <3>2. earning = "CHARGED" => Paid >= Commission
      BY DEF PartsInv, ChargedIsCovered
    <3>3. QED
      BY <2>2, <2>3, <3>1, <3>2 DEF ChargedIsCovered
  <2>6. QED
    BY <2>4, <2>5
<1>7. call'[m] = None /\ \A n \in Managers \ {m} : call'[n] = call[n]
  BY <1>1, End
<1>8. ASSUME NEW n \in Managers, At(n, "payCommission", "commit")'
      PROVE  /\ call'[n].after \in Nat
             /\ call'[n].after <= Total(FindEarningPayments(parts' \cup {call'[n].body}))
  <2>1. n # m /\ call'[n] = call[n] /\ At(n, "payCommission", "commit")
    BY <1>7, <1>8 DEF At
  <2>2. PICK own : own = call[n].body
    OBVIOUS
  <2>3. PICK qs : qs = parts \cup {own}
    OBVIOUS
  <2>4. PICK rs : rs = ps \cup {own}
    OBVIOUS
  <2>5. own.amount \in Amounts
    BY <2>1, <2>2 DEF At, OfficeInv, CallsOK, CallOK, PartCall
  <2>6. /\ Total(FindEarningPayments(rs)) \in Nat
        /\ Total(FindEarningPayments(qs)) \in Nat
        /\ Total(FindEarningPayments(qs)) <= Total(FindEarningPayments(rs))
    <3>1. IsFiniteSet(rs) /\ \A x \in rs : x.amount \in Amounts
      BY <1>4, <2>4, <2>5, FS_AddElement
    <3>2. qs \in SUBSET rs
      BY <1>3, <2>3, <2>4
    <3>3. QED
      BY <3>1, <3>2, PaidGrows
  <2>7. parts' \cup {call'[n].body} = rs
    BY <1>1, <1>2, <1>3, <2>1, <2>2, <2>4
  <2>8. call[n].after \in Nat /\ call[n].after <= Total(FindEarningPayments(qs))
    BY <2>1, <2>2, <2>3 DEF PartsInv
  <2>9. QED
    BY <2>1, <2>6, <2>7, <2>8
<1>9. QED
  BY <1>1, <1>2, <1>3, <1>4, <1>6, <1>8 DEF PartsInv

LEMMA PartsInit == Init => PartsInv
BY FS_EmptySet DEF Init, PartsInv, ChargedIsCovered, At

LEMMA PartsStep == OfficeInv /\ PartsInv /\ [Next]_vars => PartsInv'
<1> SUFFICES ASSUME OfficeInv, PartsInv, [Next]_vars PROVE PartsInv'
  OBVIOUS
<1> DEFINE NoneReady ==
        \A n \in Managers : At(n, "payCommission", "commit")' => call'[n] = call[n]
<1>1. ASSUME NEW m \in Managers, NEW op, NEW thing, NEW id, NEW seen, NEW body,
             Begins(m, op, thing, id, seen, body)
      PROVE  NoneReady
  <2>1. /\ \A n \in Managers \ {m} : call'[n] = call[n]
        /\ call'[m] = [op |-> op, pc |-> "write", thing |-> thing, id |-> id,
                       seen |-> seen, body |-> body, own |-> None, after |-> None]
    BY <1>1, Arrival
  <2>2. call'[m].pc = "write"
    BY <2>1
  <2>3. QED
    BY <2>1, <2>2 DEF At
<1>2. ASSUME NEW m \in Managers, Ends(m) PROVE NoneReady
  <2>1. call'[m] = None /\ \A n \in Managers \ {m} : call'[n] = call[n]
    BY <1>2, End
  <2>2. QED
    BY <2>1 DEF At
<1>3. ASSUME NEW m \in Managers, call[m] # None, call[m].op \in RowOps,
             NEW pc, NEW own, NEW after, Goes(m, pc, own, after)
      PROVE  NoneReady
  <2>1. /\ \A n \in Managers \ {m} : call'[n] = call[n]
        /\ call'[m] = [op |-> call[m].op, pc |-> pc, thing |-> call[m].thing,
                       id |-> call[m].id, seen |-> call[m].seen, body |-> call[m].body,
                       own |-> own, after |-> after]
    BY <1>3, Middle
  <2>2. call'[m].op = call[m].op
    BY <2>1
  <2>3. QED
    BY <1>3, <2>1, <2>2 DEF At, RowOps
<1> HIDE DEF NoneReady
<1>4. ASSUME UNCHANGED moneyVars, NoneReady PROVE PartsInv'
  BY <1>4, PartsStay DEF NoneReady
<1>5. ASSUME UNCHANGED call PROVE NoneReady
  BY <1>5 DEF NoneReady
<1>6. ASSUME NEW m \in Managers, PageStep(m) PROVE PartsInv'
  BY <1>6, <1>1, <1>2, <1>4 DEF PageStep, FindPage, UpdatePage
<1>7. ASSUME NEW m \in Managers, MediaStep(m) PROVE PartsInv'
  BY <1>7, <1>1, <1>2, <1>4 DEF MediaStep, FindMedia, UpdateMedia
<1>8. ASSUME NEW m \in Managers, RowStep(m) PROVE PartsInv'
  <2>1. ASSUME NEW op, NEW r, NEW body, FindRow(m, op, r, body) PROVE PartsInv'
    BY <2>1, <1>1, <1>4 DEF FindRow
  <2>2. CASE CenterStep(m) \/ StationStep(m)
    BY <2>1, <2>2 DEF CenterStep, UpdateGamingCenter, DeleteGamingCenter, StationStep,
       UpdateStation, DeactivateStation
  <2>3. CASE StaffStep(m) \/ UpdateSettings(m) \/ UpsertPolicy(m)
    BY <2>1, <2>3 DEF StaffStep, UpdateStaffMember, DeleteStaffMember, UpdateSettings,
       UpsertPolicy
  <2>4. CASE WriteRow(m)
    <3>1. /\ call[m] # None /\ call[m].op \in RowOps /\ UNCHANGED moneyVars
          /\ \E pc, own, after : Goes(m, pc, own, after)
      BY <2>4 DEF WriteRow, At
    <3>2. QED
      BY <1>3, <1>4, <3>1
  <2>5. CASE RereadRow(m)
    <3>1. /\ call[m] # None /\ call[m].op \in RowOps /\ UNCHANGED moneyVars
          /\ \E pc, own, after : Goes(m, pc, own, after)
      BY <2>5 DEF RereadRow, At
    <3>2. QED
      BY <1>3, <1>4, <3>1
  <2>6. CASE RecordLog(m)
    BY <2>6, <1>2, <1>4 DEF RecordLog
  <2>7. QED
    BY <1>8, <2>2, <2>3, <2>4, <2>5, <2>6 DEF RowStep
<1>9. ASSUME NEW m \in Managers, CommissionStep(m) PROVE PartsInv'
  BY <1>9, <1>1, <1>4, PartsCounted, PartCommitted DEF CommissionStep, FindCommission
<1>10. ASSUME NEW m \in Managers, Abandon(m) PROVE PartsInv'
  BY <1>10, <1>2, <1>4 DEF Abandon
<1>11. ASSUME NEW p \in PageIds, NEW s \in Slugs, NEW st, CreatePage(p, s, st)
       PROVE  PartsInv'
  BY <1>11, <1>4, <1>5 DEF CreatePage, Single
<1>12. ASSUME NEW purpose, NEW alt, CreateMedia(purpose, alt) PROVE PartsInv'
  BY <1>12, <1>4, <1>5 DEF CreateMedia, Single
<1>13. ASSUME NEW s \in Slugs, GetPage(s) PROVE PartsInv'
  BY <1>13, <1>4, <1>5 DEF GetPage
<1>14. CASE UpsertSiteSettings
  BY <1>14, <1>4, <1>5 DEF UpsertSiteSettings, Single
<1>15. CASE UNCHANGED vars
  BY <1>15, <1>4, <1>5 DEF vars
<1>16. QED
  BY <1>6, <1>7, <1>8, <1>9, <1>10, <1>11, <1>12, <1>13, <1>14, <1>15 DEF Next

\* A commission is CHARGED only when the part payments that were made cover it.
THEOREM ChargesAreCovered == Spec => []ChargedIsCovered
<1>1. PartsInv => ChargedIsCovered
  BY DEF PartsInv
<1>2. QED
  BY <1>1, PartsInit, PartsStep, OfficeCorrect, PTL DEF Spec
====
