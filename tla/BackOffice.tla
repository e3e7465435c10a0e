---- MODULE BackOffice ----
(***************************************************************************)
(* Several managers edit one center while its public site is read.         *)
(***************************************************************************)
EXTENDS SiteOps, RecordOps

Init ==
    /\ page = [p \in PageIds |-> None]
    /\ history = {} /\ published = {} /\ clock = 0
    /\ settings = 0 /\ copy = None /\ media = None
    /\ \E price \in Prices :
          row = [r \in Rows |-> [version |-> 0, price |-> price, active |-> TRUE]]
    /\ trail = [r \in Rows |-> {}]
    /\ earning = "PENDING" /\ parts = {}
    /\ call = [m \in Managers |-> None]
    /\ edits = 0 /\ crossed = {}

\* The instance dies, or the client's transaction is rolled back.
Abandon(m) ==
    /\ call[m] # None /\ Ends(m)
    /\ UNCHANGED <<siteVars, media, recordVars, moneyVars>>

PageStep(m) ==
    \/ \E p \in PageIds, s \in Slugs \cup {None}, st \in PageStatus \cup {None} :
          FindPage(m, p, [slug |-> s, status |-> st])
    \/ UpdatePage(m)

MediaStep(m) ==
    \/ \E body \in MediaBodies : FindMedia(m, body)
    \/ UpdateMedia(m)

RowStep(m) ==
    \/ CenterStep(m) \/ StationStep(m) \/ StaffStep(m) \/ UpdateSettings(m)
    \/ UpsertPolicy(m) \/ WriteRow(m) \/ RereadRow(m) \/ RecordLog(m)

CommissionStep(m) ==
    \/ \E amount \in Amounts, paid \in BOOLEAN : FindCommission(m, amount, paid)
    \/ CountParts(m) \/ CommitPart(m)

Next ==
    \/ \E m \in Managers : PageStep(m) \/ MediaStep(m) \/ RowStep(m) \/ CommissionStep(m)
                           \/ Abandon(m)
    \/ \E p \in PageIds, s \in Slugs, st \in PageStatus \cup {None} : CreatePage(p, s, st)
    \/ \E purpose \in {"GALLERY", "LOGO"}, alt \in {"null", "text"} : CreateMedia(purpose, alt)
    \/ UpsertSiteSettings
    \/ \E s \in Slugs : GetPage(s)

Spec == Init /\ [][Next]_vars
----------------------------------------------------------------------------
\* Every variable holds a value of its kind; a slug belongs to one page.
TypeOK ==
    /\ OfficeTypeOK
    /\ \A p, q \in PageIds :
          (p # q /\ page[p] # None /\ page[q] # None) => page[p].slug # page[q].slug

\* A link under which a page was once live still leads somewhere as long as
\* the page is live, whatever renames, drafts and other pages came between,
\* unless two edits of pages overlapped: then a slug that neither edit read
\* is in no history (pages.station.ts:62-63, pages.public.station.ts:78-124).
OldLinksWork ==
    "page" \notin crossed =>
        \A x \in published : Live(x[1]) => Resolves(x[2])

\* 304 is answered only to a copy of the page as it is, seconds and all; what
\* the site settings put into it is not compared (pages.public.station.ts:81-94).
NotModifiedIsRight ==
    copy # None =>
        \A p \in Found(copy.slug) : NotModified(copy, p) => copy.stamp = page[p].stamp

\* A logo has its alternative text, unless two edits of it overlapped: each
\* checks its own fields against the other field it read (media.station.ts:44-49).
BrandHasAltText ==
    (media # None /\ "media" \notin crossed) => AltTextPresent(media.purpose, media.alt)

\* An audit row's old version is before the edit it describes and its new one
\* not before it, though other edits may be in it too
\* (station.station.ts:62-84, users.station.ts:53-74).
AuditSpansItsEdit ==
    \A r \in Rows : \A x \in trail[r] :
        x.old < x.own /\ (x.new # None => x.own <= x.new)

\* Only an update that had found the center before its deletion can bring it
\* back (gamingCenter.station.ts:49-61 and 80-84).
CenterStaysDeleted ==
    [][(~SiteIsUp /\ SiteIsUp') =>
          \E m \in Managers : /\ call[m] # None /\ call[m].op = "updateCenter"
                              /\ call[m].seen.active /\ call[m].body.active = TRUE]_vars

Paid == Total({x \in parts : x.paid})

\* A commission is marked CHARGED only when what was paid on it covers it
\* (commissions.station.ts:190-200).
ChargedIsCovered == earning = "CHARGED" => Paid >= Commission
====
