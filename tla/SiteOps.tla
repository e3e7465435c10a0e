---- MODULE SiteOps ----
(***************************************************************************)
(* Pages, media and site settings, and the public routes that show them.   *)
(***************************************************************************)
EXTENDS BackOfficeData

Live(p) == page[p] # None /\ page[p].status = "PUBLISHED"

\* Mutant: only a live page keeps its slug.
SlugFree_Live(s, p) == \A x \in PageIds \ {p} : Live(x) => page[x].slug # s

\* Page has a unique (gamingCenterId, slug); the second writer gets P2002.
SlugFree(s, p) == \A x \in PageIds \ {p} : page[x] # None => page[x].slug # s

\* The row and the links it is now reachable under; @updatedAt is set.
WritePage(p, slug, status) ==
    /\ clock' = clock + 1
    /\ page' = [page EXCEPT ![p] = [slug |-> slug, status |-> status, stamp |-> clock + 1]]
    /\ published' = published \cup {x \in {<<p, slug>>} : status = "PUBLISHED"}

CreatePage(p, slug, status) ==
    /\ page[p] = None /\ SlugFree(slug, p)
    /\ Single
    /\ WritePage(p, slug, Given(status, "DRAFT"))
    /\ UNCHANGED <<history, settings, copy, media, recordVars, moneyVars>>

\* updatePage reads the page; its next status and the old slug come from here.
FindPage(m, p, body) ==
    /\ page[p] # None
    /\ Begins(m, "updatePage", "page", p, page[p], body)
    /\ UNCHANGED <<siteVars, media, recordVars, moneyVars>>

\* Mutant: the old slug is kept only for a page that stays published.
SlugHistory_WhileLive(c) ==
    {x \in {<<c.id, c.seen.slug>>} :
        /\ Given(c.body.slug, c.seen.slug) # c.seen.slug
        /\ Given(c.body.status, c.seen.status) = "PUBLISHED"}

SlugHistory(c) ==
    {x \in {<<c.id, c.seen.slug>>} : Given(c.body.slug, c.seen.slug) # c.seen.slug}

\* One transaction: the row with every field of the body and the status that
\* was decided on, the old slug, and the sections replaced.
UpdatePage(m) ==
    /\ At(m, "updatePage", "write")
    /\ LET c == call[m]
           p == c.id
           slug == Given(c.body.slug, page[p].slug)
       IN \/ /\ SlugFree(slug, p)
             /\ WritePage(p, slug, Given(c.body.status, c.seen.status))
             /\ history' = history \cup SlugHistory(c)
             /\ Ends(m)
          \/ /\ ~SlugFree(slug, p)
             /\ Ends(m) /\ UNCHANGED <<page, published, clock, history>>
    /\ UNCHANGED <<settings, copy, media, recordVars, moneyVars>>

\* An upsert of the one row; the pages it is rendered into are not touched.
UpsertSiteSettings ==
    /\ Single /\ settings' = settings + 1
    /\ UNCHANGED <<page, history, published, clock, copy, media, recordVars, moneyVars>>
----------------------------------------------------------------------------
(* The public site, behind resolveGamingCenterBySlug.                      *)

SiteIsUp == row["GamingCenter"].active

Found(slug) == {p \in PageIds : Live(p) /\ page[p].slug = slug}
FoundByOldSlug(slug) == {p \in PageIds : Live(p) /\ <<p, slug>> \in history}

\* A page, or a redirect to the present slug of one that had this slug.
Resolves(slug) == Found(slug) \cup FoundByOldSlug(slug) # {}

\* Mutant: the page's time is compared in whole seconds.
NotModified_InSeconds(c, p) ==
    \/ c.stamp = page[p].stamp
    \/ c.stamp \div 2 >= page[p].stamp \div 2

\* The browser sends the ETag and the Last-Modified of its copy.  The header
\* has whole seconds (two stamps to a second), the page's time has not.
NotModified(c, p) ==
    \/ c.stamp = page[p].stamp
    \/ (c.stamp \div 2) * 2 >= page[p].stamp

\* The answer 200 replaces the browser's copy; 304, 301 and 404 do not.
GetPage(slug) ==
    /\ SiteIsUp
    /\ \E p \in Found(slug) :
          /\ (copy # None /\ copy.slug = slug) => ~NotModified(copy, p)
          /\ copy' = [slug |-> slug, stamp |-> page[p].stamp, settings |-> settings]
    /\ UNCHANGED <<page, history, published, clock, settings, media, recordVars,
                   moneyVars, call, edits, crossed>>
----------------------------------------------------------------------------
(* Media.                                                                  *)

AltTextPresent(purpose, alt) == purpose \in NeedsAltText => alt = "text"

\* The body: alt text is left out, null, or a text; a body that names such a
\* purpose must bring the text with it.
MediaBodies ==
    {b \in [purpose : {None, "GALLERY", "LOGO"}, alt : {None, "null", "text"}] :
        /\ b.purpose # None => AltTextPresent(b.purpose, b.alt)
        /\ b # [purpose |-> None, alt |-> None]}

\* Mutant: a null in the body is taken for a field left out.
NextAltText_Coalesced(seen, body) ==
    IF body.alt \in {None, "null"} THEN seen.alt ELSE body.alt

NextAltText(seen, body) == Given(body.alt, seen.alt)

CreateMedia(purpose, alt) ==
    /\ media = None /\ AltTextPresent(purpose, alt)
    /\ Single /\ media' = [purpose |-> purpose, alt |-> alt]
    /\ UNCHANGED <<siteVars, recordVars, moneyVars>>

FindMedia(m, body) ==
    /\ media # None
    /\ AltTextPresent(Given(body.purpose, media.purpose), NextAltText(media, body))
    /\ Begins(m, "updateMedia", "media", None, media, body)
    /\ UNCHANGED <<siteVars, media, recordVars, moneyVars>>

\* Only the fields of the body are written.
UpdateMedia(m) ==
    /\ At(m, "updateMedia", "write")
    /\ media' = [purpose |-> Given(call[m].body.purpose, media.purpose),
                 alt |-> Given(call[m].body.alt, media.alt)]
    /\ Ends(m)
    /\ UNCHANGED <<siteVars, recordVars, moneyVars>>
====
