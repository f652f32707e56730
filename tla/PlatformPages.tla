--------------------------- MODULE PlatformPages ---------------------------
(***************************************************************************)
(* The fetchers of the platforms (ingestion/fetchers/*.py): what each      *)
(* makes of the answers it gets, which of the posts it is shown it keeps,  *)
(* and the place in the timeline and the tag of the page that              *)
(* IngestionService stores for its next request (_state, _commit_success,  *)
(* _finish_run).                                                           *)
(*                                                                         *)
(* The posts of a timeline are numbered; the platform shows the newest     *)
(* first.  A social platform gives a cursor to the page of older posts,    *)
(* and a fetch asks for one page: a walk over several pages takes several  *)
(* fetches, while posts are added and withdrawn.                           *)
(***************************************************************************)
EXTENDS Naturals, SequencesExt, FiniteSetsExt

CONSTANTS
  Platforms,     \* checked, of those below
  Limits,        \* of items, in the calls
  FeedLength,        \* posts in a feed
  MaxPosts,      \*                                                  (bound)
  MaxWithdrawn   \*                                                  (bound)

Feeds == {"rss", "techmeme", "google_news", "sitemap"}
Lists == {"arxiv", "gdelt", "hackernews", "youtube"}
Cursored == {"bluesky", "search", "mastodon", "reddit", "github"}
ASSUME PagesAssumption ==
  /\ Platforms \subseteq Feeds \cup Lists \cup Cursored
  /\ Limits \subseteq Nat \ {0} /\ {FeedLength, MaxPosts, MaxWithdrawn} \subseteq Nat

---------------------------------------------------------------------------
(* The answers to a request: "spent" is a 403 of a limit that is used up,  *)
(* "busy" any other failure of the server or the connection, "broken" a    *)
(* payload that cannot be read, "drift" one without what is expected.      *)
PageAnswers == {"ok", "unchanged", "denied", "forbidden", "spent", "limited", "busy", "broken", "drift"}
ResultOf(outcome, code) == [outcome |-> outcome, code |-> code, read |-> FALSE]
Read == [outcome |-> "succeeded", code |-> "none", read |-> TRUE]
Nothing == ResultOf("succeeded", "none")
NoChange == ResultOf("no_change", "none")
Raised == ResultOf("failed", "fetch_failed")

FeedResult(a) ==
  CASE a = "ok" -> Read [] a = "unchanged" -> NoChange [] a = "drift" -> Nothing [] OTHER -> Raised
TechmemeResult(a) == FeedResult(a)
GoogleNewsResult(a) == FeedResult(a)
SitemapResult(a, usable) ==
  IF a = "drift" \/ (a = "ok" /\ ~usable) THEN Raised ELSE FeedResult(a)
ArxivResult(a) ==
  CASE a = "ok" -> Read [] a \in {"broken", "drift"} -> Nothing [] OTHER -> Raised
HackerNewsResult(a) == IF a = "ok" THEN Read ELSE Raised
GdeltResult(a) ==
  CASE a = "ok" -> Read [] a = "limited" -> ResultOf("failed", "rate_limited")
    [] a = "drift" -> ResultOf("partial", "schema_drift") [] OTHER -> Raised
BlueskyResult(a, search) ==
  CASE a = "ok" -> Read
    [] search /\ a \in {"limited", "busy"} -> ResultOf("partial", "search_degraded")
    [] a = "limited" -> ResultOf("failed", "rate_limited")
    [] a = "drift" -> Nothing [] OTHER -> Raised
MastodonResult(a) ==
  CASE a = "ok" -> Read [] a = "limited" -> ResultOf("failed", "rate_limited") [] OTHER -> Raised
GitHubResult(a) ==
  CASE a = "ok" -> Read [] a = "unchanged" -> NoChange
    [] a \in {"limited", "spent"} -> ResultOf("failed", "rate_limited") [] OTHER -> Raised

(* Reddit asks for a token first, YouTube for the channel, its uploads and *)
(* the videos; the first answer that is not good ends it.                  *)
FirstBad(answers) == IF \E i \in DOMAIN answers : answers[i] # "ok"
  THEN answers[Min({i \in DOMAIN answers : answers[i] # "ok"})] ELSE "ok"
RedditResult(token, a) ==
  LET bad == FirstBad(<<token, a>>) IN
    CASE bad = "ok" -> Read [] bad \in {"denied", "forbidden", "spent"} -> ResultOf("blocked", "permission_required")
      [] bad = "limited" -> ResultOf("failed", "quota_exhausted")
      [] bad = "drift" -> IF token = "drift" THEN ResultOf("blocked", "permission_required") ELSE Nothing
      [] OTHER -> Raised
YouTubeResult(channel, uploads, videos) ==
  LET bad == FirstBad(<<channel, uploads, videos>>) IN
    CASE bad = "ok" -> Read [] bad = "denied" -> ResultOf("blocked", "permission_required")
      [] bad \in {"forbidden", "spent"} -> ResultOf("blocked", "quota_exhausted")
      [] bad = "drift" -> IF channel = "drift" THEN ResultOf("partial", "schema_drift") ELSE Nothing
      [] OTHER -> Raised

(* What the answers make of a fetch; the last answer is that of the page.  *)
ResultAt(p, first, a, usable) ==
  CASE p = "sitemap" -> SitemapResult(a, usable) [] p = "techmeme" -> TechmemeResult(a)
    [] p = "google_news" -> GoogleNewsResult(a) [] p = "rss" -> FeedResult(a)
    [] p = "arxiv" -> ArxivResult(a) [] p = "gdelt" -> GdeltResult(a)
    [] p = "hackernews" -> HackerNewsResult(a) [] p = "youtube" -> YouTubeResult(first, "ok", a)
    [] p = "bluesky" -> BlueskyResult(a, FALSE) [] p = "search" -> BlueskyResult(a, TRUE)
    [] p = "mastodon" -> MastodonResult(a) [] p = "reddit" -> RedditResult(first, a)
    [] p = "github" -> GitHubResult(a)

(* The posts that are no items: "bare" ones have no title (or text), and   *)
(* "withheld" ones are drafts, deleted, dead or blocked.                   *)
Kinds == {"plain", "bare", "withheld"}
RedditItem(k) == k = "plain"
BlueskyItem(k) == k = "plain"
MastodonItem(k) == k # "withheld"
GitHubItem(k) == k # "withheld"
Usable(p, k) ==
  CASE p = "reddit" -> RedditItem(k) [] p \in {"bluesky", "search"} -> BlueskyItem(k)
    [] p = "mastodon" -> MastodonItem(k) [] p = "github" -> GitHubItem(k)
    [] p = "sitemap" -> k # "withheld" [] OTHER -> k = "plain"

---------------------------------------------------------------------------
VARIABLES
  platform,   \* of the source, or "none"
  posts,      \* their kinds, in the order they were made
  withdrawn,
  place,      \* cursor of source_fetch_states
  tag,        \* etag and last_modified: the page they are of
  kept,       \* posts that are raw items
  last,       \* outcome of the last fetch
  walk,       \* posts that were made when the walk began       (history)
  floor,      \* oldest post it has come to                     (history)
  dropped,    \* posts its calls got beyond their limits        (history)
  shifted     \* a post was withdrawn from under page numbers   (history)
remembered == <<place, tag>>
pageVars == <<platform, posts, withdrawn, remembered, kept, last, walk, floor, dropped, shifted>>

NoPlace == [at |-> 0, size |-> 0, home |-> TRUE]
NoTag == {0}
PageInit ==
  /\ platform = "none" /\ posts = <<>> /\ withdrawn = {} /\ place = NoPlace /\ tag = NoTag
  /\ kept = {} /\ last = "none" /\ walk = 0 /\ floor = 0 /\ dropped = {} /\ shifted = FALSE

(* A page is the set of its posts: the newest of those it begins with.    *)
Shown == DOMAIN posts \ withdrawn
NewestOf(n, ids) == {i \in ids : Cardinality({j \in ids : j > i}) < n}

(* Where a request begins.  Mastodon and Bluesky refuse to go on at a      *)
(* cursor that is not of their endpoint, GitHub begins again.              *)
MayAsk(p) == place.home \/ p = "github"
Start(p) == IF p = "github" /\ ~place.home THEN NoPlace ELSE place

(* The page that is asked for.  The cursor of Mastodon and GitHub is a     *)
(* link, with the size of the pages the walk began with; GitHub counts     *)
(* pages, the others go on below a post.                                   *)
SizeOfFeeds(p, limit) == FeedLength  \* a wrong one: whatever is kept
Size(p, limit) == IF p \in Feeds THEN FeedLength
  ELSE IF p \in {"mastodon", "github"} /\ Start(p).at > 0 THEN Start(p).size ELSE limit
Before(p, limit) ==
  IF Start(p).at = 0 THEN {}
  ELSE IF p = "github" THEN NewestOf((Start(p).at - 1) * Size(p, limit), Shown)
  ELSE {i \in Shown : i >= Start(p).at}
PageAt(p, limit) == NewestOf(Size(p, limit), Shown \ Before(p, limit))
IsOlder(p, page, limit) == Before(p, limit) \cup page # Shown

(* The cursor, or link, of an answer: there is one while older posts are   *)
(* left, and there may be one when none is.                                *)
PlaceAfter(p, page, limit) ==
  [at |-> IF p = "github" THEN (IF Start(p).at = 0 THEN 2 ELSE Start(p).at + 1) ELSE Min(page),
   size |-> Size(p, limit), home |-> TRUE]
Cursors(p, page, limit) ==
  IF p \notin Cursored \/ page = {} THEN {NoPlace}
  ELSE {PlaceAfter(p, page, limit)} \cup (IF IsOlder(p, page, limit) THEN {} ELSE {NoPlace})
    \cup (IF p \in {"bluesky", "mastodon", "github"} THEN {[PlaceAfter(p, page, limit) EXCEPT !.home = FALSE]} ELSE {})

(* The posts of a page that a call looks at; a sitemap is read until there *)
(* are enough items.                                                       *)
Seen(p, page, limit) ==
  IF p # "sitemap" THEN NewestOf(limit, page)
  ELSE {id \in page : Usable(p, posts[id]) => id \in NewestOf(limit, {i \in page : Usable(p, posts[i])})}
Taken(p, page, limit) == {id \in Seen(p, page, limit) : Usable(p, posts[id])}

TagOf(p, page) == IF p \in Feeds \cup {"github"} THEN page ELSE NoTag
Sent(p) ==
  (p \in Feeds \cup {"github"}) /\ tag # NoTag

---------------------------------------------------------------------------
(* What happens to the timeline.                                           *)
Choose == platform = "none" /\ platform' \in Platforms
  /\ UNCHANGED <<posts, withdrawn, remembered, kept, last, walk, floor, dropped, shifted>>
Post ==
  /\ platform # "none" /\ Len(posts) < MaxPosts
  /\ \E k \in Kinds : posts' = Append(posts, k)
  /\ UNCHANGED <<platform, withdrawn, remembered, kept, last, walk, floor, dropped, shifted>>
Withdraw ==
  /\ Cardinality(withdrawn) < MaxWithdrawn
  /\ \E id \in Shown : withdrawn' = withdrawn \cup {id}
  /\ shifted' = (shifted \/ platform = "github")
  /\ UNCHANGED <<platform, posts, remembered, kept, last, walk, floor, dropped>>

(* A fetch whose page was read: its items are kept, and the place and the  *)
(* tag are those of its answer.  HackerNews and YouTube may lose some of   *)
(* the posts, which they ask for one by one or in a request of their own.  *)
Lost(p, taken) == IF p \in {"hackernews", "youtube"} THEN SUBSET taken ELSE {{}}
Store(p, limit, page, next) ==
  /\ place' = next
  /\ tag' = TagOf(p, page)
  /\ walk' = IF Start(p) = NoPlace THEN Len(posts) ELSE walk
  /\ floor' = IF next = NoPlace THEN 0 ELSE Min(page)
  /\ dropped' = (IF Start(p) = NoPlace THEN {} ELSE dropped) \cup (page \ Seen(p, page, limit))
  /\ shifted' = (shifted /\ Start(p) # NoPlace)
FetchPage(limit) == LET p == platform  page == PageAt(p, limit) IN
  /\ MayAsk(p)
  /\ ResultAt(p, "ok", "ok", \E id \in page : Usable(p, posts[id])).read
  /\ last' = "succeeded"
  /\ \E gone \in Lost(p, Taken(p, page, limit)) : kept' = kept \cup (Taken(p, page, limit) \ gone)
  /\ \E next \in Cursors(p, page, limit) : Store(p, limit, page, next)
  /\ UNCHANGED <<platform, posts, withdrawn>>

(* One that got nothing, which is taken for the end of the timeline if it  *)
(* is no failure: the walk begins again.                                   *)
Advances(r) == r.outcome \in {"succeeded", "partial", "no_change"}
Bad(p, page) ==
  {ResultAt(p, first, a, \E id \in page : Usable(p, posts[id])) :
     first \in IF p \in {"reddit", "youtube"} THEN PageAnswers \ {"unchanged"} ELSE {"ok"},
     a \in IF Sent(p) /\ tag \in {page, {}} THEN PageAnswers ELSE PageAnswers \ {"unchanged"}} \ {Read}
FetchNothing(limit) ==
  /\ MayAsk(platform)
  /\ \E r \in Bad(platform, PageAt(platform, limit)) :
       /\ last' = r.outcome
       /\ IF Advances(r)
            THEN /\ place' = NoPlace /\ tag' = IF r = NoChange THEN tag ELSE TagOf(platform, {})
                 /\ walk' = 0 /\ floor' = 0 /\ shifted' = FALSE
                 /\ dropped' = IF r = NoChange THEN dropped ELSE {}
            ELSE UNCHANGED <<remembered, walk, floor, dropped, shifted>>
  /\ UNCHANGED <<platform, posts, withdrawn, kept>>

(* A link that is not of the timeline.                                     *)
Refuse ==
  /\ ~MayAsk(platform)
  /\ last' = "failed"
  /\ UNCHANGED <<platform, posts, withdrawn, remembered, kept, walk, floor, dropped, shifted>>

PageNext ==
  \/ Choose \/ Post \/ Withdraw \/ Refuse
  \/ platform # "none" /\ \E limit \in Limits : FetchPage(limit) \/ FetchNothing(limit)
PageSpec == PageInit /\ [][PageNext]_pageVars

---------------------------------------------------------------------------
(* Properties.                                                             *)

(* A walk leaves no gap: every post it has passed, that is still shown and *)
(* is an item, was kept, or was handed to one of its calls and left for    *)
(* the limit of that call, whatever failed, was added or withdrawn between *)
(* its fetches; only a release withdrawn from under the page numbers of    *)
(* GitHub may leave one.                                                   *)
WalkIsGapless ==
  platform \in Cursored /\ ~shifted =>
    \A id \in Shown : id >= floor /\ id <= walk /\ Usable(platform, posts[id]) => id \in kept \cup dropped

(* If the server says that nothing has changed, the page it is asked for   *)
(* has no item that was not kept, or left for the limit of the call that   *)
(* got the tag.                                                            *)
NoChangeIsKept ==
  tag # NoTag /\ tag = PageAt(platform, MaxPosts) =>
    \A id \in tag : Usable(platform, posts[id]) => id \in kept \cup dropped

(* Calls that say how much they want leave nothing for their limit: only   *)
(* those of a feed do, and of a link that was made for another limit.      *)
LimitsAreAsked == dropped # {} => platform \in Feeds \cup {"mastodon", "github"}

(* What neither a cursor nor a conditional request passes over, but for    *)
(* what the call that got it had no room for.                              *)
NothingIsSkipped == WalkIsGapless /\ NoChangeIsKept /\ LimitsAreAsked
=============================================================================
