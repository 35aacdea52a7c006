------------------------------- MODULE Sources -------------------------------
(***************************************************************************)
(* mention-service/app/sources: which sources a scrape asks and the urls   *)
(* they return for a keyword.  What is out on the web is a constant.  A    *)
(* source never raises; the three lose different parts of their answer     *)
(* when something fails.  MockSource, the choice of a system with no       *)
(* source configured, invents new urls at every call: nothing it returns   *)
(* can be found again, and it is not unfolded here.                        *)
(***************************************************************************)
EXTENDS SequencesExt

CONSTANTS
  Settings,  \* [reddit_client_id, reddit_client_secret, newsapi_key : BOOLEAN, rss_feeds : a set]
  Posts,     \* Posts[k]: urls that Reddit finds for k, newest first
  Articles,  \* Articles[k]: urls that NewsAPI finds for k, newest first, or NoLink
  Entries,   \* Entries[f]: the entries of feed f, [link, about : keywords in title or summary]
  Limit,     \* Limit.reddit (limit), Limit.news (page_size), Limit.rss (per_feed)
  NoLink

First(s, n) == {s[i] : i \in 1..Min({n, Len(s)})}

\* get_enabled_sources
EnabledSources ==
  LET configured == [reddit |-> Settings.reddit_client_id /\ Settings.reddit_client_secret,
                     news   |-> Settings.newsapi_key,
                     rss    |-> Settings.rss_feeds # {}]
      real == {s \in DOMAIN configured : configured[s]}
  IN IF real = {} THEN {"mock"} ELSE real

\* RedditSource: a search that raises anywhere returns nothing.
RedditResults(k) == {First(Posts[k], Limit.reddit), {}}

\* NewsApiSource: the articles read before the exception are kept.
NewsResults(k) ==
  {First(Articles[k], n) \ {NoLink} : n \in 0..Min({Limit.news, Len(Articles[k])})}

\* What the entries of a feed contribute.
Matching(f, k) == {e.link : e \in {d \in First(Entries[f], Limit.rss) : k \in d.about}} \ {NoLink}

\* RssSource: feedparser reads a feed it cannot get as an empty one; an exception
\* at an entry loses all feeds.
RssResults(k) == {UNION {Matching(f, k) : f \in feeds} : feeds \in SUBSET Settings.rss_feeds}

\* What source s may return for k.
Results(s, k) == CASE s = "reddit" -> RedditResults(k)
                   [] s = "news"   -> NewsResults(k)
                   [] s = "rss"    -> RssResults(k)
                   [] OTHER        -> {{}}

\* The urls of a scrape in which no source fails, and those of any scrape.
Whole(k) == UNION UNION {Results(s, k) : s \in EnabledSources}
Outcomes(k) ==
  {UNION Range(answer) : answer \in {a \in [EnabledSources -> UNION {Results(s, k) : s \in EnabledSources}] :
                                       \A s \in EnabledSources : a[s] \in Results(s, k)}}
=============================================================================
