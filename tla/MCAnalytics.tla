---------------------------- MODULE MCAnalytics ----------------------------
(* AnalyticsService on a small instance: the keyword of Home spikes when its   *)
(* last mention is stored, of the mentions of the last week, which one is not; *)
(* the brand it is compared with has no mention.                               *)
EXTENDS AnalyticsService

MCMention(id, org, k, src, hour, s) ==
  [id |-> id, org |-> org, keyword |-> k, source |-> src, hour |-> hour, sentiment |-> s]

MCEarly == {MCMention(1, 1, 1, 1, 40, "positive"), MCMention(2, 1, 1, 2, 49, "negative"),
            MCMention(3, 1, 1, 1, 66, "negative"), MCMention(5, 1, 1, 1, 8, "neutral")}
MCMentions == MCEarly \cup {MCMention(4, 1, 1, 2, 66, "positive")}
MCRequests == {[endpoint |-> "overview", from |-> 0, to |-> 168],
               [endpoint |-> "trends", keyword |-> 1, granularity |-> "day", from |-> 0, to |-> 168]}
MCBrands == <<1, 2>>
MCLower(k) == k
=============================================================================
