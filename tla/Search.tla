-------------------------------- MODULE Search --------------------------------
(***************************************************************************)
(* Web search and page fetching of src/src/search.cpp: the engines that    *)
(* are tried one after the other, robots.txt and its cache, and the delay  *)
(* between two requests to one host.  An HTTP request takes some time and  *)
(* ends with an answer or an error (see Http); the program has one thread  *)
(* that searches, and sleep_for returns when its time is up.               *)
(*                                                                         *)
(* Time is counted from now: due is the time until the next request to a   *)
(* host may start, which is last_hit + min_delay_ms - now, or 0.           *)
(***************************************************************************)
EXTENDS Integers, Sequences, SequencesExt, FiniteSetsExt

CONSTANTS
  Searches,  \* the searches made: [engine, max, snippets]
  Fetches,   \* the pages fetched: [site, path, check]
  Answers,   \* what an engine can answer: a sequence of [site, path, snippet]
  Robots,    \* the robots.txt each site may serve
  Delay,     \* min_delay_ms, in units of time
  NameParts  \* the agents that are a part of the name the client gives itself

(* A path is a sequence that begins with "/"; a line of robots.txt has a    *)
(* field, and an agent or a path: another line says nothing.                *)
Line == [field : {"user-agent", "disallow", "allow"}, agent : STRING,
         path : Seq(STRING)]
ASSUME RobotsAssumption == \A h \in DOMAIN Robots : Robots[h] \subseteq Seq(Line)
ASSUME SearchesAssumption ==
  \A s \in Searches : s.engine \in STRING /\ s.max \in Nat \ {0} /\ s.snippets \in BOOLEAN
(* Results and pages are on hosts that are told apart.                       *)
Engines == {"www.bing.com", "www.google.com", "en.wikipedia.org",
            "www.mojeek.com", "html.duckduckgo.com"}
Sites   == Engines \cup DOMAIN Robots
Result  == [site : DOMAIN Robots, path : Seq(STRING), snippet : BOOLEAN]
ASSUME PagesAssumption ==
  /\ Answers \subseteq Seq(Result)
  /\ Fetches \subseteq [site : DOMAIN Robots, path : Seq(STRING), check : BOOLEAN]
ASSUME DelayAssumption == Delay \in Nat \ {0}
ASSUME NamesAssumption == NameParts \subseteq STRING

VARIABLES
  pc,
  search,   \* the search being made, or NoSearch
  engines,  \* engines not yet tried
  results,  \* response.results
  at,       \* the result whose snippet is looked at; 0 outside of a search
  page,     \* the page being fetched
  denied,   \* was it refused because of robots.txt
  wait,     \* time left to sleep
  due,      \* last_hit
  cache,    \* cache of robots_for
  (* observation *)
  answered, \* what the engines tried have answered
  since,    \* time since the last request to a host that was waited for, up
            \* to Delay
  served    \* the robots.txt that was received of a site

vars == <<pc, search, engines, results, at, page, denied, wait, due, cache,
          answered, since, served>>

-----------------------------------------------------------------------------
(* robots.txt: the rules of the groups for everybody and for us.  Mutant:   *)
(* the next group, for another agent, does not end them.                    *)
Ours == {"*"} \cup NameParts
NoRules == [field \in {"disallow", "allow"} |-> {}]
Add(rules, field, path) == [rules EXCEPT ![field] = @ \cup {path}]

Mutant_ParseLine(acc, line) ==
  CASE line.field = "user-agent" ->
         [acc EXCEPT !.applies = @ \/ line.agent \in Ours]
    [] line.field # "user-agent" /\ acc.applies /\ line.path # <<>> ->
         [acc EXCEPT !.rules = Add(@, line.field, line.path)]
    [] OTHER -> acc
ParseLine(acc, line) ==
  CASE line.field = "user-agent" ->
         [acc EXCEPT !.applies = line.agent \in Ours]
    [] line.field # "user-agent" /\ acc.applies /\ line.path # <<>> ->
         [acc EXCEPT !.rules = Add(@, line.field, line.path)]
    [] OTHER -> acc
ParseRobotsTxt(body) ==
  LET after[n \in 0 .. Len(body)] ==
        IF n = 0 THEN [applies |-> FALSE, rules |-> NoRules]
        ELSE ParseLine(after[n - 1], body[n])
  IN after[Len(body)].rules

(* RobotsRules::allows: the longest rule wins, and allow wins a tie.        *)
Longest(paths, path) == Max({0} \cup {Len(p) : p \in {q \in paths : IsPrefix(q, path)}})
Allows(rules, path) ==
  Longest(rules["allow"], path) >= Longest(rules["disallow"], path)

(* search_url_for: an engine it does not know is taken for DuckDuckGo.      *)
SearchSite(engine) ==
  CASE engine = "bing"      -> "www.bing.com"
    [] engine = "google"    -> "www.google.com"
    [] engine = "wikipedia" -> "en.wikipedia.org"
    [] engine = "mojeek"    -> "www.mojeek.com"
    [] OTHER                -> "html.duckduckgo.com"
EnginesOf(s) ==
  IF s.engine \in {"auto", ""} THEN <<"duckduckgo", "mojeek", "bing", "wikipedia">>
  ELSE <<s.engine>>


-----------------------------------------------------------------------------
NoSearch == [engine |-> "", max |-> 1, snippets |-> FALSE]
NoPage   == [site |-> "none", path |-> <<>>, check |-> FALSE]

Init ==
  /\ pc = "idle" /\ search = NoSearch /\ engines = <<>> /\ results = <<>>
  /\ at = 0 /\ page = NoPage /\ denied = FALSE /\ wait = 0
  /\ due = [h \in Sites |-> 0] /\ since = [h \in Sites |-> Delay]
  /\ cache = [h \in {} |-> NoRules] /\ served = [h \in {} |-> <<>>]
  /\ answered = <<>>

(* polite_wait: the slot of this request is taken before it is waited for.  *)
(* Mutant: it is taken to be now.                                           *)
Mutant_Slot(host) == Delay
Slot(host) == due[host] + Delay
PoliteWait(host) == wait' = due[host] /\ due' = [due EXCEPT ![host] = Slot(host)]

(* The host the request waited for is that of an engine or of a page.       *)
Host == IF pc = "engine slot" THEN SearchSite(Head(engines)) ELSE page.site
Sends(next) ==
  /\ wait = 0 /\ pc' = next
  /\ since' = [since EXCEPT ![Host] = 0]

-----------------------------------------------------------------------------
(* web_search.                                                              *)
WebSearch(s) ==
  /\ pc = "idle"
  /\ search' = s /\ engines' = EnginesOf(s)
  /\ results' = <<>> /\ answered' = <<>> /\ at' = 0 /\ page' = NoPage
  /\ pc' = "engine"
  /\ UNCHANGED <<denied, wait, due, cache, since, served>>

TryEngine ==
  /\ pc = "engine" /\ engines # <<>>
  /\ PoliteWait(SearchSite(Head(engines)))
  /\ pc' = "engine slot"
  /\ UNCHANGED <<search, engines, results, at, page, denied, cache, answered,
                 since, served>>

AskEngine ==
  /\ pc = "engine slot" /\ Sends("engine asked")
  /\ UNCHANGED <<search, engines, results, at, page, denied, wait, due,
                 cache, answered, served>>

(* An engine that cannot be reached, refuses or has no results is followed  *)
(* by the next.  Mutant: one that refuses ends the search.                  *)
Mutant_AfterNone == "idle"
AfterNone == "engine"

Truncated(rs, max) == IF Len(rs) > max THEN SubSeq(rs, 1, max) ELSE rs

EngineAnswers(answer) ==
  /\ pc = "engine asked"
  /\ answered' = Append(answered, answer)
  /\ IF answer = <<>>
     THEN /\ engines' = Tail(engines) /\ pc' = AfterNone
          /\ UNCHANGED <<results, at>>
     ELSE /\ results' = Truncated(answer, search.max)
          /\ at' = IF search.snippets THEN 1 ELSE Len(results') + 1
          /\ pc' = "snippets"
          /\ UNCHANGED engines
  /\ UNCHANGED <<search, page, denied, wait, due, cache, since, served>>

SearchFails ==
  /\ pc = "engine" /\ engines = <<>> /\ pc' = "idle"
  /\ UNCHANGED <<search, engines, results, at, page, denied, wait, due,
                 cache, answered, since, served>>

(* Snippets that are missing are taken from the pages found, as fetch_page  *)
(* returns them.                                                            *)
FetchSnippet ==
  /\ pc = "snippets" /\ at <= Len(results) /\ ~results[at].snippet
  /\ page' = [site |-> results[at].site, path |-> results[at].path, check |-> TRUE]
  /\ denied' = FALSE /\ pc' = "fetch"
  /\ UNCHANGED <<search, engines, results, at, wait, due, cache, answered,
                 since, served>>

SkipSnippet ==
  /\ pc = "snippets" /\ at <= Len(results) /\ results[at].snippet
  /\ at' = at + 1
  /\ UNCHANGED <<pc, search, engines, results, page, denied, wait, due, cache,
                 answered, since, served>>

SearchEnds ==
  /\ pc = "snippets" /\ at > Len(results) /\ pc' = "idle"
  /\ UNCHANGED <<search, engines, results, at, page, denied, wait, due,
                 cache, answered, since, served>>

-----------------------------------------------------------------------------
(* fetch_page, called by itself or for a snippet.                           *)
FetchPage(p) ==
  /\ pc = "idle"
  /\ page' = p /\ denied' = FALSE
  /\ search' = NoSearch /\ engines' = <<>> /\ results' = <<>> /\ at' = 0
  /\ answered' = <<>>
  /\ pc' = "fetch"
  /\ UNCHANGED <<wait, due, cache, since, served>>

(* The page is given up or has been read.                                   *)
Returned(ok) ==
  IF at = 0 THEN pc' = "idle" /\ UNCHANGED <<results, at>>
  ELSE /\ results' = [results EXCEPT ![at].snippet = ok]
       /\ at' = at + 1
       /\ pc' = "snippets"

(* robots_for asks once; what it then knows judges the page.                *)
Known == ~page.check \/ page.site \in DOMAIN cache

(* What is known of the sites, with the site of the page.                   *)
Noted(known, what) ==
  [h \in DOMAIN known \cup {page.site} |-> IF h = page.site THEN what ELSE known[h]]

RobotsFor ==
  /\ pc = "fetch" /\ ~Known
  /\ pc' = "robots"
  /\ UNCHANGED <<search, engines, results, at, page, denied, wait, due,
                 cache, answered, since, served>>

RobotsAnswered(body) ==
  /\ cache' = Noted(cache, ParseRobotsTxt(body))
  /\ served' = Noted(served, body)
  /\ pc' = "fetch"
  /\ UNCHANGED <<search, engines, results, at, page, denied, wait, due,
                 answered, since>>

(* No robots.txt, or no answer: everything is allowed from then on.         *)
RobotsMissing ==
  /\ pc = "robots"
  /\ cache' = Noted(cache, NoRules)
  /\ pc' = "fetch"
  /\ UNCHANGED <<search, engines, results, at, page, denied, wait, due,
                 answered, since, served>>

Judged(p) == p.check => Allows(cache[p.site], p.path)

WaitForPage ==
  /\ pc = "fetch" /\ Known /\ Judged(page)
  /\ PoliteWait(page.site)
  /\ pc' = "page slot"
  /\ UNCHANGED <<search, engines, results, at, page, denied, cache, answered,
                 since, served>>

DenyPage ==
  /\ pc = "fetch" /\ Known /\ ~Judged(page)
  /\ denied' = TRUE /\ Returned(FALSE)
  /\ UNCHANGED <<search, engines, page, wait, due, cache, answered, since, served>>

AskPage ==
  /\ pc = "page slot" /\ Sends("page asked")
  /\ UNCHANGED <<search, engines, results, at, page, denied, wait, due,
                 cache, answered, served>>

(* A page that was received counts, whatever its status.                    *)
PageAnswered(ok) ==
  /\ pc = "page asked" /\ Returned(ok)
  /\ UNCHANGED <<search, engines, page, denied, wait, due, cache, answered, since,
                 served>>

-----------------------------------------------------------------------------
(* A unit of time passes; nobody sleeps longer than he has to.              *)
Less(t) == IF t > 0 THEN t - 1 ELSE 0
Tick ==
  /\ pc \in {"engine slot", "page slot"} => wait > 0
  /\ wait' = Less(wait)
  /\ due' = [h \in Sites |-> Less(due[h])]
  /\ since' = [h \in Sites |-> IF since[h] < Delay THEN since[h] + 1 ELSE Delay]
  /\ UNCHANGED <<pc, search, engines, results, at, page, denied, cache,
                 answered, served>>

Next ==
  \/ \E s \in Searches : WebSearch(s)
  \/ TryEngine \/ AskEngine \/ SearchFails
  \/ \E answer \in Answers : EngineAnswers(answer)
  \/ FetchSnippet \/ SkipSnippet \/ SearchEnds
  \/ \E p \in Fetches : FetchPage(p)
  \/ RobotsFor \/ RobotsMissing
  \/ pc = "robots" /\ \E body \in Robots[page.site] : RobotsAnswered(body)
  \/ WaitForPage \/ DenyPage \/ AskPage
  \/ \E ok \in BOOLEAN : PageAnswered(ok)
  \/ Tick

Spec == Init /\ [][Next]_vars

-----------------------------------------------------------------------------
(* PROPERTIES                                                               *)

(* search.h:140: `Blocks so that consecutive requests to one host respect a *)
(* minimum delay.'  Of two requests to a host that wait for a slot, for an  *)
(* engine, a page or a snippet and however fast the host answers, the       *)
(* second starts Delay after the first.                                     *)
Polite ==
  [][AskEngine \/ AskPage => since[Host] = Delay]_vars

(* A page is asked for exactly if the robots.txt that was received of its   *)
(* site, however long ago, does not forbid it: the rules that concern us    *)
(* are those whose nearest User-agent line names us or everybody.           *)
Concerns(body, i) ==
  \E k \in 1 .. i - 1 :
    /\ body[k].field = "user-agent" /\ body[k].agent \in Ours
    /\ \A l \in k + 1 .. i - 1 : body[l].field # "user-agent"
Rule(body, field, i, path) ==
  body[i].field = field /\ body[i].path # <<>> /\ IsPrefix(body[i].path, path)
    /\ Concerns(body, i)
Forbids(body, path) ==
  \E i \in DOMAIN body :
    /\ Rule(body, "disallow", i, path)
    /\ ~\E k \in DOMAIN body : /\ Rule(body, "allow", k, path)
                               /\ Len(body[k].path) >= Len(body[i].path)
ObeysRobots ==
  page.check /\ page.site \in DOMAIN served =>
    /\ denied => Forbids(served[page.site], page.path)
    /\ pc \in {"page slot", "page asked"} => ~Forbids(served[page.site], page.path)

(* search.h:60-61: `With engine == "auto" the engines are tried in order    *)
(* until one returns parseable results.'  A search that has ended tells     *)
(* what the first engine that had results has answered, up to max_results,  *)
(* and has none only if every engine was tried and had none.                *)
SearchAnswers ==
  pc = "idle" /\ search # NoSearch =>
    LET last == answered[Len(answered)] IN
    /\ \A i \in 1 .. Len(answered) - 1 : answered[i] = <<>>
    /\ last = <<>> => results = <<>> /\ Len(answered) = Len(EnginesOf(search))
    /\ last # <<>> =>
         /\ Len(results) = Min({search.max, Len(last)})
         /\ \A i \in DOMAIN results :
              /\ results[i].site = last[i].site /\ results[i].path = last[i].path
              /\ last[i].snippet => results[i].snippet
=============================================================================
