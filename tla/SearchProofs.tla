----------------------------- MODULE SearchProofs -----------------------------
(***************************************************************************)
(* The delay between requests to one host, the obedience to robots.txt and *)
(* the answer of a search, for every delay, set of searches and pages, and *)
(* whatever engines and sites answer.                                      *)
(***************************************************************************)
EXTENDS Search, WellFoundedInduction, TLAPS

Fetching == {"fetch", "robots", "page slot", "page asked"}
Slotted  == pc \in {"engine slot", "page slot"}

TypeTimes ==
  /\ wait \in Nat
  /\ due \in [Sites -> Nat]
  /\ since \in [Sites -> 0 .. Delay]
TypePages ==
  /\ search.max \in Nat /\ results \in Seq(Result) /\ at \in Nat
  /\ pc = "snippets" => at > 0
  /\ pc \in Fetching => page.site \in Sites

(* What is due covers what is missing since the last request; and a request *)
(* that has its slot is itself covered by what it still has to wait.        *)
Covered == \A h \in Sites : since[h] + due[h] >= Delay
SlotCovered ==
  Slotted => due[Host] = wait + Delay /\ since[Host] + wait >= Delay
PoliteInv == TypeTimes /\ TypePages /\ Covered /\ SlotCovered

-----------------------------------------------------------------------------
(* The hosts of the slots are sites: the engines are those of               *)
(* search_url_for, and a page is one that was named.                        *)
LEMMA EnginesAreSites == ASSUME NEW e PROVE SearchSite(e) \in Sites
BY DEF SearchSite, Sites, Engines

LEMMA HostIsSite == PoliteInv /\ Slotted => Host \in Sites
BY EnginesAreSites DEF PoliteInv, TypePages, Slotted, Host, Fetching

(* No results are a sequence of results.                                    *)
LEMMA NothingTyped == <<>> \in Seq(Result)
OBVIOUS

LEMMA PoliteInit == Init => PoliteInv
<1> SUFFICES ASSUME Init PROVE PoliteInv
  OBVIOUS
<1> USE DelayAssumption DEF Init
<1>1. TypeTimes
  BY DEF TypeTimes
<1>2. TypePages
  <2>1. search.max = 1 /\ results = <<>> /\ at = 0 /\ pc = "idle"
    BY DEF NoSearch
  <2> QED BY <2>1, NothingTyped DEF TypePages, Fetching
<1>3. Covered
  BY DEF Covered
<1>4. SlotCovered
  BY DEF SlotCovered, Slotted
<1> QED BY <1>1, <1>2, <1>3, <1>4 DEF PoliteInv

(* Taking a slot.                                                           *)
LEMMA SlotTaken ==
  ASSUME PoliteInv, NEW h \in Sites, PoliteWait(h), UNCHANGED since
  PROVE  /\ TypeTimes' /\ Covered'
         /\ due'[h] = wait' + Delay /\ since'[h] + wait' >= Delay
<1> USE DelayAssumption DEF PoliteInv, TypeTimes, Covered
<1>1. /\ due[h] \in Nat /\ wait' = due[h]
      /\ due' = [due EXCEPT ![h] = due[h] + Delay]
  BY DEF PoliteWait, Slot
<1>2. TypeTimes'
  BY <1>1
<1>3. \A k \in Sites : due'[k] = (IF k = h THEN due[h] + Delay ELSE due[k])
  BY <1>1
<1>4. Covered'
  <2>1. SUFFICES ASSUME NEW k \in Sites PROVE since'[k] + due'[k] >= Delay
    OBVIOUS
  <2>2. since[k] + due[k] >= Delay /\ since[k] \in Nat /\ due[k] \in Nat
    OBVIOUS
  <2>3. CASE k = h
    BY <1>1, <1>3, <2>2, <2>3
  <2>4. CASE k # h
    BY <1>3, <2>2, <2>4
  <2> QED BY <2>3, <2>4
<1>5. due'[h] = wait' + Delay
  BY <1>1, <1>3
<1>6. since'[h] + wait' >= Delay
  BY <1>1
<1> QED BY <1>2, <1>4, <1>5, <1>6

(* Using it.                                                                *)
LEMMA SlotUsed ==
  ASSUME PoliteInv, Slotted, NEW next, Sends(next), UNCHANGED <<wait, due>>
  PROVE  TypeTimes' /\ Covered'
<1> USE DelayAssumption DEF PoliteInv, TypeTimes, Covered, SlotCovered
<1>1. since' = [since EXCEPT ![Host] = 0] /\ wait = 0
  BY DEF Sends
<1>2. TypeTimes'
  <2>1. \A k \in Sites : since'[k] = (IF k = Host THEN 0 ELSE since[k])
    BY <1>1
  <2>2. \A k \in Sites : since'[k] \in 0 .. Delay
    BY <2>1
  <2>3. since' = [k \in Sites |-> since'[k]]
    BY <1>1
  <2> HIDE DEF PoliteInv, Covered, SlotCovered
  <2>4. since' \in [Sites -> 0 .. Delay]
    BY <2>2, <2>3
  <2> QED BY <2>4 DEF PoliteInv
<1>3. ASSUME NEW k \in Sites PROVE since'[k] + due'[k] >= Delay
  <2>1. CASE k = Host
    BY <1>1, <2>1
  <2>2. CASE k # Host
    BY <1>1, <2>2
  <2> QED BY <2>1, <2>2
<1> QED BY <1>2, <1>3

(* Time passes for every host alike, and a request whose time has come does *)
(* not wait any longer.                                                     *)
LEMMA LessIs == \A t \in Nat : Less(t) \in Nat /\ Less(t) <= t /\ Less(t) + 1 >= t
BY DEF Less

LEMMA TimePasses == ASSUME PoliteInv, Tick PROVE PoliteInv'
<1> USE DelayAssumption DEF PoliteInv
<1>1. /\ wait \in Nat /\ wait' = Less(wait) /\ (Slotted => wait > 0)
      /\ UNCHANGED <<pc, search, engines, results, at, page>>
  BY DEF Tick, TypeTimes, Slotted
<1>2. ASSUME NEW h \in Sites
      PROVE  /\ due[h] \in Nat /\ since[h] \in 0 .. Delay
             /\ due'[h] = Less(due[h])
             /\ since'[h] = IF since[h] < Delay THEN since[h] + 1 ELSE Delay
  BY DEF Tick, TypeTimes
<1>3. TypeTimes'
  <2>1. due' \in [Sites -> Nat]
    BY LessIs DEF Tick, TypeTimes
  <2>2. since' \in [Sites -> 0 .. Delay]
    <3>1. \A h \in Sites : since'[h] \in 0 .. Delay
      BY <1>2
    <3>2. since' = [h \in Sites |-> since'[h]]
      BY DEF Tick
    <3> QED BY <3>1, <3>2
  <2> QED BY <1>1, <2>1, <2>2, LessIs DEF TypeTimes
<1>4. TypePages'
  BY <1>1 DEF TypePages
<1>5. Covered'
  <2>1. SUFFICES ASSUME NEW h \in Sites PROVE since'[h] + due'[h] >= Delay
    BY DEF Covered
  <2>2. since[h] + due[h] >= Delay
    BY DEF Covered
  <2> QED BY <1>2, <2>2, LessIs DEF Less
<1>6. SlotCovered'
  <2>1. SUFFICES ASSUME Slotted
                 PROVE  due'[Host] = wait' + Delay /\ since'[Host] + wait' >= Delay
    BY <1>1 DEF SlotCovered, Slotted, Host
  <2>2. Host \in Sites /\ due[Host] = wait + Delay /\ since[Host] + wait >= Delay
    BY <2>1, HostIsSite DEF SlotCovered
  <2>3. wait' = wait - 1
    BY <1>1, <2>1 DEF Less
  <2>4. due'[Host] = due[Host] - 1
    BY <1>1, <1>2, <2>1, <2>2 DEF Less
  <2>5. since'[Host] + wait' >= Delay
    BY <1>1, <1>2, <2>1, <2>2, <2>3
  <2> QED BY <1>1, <2>2, <2>3, <2>4, <2>5
<1> QED BY <1>3, <1>4, <1>5, <1>6

-----------------------------------------------------------------------------
(* A step that does not touch the times keeps what is said of them, unless  *)
(* it comes to a slot.                                                      *)
LEMMA TimesKept ==
  ASSUME PoliteInv, UNCHANGED <<wait, due, since>>, ~Slotted'
  PROVE  TypeTimes' /\ Covered' /\ SlotCovered'
BY DEF PoliteInv, TypeTimes, Covered, SlotCovered

(* What is kept of an answer, and a result whose page was read, are results. *)
LEMMA TruncatedTyped ==
  ASSUME NEW rs \in Seq(Result), NEW max \in Nat
  PROVE  Truncated(rs, max) \in Seq(Result)
BY DEF Truncated

LEMMA SnippetTyped ==
  ASSUME NEW rs \in Seq(Result), NEW i \in Nat, NEW ok \in BOOLEAN
  PROVE  [rs EXCEPT ![i].snippet = ok] \in Seq(Result)
<1> DEFINE new == [rs EXCEPT ![i].snippet = ok]
<1>1. /\ DOMAIN new = 1 .. Len(rs) /\ Len(rs) \in Nat
      /\ \A k \in 1 .. Len(rs) :
           new[k] = IF k = i THEN [rs[k] EXCEPT !.snippet = ok] ELSE rs[k]
  OBVIOUS
<1>2. \A k \in 1 .. Len(rs) : rs[k] \in Result
  OBVIOUS
<1>3. \A k \in 1 .. Len(rs) : [rs[k] EXCEPT !.snippet = ok] \in Result
  BY <1>2 DEF Result
<1>4. \A k \in 1 .. Len(rs) : new[k] \in Result
  BY <1>1, <1>2, <1>3
<1>5. new = [k \in 1 .. Len(rs) |-> new[k]]
  BY <1>1
<1> HIDE DEF new
<1>6. new \in Seq(Result)
  BY <1>1, <1>4, <1>5
<1> QED BY <1>6 DEF new

LEMMA ReturnedKeeps ==
  ASSUME PoliteInv, NEW ok \in BOOLEAN, Returned(ok), UNCHANGED <<search, page>>
  PROVE  TypePages' /\ ~Slotted'
<1> USE DEF PoliteInv, TypePages, Slotted, Fetching, Returned
<1>1. CASE at = 0
  BY <1>1
<1>2. CASE at # 0
  <2>1. results' = [results EXCEPT ![at].snippet = ok] /\ at' = at + 1
        /\ pc' = "snippets" /\ UNCHANGED search
    BY <1>2
  <2>2. results \in Seq(Result) /\ at \in Nat /\ search.max \in Nat
    OBVIOUS
  <2>3. results' \in Seq(Result)
    BY <2>1, <2>2, SnippetTyped
  <2>4. at' = at + 1 /\ search' = search /\ pc' = "snippets"
    BY <2>1
  <2> HIDE DEF PoliteInv, Returned
  <2>5. at' \in Nat /\ at' > 0 /\ search'.max \in Nat
    BY <2>2, <2>4
  <2>6. TypePages'
    BY <2>3, <2>4, <2>5
  <2> QED BY <2>4, <2>6
<1> QED BY <1>1, <1>2

LEMMA PoliteNext == PoliteInv /\ [Next]_vars => PoliteInv'
<1> SUFFICES ASSUME PoliteInv, [Next]_vars PROVE PoliteInv'
  OBVIOUS
<1> USE DEF PoliteInv
<1>1. ASSUME NEW s \in Searches, WebSearch(s) PROVE PoliteInv'
  <2>1. TypePages' /\ ~Slotted' /\ UNCHANGED <<wait, due, since>>
    BY <1>1, SearchesAssumption DEF WebSearch, TypePages, Slotted, Fetching
  <2> QED BY <2>1, TimesKept
<1>2. CASE TryEngine
  <2>1. SearchSite(Head(engines)) \in Sites
    BY EnginesAreSites
  <2>2. PoliteWait(SearchSite(Head(engines))) /\ UNCHANGED since
    BY <1>2 DEF TryEngine
  <2>3. Host' = SearchSite(Head(engines))
    BY <1>2 DEF TryEngine, Host
  <2>4. TypePages'
    BY <1>2 DEF TryEngine, TypePages, Fetching
  <2> QED BY <2>1, <2>2, <2>3, <2>4, SlotTaken DEF SlotCovered
<1>3. CASE AskEngine
  <2>1. /\ Slotted /\ Sends("engine asked") /\ UNCHANGED <<wait, due>>
        /\ ~Slotted' /\ TypePages'
    BY <1>3 DEF AskEngine, Sends, Slotted, TypePages, Fetching
  <2> QED BY <2>1, SlotUsed DEF SlotCovered
<1>4. CASE SearchFails
  <2>1. TypePages' /\ ~Slotted' /\ UNCHANGED <<wait, due, since>>
    BY <1>4 DEF SearchFails, TypePages, Slotted, Fetching
  <2> QED BY <2>1, TimesKept
<1>5. ASSUME NEW answer \in Answers, EngineAnswers(answer) PROVE PoliteInv'
  <2>1. CASE answer = <<>>
    <3>1. TypePages' /\ ~Slotted' /\ UNCHANGED <<wait, due, since>>
      BY <1>5, <2>1 DEF EngineAnswers, AfterNone, TypePages, Slotted, Fetching
    <3> QED BY <3>1, TimesKept
  <2>2. CASE answer # <<>>
    <3>1. results' \in Seq(Result)
      BY <1>5, <2>2, PagesAssumption, TruncatedTyped
      DEF EngineAnswers, TypePages
    <3>2. Len(results') \in Nat
      BY <3>1
    <3>3. at' = (IF search.snippets THEN 1 ELSE Len(results') + 1)
      BY <1>5, <2>2 DEF EngineAnswers
    <3>4. at' \in Nat /\ at' > 0
      BY <3>2, <3>3
    <3>5. /\ pc' = "snippets" /\ search' = search
          /\ UNCHANGED <<wait, due, since>>
      BY <1>5, <2>2 DEF EngineAnswers
    <3>6. TypePages' /\ ~Slotted'
      BY <3>1, <3>4, <3>5 DEF TypePages, Slotted, Fetching
    <3> QED BY <3>5, <3>6, TimesKept
  <2> QED BY <2>1, <2>2
<1>6. CASE FetchSnippet
  <2>1. results[at] \in Result
    BY <1>6 DEF FetchSnippet, TypePages
  <2>2. page'.site \in Sites
    BY <1>6, <2>1 DEF FetchSnippet, Result, Sites
  <2>3. TypePages' /\ ~Slotted' /\ UNCHANGED <<wait, due, since>>
    BY <1>6, <2>2 DEF FetchSnippet, TypePages, Slotted, Fetching
  <2> QED BY <2>3, TimesKept
<1>7. CASE SkipSnippet
  <2>1. TypePages' /\ ~Slotted' /\ UNCHANGED <<wait, due, since>>
    BY <1>7 DEF SkipSnippet, TypePages, Slotted, Fetching
  <2> QED BY <2>1, TimesKept
<1>8. CASE SearchEnds
  <2>1. TypePages' /\ ~Slotted' /\ UNCHANGED <<wait, due, since>>
    BY <1>8 DEF SearchEnds, TypePages, Slotted, Fetching
  <2> QED BY <2>1, TimesKept
<1>9. ASSUME NEW p \in Fetches, FetchPage(p) PROVE PoliteInv'
  <2>1. /\ page' = p /\ search'.max = 1 /\ results' = <<>> /\ at' = 0
        /\ pc' = "fetch" /\ UNCHANGED <<wait, due, since>>
    BY <1>9 DEF FetchPage, NoSearch
  <2>2. p.site \in Sites
    BY PagesAssumption DEF Sites
  <2>3. results' \in Seq(Result) /\ search'.max \in Nat /\ at' \in Nat
    BY <2>1, NothingTyped
  <2>4. page'.site \in Sites
    BY <2>1, <2>2
  <2>5. TypePages'
    BY <2>1, <2>3, <2>4 DEF TypePages
  <2>6. ~Slotted'
    BY <2>1 DEF Slotted
  <2> QED BY <2>1, <2>5, <2>6, TimesKept
<1>10. CASE RobotsFor
  <2>1. TypePages' /\ ~Slotted' /\ UNCHANGED <<wait, due, since>>
    BY <1>10 DEF RobotsFor, TypePages, Slotted, Fetching
  <2> QED BY <2>1, TimesKept
<1>11. CASE RobotsMissing
  <2>1. TypePages' /\ ~Slotted' /\ UNCHANGED <<wait, due, since>>
    BY <1>11 DEF RobotsMissing, TypePages, Slotted, Fetching
  <2> QED BY <2>1, TimesKept
<1>12. ASSUME pc = "robots", NEW body, RobotsAnswered(body) PROVE PoliteInv'
  <2>1. TypePages' /\ ~Slotted' /\ UNCHANGED <<wait, due, since>>
    BY <1>12 DEF RobotsAnswered, TypePages, Slotted, Fetching
  <2> QED BY <2>1, TimesKept
<1>13. CASE WaitForPage
  <2>1. /\ page.site \in Sites /\ Host' = page.site
        /\ PoliteWait(page.site) /\ UNCHANGED since /\ TypePages'
    BY <1>13 DEF WaitForPage, Host, TypePages, Fetching
  <2> QED BY <2>1, SlotTaken DEF SlotCovered
<1>14. CASE DenyPage
  <2>1. Returned(FALSE) /\ UNCHANGED <<search, page, wait, due, since>>
    BY <1>14 DEF DenyPage
  <2> QED BY <2>1, ReturnedKeeps, TimesKept
<1>15. CASE AskPage
  <2>1. /\ Slotted /\ Sends("page asked") /\ UNCHANGED <<wait, due>>
        /\ ~Slotted' /\ TypePages'
    BY <1>15 DEF AskPage, Sends, Slotted, TypePages, Fetching
  <2> QED BY <2>1, SlotUsed DEF SlotCovered
<1>16. ASSUME NEW ok \in BOOLEAN, PageAnswered(ok) PROVE PoliteInv'
  <2>1. Returned(ok) /\ UNCHANGED <<search, page, wait, due, since>>
    BY <1>16 DEF PageAnswered
  <2> QED BY <2>1, ReturnedKeeps, TimesKept
<1>17. CASE UNCHANGED vars
  BY <1>17 DEF vars, TypeTimes, TypePages, Covered, SlotCovered, Slotted, Host
<1> QED
  BY <1>1, <1>2, <1>3, <1>4, <1>5, <1>6, <1>7, <1>8, <1>9, <1>10, <1>11, <1>12,
     <1>13, <1>14, <1>15, <1>16, <1>17, TimePasses DEF Next

-----------------------------------------------------------------------------
(* Whatever the hosts answer and however long they take, of two requests    *)
(* that polite_wait lets through to one host the second starts min_delay_ms *)
(* after the first (polite_wait, search.cpp:928).                           *)
THEOREM PoliteAlways == Spec => Polite
<1>1. PoliteInv /\ [Next]_vars
        => [AskEngine \/ AskPage => since[Host] = Delay]_vars
  <2> SUFFICES ASSUME PoliteInv, AskEngine \/ AskPage
               PROVE  since[Host] = Delay
    OBVIOUS
  <2>1. Slotted /\ wait = 0
    BY DEF AskEngine, AskPage, Sends, Slotted
  <2>2. since[Host] \in 0 .. Delay /\ since[Host] + wait >= Delay
    BY <2>1, HostIsSite DEF PoliteInv, TypeTimes, SlotCovered
  <2> QED BY <2>1, <2>2, DelayAssumption
<1> QED BY <1>1, PoliteInit, PoliteNext, PTL DEF Spec, Polite

-----------------------------------------------------------------------------
(* Induction over the naturals, and over them backwards.                    *)
Before == {pair \in Nat \X Nat : pair[1] < pair[2]}

LEMMA LeastNumber ==
  ASSUME NEW T, T \subseteq Nat, T # {}
  PROVE  \E x \in T : \A y \in T : x <= y
<1>1. IsWellFoundedOn(Before, Nat)
  <2>1. Before = OpToRel(<, Nat)
    BY DEF Before, OpToRel
  <2> QED BY <2>1, NatLessThanWellFounded
<1>2. PICK x \in T : \A y \in T : <<y, x>> \notin Before
  BY <1>1, WFMin
<1>3. ASSUME NEW y \in T PROVE x <= y
  <2>1. x \in Nat /\ y \in Nat /\ <<y, x>> \notin Before
    BY <1>2
  <2>2. ~(y < x)
    BY <2>1 DEF Before
  <2> QED BY <2>1, <2>2
<1> QED BY <1>3

LEMMA Induction ==
  ASSUME NEW T, 0 \in T, \A n \in Nat : n \in T => n + 1 \in T
  PROVE  Nat \subseteq T
<1> SUFFICES ASSUME Nat \ T # {} PROVE FALSE
  OBVIOUS
<1>1. PICK x \in Nat \ T : \A y \in Nat \ T : x <= y
  BY LeastNumber
<1>2. x - 1 \in Nat /\ x - 1 \in T
  BY <1>1
<1> QED BY <1>2

LEMMA GreatestNumber ==
  ASSUME NEW T, T \subseteq Nat, T # {}, NEW bound \in Nat, \A x \in T : x <= bound
  PROVE  \E x \in T : \A y \in T : x >= y
<1> DEFINE U == {bound - x : x \in T}
<1>1. U \subseteq Nat /\ U # {}
  <2>1. \A x \in T : x \in Nat /\ x <= bound
    OBVIOUS
  <2>2. U \subseteq Nat
    BY <2>1
  <2>3. PICK x \in T : TRUE
    OBVIOUS
  <2>4. bound - x \in U
    OBVIOUS
  <2> QED BY <2>2, <2>4
<1>2. PICK u \in U : \A v \in U : u <= v
  <2> HIDE DEF U
  <2> QED BY <1>1, LeastNumber
<1>3. PICK x \in T : u = bound - x
  OBVIOUS
<1>4. ASSUME NEW y \in T PROVE x >= y
  <2>1. bound - y \in U
    OBVIOUS
  <2>2. bound - x <= bound - y
    BY <1>2, <1>3, <2>1
  <2>3. x \in Nat /\ y \in Nat
    OBVIOUS
  <2> QED BY <2>2, <2>3
<1> QED BY <1>4

-----------------------------------------------------------------------------
(* robots.txt, line by line: After(body, n) is what is known behind line n. *)
NoLines == [applies |-> FALSE, rules |-> NoRules]
Parsing(body, n, h) ==
  h = [k \in 0 .. n |-> IF k = 0 THEN NoLines ELSE ParseLine(h[k - 1], body[k])]
Parsed(body, n) == CHOOSE h : Parsing(body, n, h)
After(body, n) == Parsed(body, n)[n]

LEMMA ParsingExists ==
  ASSUME NEW body
  PROVE  \A n \in Nat : Parsing(body, n, Parsed(body, n))
<1> DEFINE T == {n \in Nat : \E h : Parsing(body, n, h)}
<1>1. 0 \in T
  <2>1. Parsing(body, 0, [k \in 0 .. 0 |-> NoLines])
    BY DEF Parsing
  <2> QED BY <2>1
<1>2. ASSUME NEW n \in Nat, n \in T PROVE n + 1 \in T
  <2>1. PICK h : Parsing(body, n, h)
    BY <1>2
  <2> DEFINE g == [k \in 0 .. n + 1 |->
                     IF k <= n THEN h[k] ELSE ParseLine(h[n], body[n + 1])]
  <2>2. \A k \in 0 .. n + 1 :
          g[k] = IF k = 0 THEN NoLines ELSE ParseLine(g[k - 1], body[k])
    <3> TAKE k \in 0 .. n + 1
    <3>1. CASE k = 0
      BY <2>1, <3>1 DEF Parsing
    <3>2. CASE k > 0 /\ k <= n
      <4>1. g[k] = h[k] /\ g[k - 1] = h[k - 1] /\ k \in 0 .. n
        BY <3>2
      <4>2. h[k] = ParseLine(h[k - 1], body[k])
        BY <2>1, <3>2, <4>1 DEF Parsing
      <4> QED BY <3>2, <4>1, <4>2
    <3>3. CASE k = n + 1
      <4>1. g[k] = ParseLine(h[n], body[k]) /\ g[k - 1] = h[n] /\ k # 0
        BY <3>3
      <4> QED BY <4>1
    <3> QED BY <3>1, <3>2, <3>3
  <2>3. Parsing(body, n + 1, g)
    <3>1. g = [k \in 0 .. n + 1 |-> g[k]]
      OBVIOUS
    <3> HIDE DEF g
    <3> QED BY <2>2, <3>1 DEF Parsing
  <2> QED BY <2>3
<1> HIDE DEF T
<1>3. Nat \subseteq T
  BY <1>1, <1>2, Induction
<1>4. ASSUME NEW n \in Nat PROVE Parsing(body, n, Parsed(body, n))
  <2>1. \E h : Parsing(body, n, h)
    BY <1>3 DEF T
  <2> QED BY <2>1 DEF Parsed
<1> QED BY <1>4

(* Two readings of a file agree as far as both have come.                   *)
LEMMA ParsingUnique ==
  ASSUME NEW body, NEW m \in Nat, NEW n \in Nat, m <= n, NEW g, NEW h,
         Parsing(body, m, g), Parsing(body, n, h)
  PROVE  g[m] = h[m]
<1> DEFINE T == {k \in Nat : k <= m => g[k] = h[k]}
<1>1. 0 \in T
  BY DEF Parsing
<1>2. ASSUME NEW k \in Nat, k \in T PROVE k + 1 \in T
  <2> SUFFICES ASSUME k + 1 <= m PROVE g[k + 1] = h[k + 1]
    OBVIOUS
  <2>1. g[k] = h[k] /\ k + 1 \in 0 .. m /\ k + 1 \in 0 .. n /\ k + 1 # 0 /\ (k + 1) - 1 = k
    BY <1>2
  <2>2. g[k + 1] = ParseLine(g[k], body[k + 1]) /\ h[k + 1] = ParseLine(h[k], body[k + 1])
    BY <2>1 DEF Parsing
  <2> QED BY <2>1, <2>2
<1> HIDE DEF T
<1>3. Nat \subseteq T
  BY <1>1, <1>2, Induction
<1>4. m \in T
  BY <1>3
<1> QED BY <1>4 DEF T

LEMMA AfterLine ==
  ASSUME NEW body
  PROVE  /\ After(body, 0) = NoLines
         /\ \A n \in Nat : After(body, n + 1) = ParseLine(After(body, n), body[n + 1])
<1>1. After(body, 0) = NoLines
  <2>1. Parsing(body, 0, Parsed(body, 0))
    BY ParsingExists
  <2> QED BY <2>1 DEF Parsing, After
<1>2. ASSUME NEW n \in Nat
      PROVE  After(body, n + 1) = ParseLine(After(body, n), body[n + 1])
  <2> DEFINE g == Parsed(body, n)
             h == Parsed(body, n + 1)
  <2>1. Parsing(body, n, g) /\ Parsing(body, n + 1, h)
    BY ParsingExists
  <2> HIDE DEF g, h
  <2>2. g[n] = h[n]
    BY <2>1, ParsingUnique
  <2>3. h[n + 1] = ParseLine(h[n], body[n + 1])
    <3>1. n + 1 \in 0 .. n + 1 /\ n + 1 # 0 /\ (n + 1) - 1 = n
      OBVIOUS
    <3> QED BY <2>1, <3>1 DEF Parsing
  <2> QED BY <2>2, <2>3 DEF After, g, h
<1> QED BY <1>1, <1>2

LEMMA ParsedIs ==
  ASSUME NEW body \in Seq(Line)
  PROVE  ParseRobotsTxt(body) = After(body, Len(body)).rules
<1>1. Len(body) \in Nat
  OBVIOUS
<1>2. ParseRobotsTxt(body) = Parsed(body, Len(body))[Len(body)].rules
  BY DEF ParseRobotsTxt, Parsed, Parsing, NoLines
<1> QED BY <1>2 DEF After

-----------------------------------------------------------------------------
(* What is known behind a line: whether the nearest User-agent line names   *)
(* us, and the paths of the rules before it that do.                        *)
RulePaths(body, n, field) ==
  {body[i].path : i \in {k \in 1 .. n : /\ body[k].field = field /\ body[k].path # <<>>
                                        /\ Concerns(body, k)}}
RuleFields == {"disallow", "allow"}
Knows(body, n) ==
  After(body, n) =
    [applies |-> Concerns(body, n + 1),
     rules   |-> [field \in RuleFields |-> RulePaths(body, n, field)]]

LEMMA ConcernsNext ==
  ASSUME NEW body, NEW n \in Nat
  PROVE  Concerns(body, (n + 1) + 1) <=>
           IF body[n + 1].field = "user-agent" THEN body[n + 1].agent \in Ours
           ELSE Concerns(body, n + 1)
<1>1. ((n + 1) + 1) - 1 = n + 1 /\ (n + 1) - 1 = n
  OBVIOUS
<1>2. CASE body[n + 1].field = "user-agent"
  <2>1. ASSUME Concerns(body, (n + 1) + 1) PROVE body[n + 1].agent \in Ours
    <3>1. PICK k \in 1 .. n + 1 :
            /\ body[k].field = "user-agent" /\ body[k].agent \in Ours
            /\ \A l \in k + 1 .. n + 1 : body[l].field # "user-agent"
      BY <2>1, <1>1 DEF Concerns
    <3>2. k = n + 1
      <4>1. CASE k < n + 1
        <5>1. n + 1 \in k + 1 .. n + 1
          BY <4>1
        <5> QED BY <5>1, <3>1, <1>2
      <4> QED BY <4>1
    <3> QED BY <3>1, <3>2
  <2>2. ASSUME body[n + 1].agent \in Ours PROVE Concerns(body, (n + 1) + 1)
    <3>1. n + 1 \in 1 .. n + 1 /\ \A l \in (n + 1) + 1 .. n + 1 : FALSE
      OBVIOUS
    <3> QED BY <1>1, <1>2, <2>2, <3>1 DEF Concerns
  <2> QED BY <1>2, <2>1, <2>2
<1>3. CASE body[n + 1].field # "user-agent"
  <2>1. ASSUME Concerns(body, (n + 1) + 1) PROVE Concerns(body, n + 1)
    <3>1. PICK k \in 1 .. n + 1 :
            /\ body[k].field = "user-agent" /\ body[k].agent \in Ours
            /\ \A l \in k + 1 .. n + 1 : body[l].field # "user-agent"
      BY <2>1, <1>1 DEF Concerns
    <3>2. k # n + 1
      BY <3>1, <1>3
    <3>3. k \in 1 .. n /\ \A l \in k + 1 .. n : l \in k + 1 .. n + 1
      BY <3>2
    <3> QED BY <1>1, <3>1, <3>3 DEF Concerns
  <2>2. ASSUME Concerns(body, n + 1) PROVE Concerns(body, (n + 1) + 1)
    <3>1. PICK k \in 1 .. n :
            /\ body[k].field = "user-agent" /\ body[k].agent \in Ours
            /\ \A l \in k + 1 .. n : body[l].field # "user-agent"
      BY <2>2, <1>1 DEF Concerns
    <3>2. \A l \in k + 1 .. n + 1 : l = n + 1 \/ l \in k + 1 .. n
      OBVIOUS
    <3>3. k \in 1 .. n + 1 /\ \A l \in k + 1 .. n + 1 : body[l].field # "user-agent"
      BY <1>3, <3>1, <3>2
    <3> QED BY <1>1, <3>1, <3>3 DEF Concerns
  <2> QED BY <1>3, <2>1, <2>2
<1> QED BY <1>2, <1>3

LEMMA RulePathsNext ==
  ASSUME NEW body, NEW n \in Nat, NEW field
  PROVE  RulePaths(body, n + 1, field) =
           IF /\ body[n + 1].field = field /\ body[n + 1].path # <<>>
              /\ Concerns(body, n + 1)
           THEN RulePaths(body, n, field) \cup {body[n + 1].path}
           ELSE RulePaths(body, n, field)
<1>1. \A k : k \in 1 .. n + 1 <=> k \in 1 .. n \/ k = n + 1
  OBVIOUS
<1> QED BY <1>1 DEF RulePaths

LEMMA ParseLineIs ==
  ASSUME NEW con, NEW rules, NEW line
  PROVE  ParseLine([applies |-> con, rules |-> rules], line) =
           IF line.field = "user-agent"
           THEN [applies |-> line.agent \in Ours, rules |-> rules]
           ELSE IF con /\ line.path # <<>>
           THEN [applies |-> con, rules |-> Add(rules, line.field, line.path)]
           ELSE [applies |-> con, rules |-> rules]
BY DEF ParseLine

LEMMA KnowsAlways ==
  ASSUME NEW body \in Seq(Line)
  PROVE  \A n \in 0 .. Len(body) : Knows(body, n)
<1> DEFINE T == {n \in Nat : n <= Len(body) => Knows(body, n)}
<1>1. 0 \in T
  <2>1. \A i : i \notin 1 .. 0
    OBVIOUS
  <2>2. (0 + 1) - 1 = 0
    OBVIOUS
  <2>3. Concerns(body, 0 + 1) = FALSE
    BY <2>1, <2>2 DEF Concerns
  <2>4. \A field : RulePaths(body, 0, field) = {}
    BY <2>1 DEF RulePaths
  <2>5. After(body, 0) = [applies |-> FALSE, rules |-> [field \in RuleFields |-> {}]]
    BY AfterLine DEF NoLines, NoRules, RuleFields
  <2>6. Knows(body, 0)
    BY <2>3, <2>4, <2>5 DEF Knows
  <2> QED BY <2>6
<1>2. ASSUME NEW n \in Nat, n \in T PROVE n + 1 \in T
  <2> SUFFICES ASSUME n + 1 <= Len(body) PROVE Knows(body, n + 1)
    OBVIOUS
  <2> DEFINE line == body[n + 1]
             rules == [field \in RuleFields |-> RulePaths(body, n, field)]
             next == [field \in RuleFields |-> RulePaths(body, n + 1, field)]
             con == Concerns(body, n + 1)
  <2>1. After(body, n) = [applies |-> con, rules |-> rules] /\ con \in BOOLEAN
    BY <1>2 DEF Knows, Concerns
  <2>2. line.field \in {"user-agent", "disallow", "allow"}
    <3>1. line \in Line
      OBVIOUS
    <3> HIDE DEF line
    <3> QED BY <3>1 DEF Line
  <2>3. After(body, n + 1) = ParseLine(After(body, n), line)
    BY AfterLine
  <2>4. Concerns(body, (n + 1) + 1) =
          (IF line.field = "user-agent" THEN line.agent \in Ours ELSE con)
    <3>1. Concerns(body, (n + 1) + 1) \in BOOLEAN
      BY DEF Concerns
    <3>2. Concerns(body, (n + 1) + 1) <=>
            IF line.field = "user-agent" THEN line.agent \in Ours ELSE con
      BY ConcernsNext
    <3> HIDE DEF line, con
    <3> QED BY <2>1, <3>1, <3>2
  <2>5. \A field \in RuleFields :
          RulePaths(body, n + 1, field) =
            IF line.field = field /\ line.path # <<>> /\ con
            THEN rules[field] \cup {line.path} ELSE rules[field]
    <3> TAKE field \in RuleFields
    <3>1. rules[field] = RulePaths(body, n, field)
      OBVIOUS
    <3>2. RulePaths(body, n + 1, field) =
            IF line.field = field /\ line.path # <<>> /\ con
            THEN RulePaths(body, n, field) \cup {line.path} ELSE RulePaths(body, n, field)
      BY RulePathsNext
    <3> HIDE DEF line, con, rules
    <3> QED BY <3>1, <3>2
  <2>6. next = IF con /\ line.path # <<>> /\ line.field \in RuleFields
               THEN Add(rules, line.field, line.path) ELSE rules
    <3>1. rules = [field \in RuleFields |-> rules[field]]
      OBVIOUS
    <3>2. next = [field \in RuleFields |-> next[field]]
      OBVIOUS
    <3>3. \A field \in RuleFields :
            next[field] = IF line.field = field /\ line.path # <<>> /\ con
                          THEN rules[field] \cup {line.path} ELSE rules[field]
      BY <2>5
    <3> HIDE DEF line, rules, next, con
    <3> QED BY <3>1, <3>2, <3>3 DEF Add
  <2> DEFINE ours == line.agent \in Ours
             applies == IF line.field = "user-agent" THEN ours ELSE con
  <2>7. After(body, n + 1) = [applies |-> applies, rules |-> next]
    <3> HIDE DEF line, rules, next, con
    <3>1. "user-agent" \notin RuleFields /\ "disallow" \in RuleFields /\ "allow" \in RuleFields
      BY DEF RuleFields
    <3>2. After(body, n + 1) =
            IF line.field = "user-agent"
            THEN [applies |-> line.agent \in Ours, rules |-> rules]
            ELSE IF con /\ line.path # <<>>
            THEN [applies |-> con, rules |-> Add(rules, line.field, line.path)]
            ELSE [applies |-> con, rules |-> rules]
      BY <2>1, <2>3, ParseLineIs
    <3>3. CASE line.field = "user-agent"
      <4>1. applies = ours /\ next = rules
        BY <2>6, <3>1, <3>3
      <4>2. After(body, n + 1) = [applies |-> ours, rules |-> rules]
        BY <3>2, <3>3
      <4> HIDE DEF ours, applies
      <4> QED BY <4>1, <4>2
    <3>4. CASE line.field # "user-agent"
      <4>1. applies = con /\ line.field \in RuleFields
        BY <2>2, <3>1, <3>4
      <4> HIDE DEF ours, applies
      <4>2. After(body, n + 1) = [applies |-> con, rules |-> next]
        BY <2>6, <3>2, <3>4, <4>1
      <4> QED BY <4>1, <4>2
    <3> QED BY <3>3, <3>4
  <2> QED BY <2>4, <2>7 DEF Knows
<1> HIDE DEF T
<1>3. Nat \subseteq T
  BY <1>1, <1>2, Induction
<1>4. Len(body) \in Nat
  OBVIOUS
<1> QED BY <1>3, <1>4 DEF T

-----------------------------------------------------------------------------
(* The longest rule that a path begins with, or 0.                          *)
LEMMA LongestIs ==
  ASSUME NEW paths, NEW path, Len(path) \in Nat, \A q \in paths : Len(q) \in Nat
  PROVE  /\ Longest(paths, path) \in Nat
         /\ \/ Longest(paths, path) = 0
            \/ \E q \in paths : IsPrefix(q, path) /\ Len(q) = Longest(paths, path)
         /\ \A q \in paths : IsPrefix(q, path) => Len(q) <= Longest(paths, path)
<1> DEFINE matching == {q \in paths : IsPrefix(q, path)}
           lengths == {0} \cup {Len(q) : q \in matching}
<1>1. \A q \in matching : Len(q) \in Nat /\ Len(q) <= Len(path)
  BY DEF IsPrefix
<1>2. lengths \subseteq Nat /\ 0 \in lengths /\ \A x \in lengths : x <= Len(path)
  BY <1>1
<1>3. Longest(paths, path) = Max(lengths)
  BY DEF Longest
<1>4. /\ \A x \in lengths : x = 0 \/ \E q \in matching : x = Len(q)
      /\ \A q \in matching : Len(q) \in lengths
  OBVIOUS
<1> HIDE DEF lengths
<1>5. \E x \in lengths : \A y \in lengths : x >= y
  BY <1>2, GreatestNumber
<1>6. Max(lengths) \in lengths /\ \A y \in lengths : Max(lengths) >= y
  BY <1>5 DEF Max
<1>7. \A q \in matching : Max(lengths) >= Len(q)
  BY <1>4, <1>6
<1>8. Max(lengths) = 0 \/ \E q \in matching : Len(q) = Max(lengths)
  BY <1>4, <1>6
<1>9. Max(lengths) \in Nat
  BY <1>2, <1>6
<1>10. \A q \in matching : Len(q) <= Max(lengths)
  BY <1>1, <1>7, <1>9
<1> QED BY <1>3, <1>8, <1>9, <1>10

(* What parse_robots_txt makes of a file allows exactly what the lines of   *)
(* the file that concern us do not forbid.                                  *)
LEMMA LinePath ==
  ASSUME NEW line \in Line
  PROVE  Len(line.path) \in Nat /\ (line.path # <<>> => Len(line.path) > 0)
<1>1. line.path \in Seq(STRING)
  BY DEF Line
<1> QED BY <1>1

LEMMA AllowsUnlessForbidden ==
  ASSUME NEW body \in Seq(Line), NEW path, Len(path) \in Nat
  PROVE  Allows(ParseRobotsTxt(body), path) <=> ~Forbids(body, path)
<1> DEFINE n == Len(body)
           dis == RulePaths(body, n, "disallow")
           alw == RulePaths(body, n, "allow")
<1>1. n \in Nat /\ DOMAIN body = 1 .. n
  OBVIOUS
<1>2. /\ ParseRobotsTxt(body)["disallow"] = dis
      /\ ParseRobotsTxt(body)["allow"] = alw
  <2>1. Knows(body, n)
    BY <1>1, KnowsAlways
  <2> QED BY <2>1, ParsedIs DEF Knows, RuleFields
<1>3. ASSUME NEW field
      PROVE  \A q : q \in RulePaths(body, n, field) /\ IsPrefix(q, path) <=>
                      \E i \in DOMAIN body : Rule(body, field, i, path) /\ q = body[i].path
  BY <1>1 DEF RulePaths, Rule
<1>4. \A i \in DOMAIN body : /\ Len(body[i].path) \in Nat
                             /\ body[i].path # <<>> => Len(body[i].path) > 0
  BY LinePath
<1>5. /\ \A q \in dis : Len(q) \in Nat /\ Len(q) > 0
      /\ \A q \in alw : Len(q) \in Nat
  BY <1>1, <1>4 DEF RulePaths
<1> HIDE DEF n, dis, alw
<1> DEFINE d == Longest(dis, path)
           a == Longest(alw, path)
<1>6. Allows(ParseRobotsTxt(body), path) <=> a >= d
  BY <1>2 DEF Allows
<1>7. /\ d \in Nat
      /\ d = 0 \/ \E q \in dis : IsPrefix(q, path) /\ Len(q) = d
      /\ \A q \in dis : IsPrefix(q, path) => Len(q) <= d
  BY <1>5, LongestIs
<1>8. /\ a \in Nat
      /\ a = 0 \/ \E q \in alw : IsPrefix(q, path) /\ Len(q) = a
      /\ \A q \in alw : IsPrefix(q, path) => Len(q) <= a
  BY <1>5, LongestIs
<1> HIDE DEF d, a
<1>9. /\ \A q : q \in dis /\ IsPrefix(q, path) <=>
                  \E i \in DOMAIN body : Rule(body, "disallow", i, path) /\ q = body[i].path
      /\ \A q : q \in alw /\ IsPrefix(q, path) <=>
                  \E i \in DOMAIN body : Rule(body, "allow", i, path) /\ q = body[i].path
  BY <1>3 DEF dis, alw
<1>10. ASSUME Forbids(body, path) PROVE ~(a >= d)
  <2>1. PICK i \in DOMAIN body :
          /\ Rule(body, "disallow", i, path)
          /\ ~\E k \in DOMAIN body : /\ Rule(body, "allow", k, path)
                                     /\ Len(body[k].path) >= Len(body[i].path)
    BY <1>10 DEF Forbids
  <2>2. body[i].path \in dis /\ IsPrefix(body[i].path, path)
    BY <1>9, <2>1
  <2>3. Len(body[i].path) <= d /\ Len(body[i].path) > 0 /\ Len(body[i].path) \in Nat
    BY <1>5, <1>7, <2>2
  <2>4. CASE a = 0
    BY <1>7, <2>3, <2>4
  <2>5. ASSUME NEW q \in alw, IsPrefix(q, path), Len(q) = a PROVE ~(a >= d)
    <3>1. PICK k \in DOMAIN body : Rule(body, "allow", k, path) /\ q = body[k].path
      BY <1>9, <2>5
    <3>2. ~(Len(body[k].path) >= Len(body[i].path))
      BY <2>1, <3>1
    <3> QED BY <1>7, <1>8, <2>3, <2>5, <3>1, <3>2
  <2> QED BY <1>8, <2>4, <2>5
<1>11. ASSUME ~(a >= d) PROVE Forbids(body, path)
  <2>1. d # 0 /\ d > a
    BY <1>7, <1>8, <1>11
  <2>2. PICK q \in dis : IsPrefix(q, path) /\ Len(q) = d
    BY <1>7, <2>1
  <2>3. PICK i \in DOMAIN body : Rule(body, "disallow", i, path) /\ q = body[i].path
    BY <1>9, <2>2
  <2>4. ASSUME NEW k \in DOMAIN body, Rule(body, "allow", k, path)
        PROVE  ~(Len(body[k].path) >= Len(body[i].path))
    <3>1. body[k].path \in alw /\ IsPrefix(body[k].path, path)
      BY <1>9, <2>4
    <3>2. Len(body[k].path) <= a /\ Len(body[k].path) \in Nat
      BY <1>5, <1>8, <3>1
    <3> QED BY <1>7, <1>8, <2>1, <2>2, <2>3, <3>2
  <2> QED BY <2>3, <2>4 DEF Forbids
<1> QED BY <1>6, <1>10, <1>11

-----------------------------------------------------------------------------
(* What is cached of a site is what its robots.txt says, a site that is     *)
(* asked for its robots.txt is not in the cache, and a page is denied or    *)
(* asked for as the cache says.                                             *)
CachedRules ==
  \A h \in DOMAIN served : /\ h \in DOMAIN cache /\ served[h] \in Seq(Line)
                           /\ cache[h] = ParseRobotsTxt(served[h])
PageNamed ==
  /\ pc \in Fetching => page.site \in DOMAIN Robots
  /\ page.check => Len(page.path) \in Nat
  /\ pc = "robots" => page.site \notin DOMAIN cache
PageJudged ==
  page.check =>
    /\ denied => /\ page.site \in DOMAIN cache
                 /\ ~Allows(cache[page.site], page.path)
    /\ pc \in {"page slot", "page asked"} =>
         /\ page.site \in DOMAIN cache
         /\ Allows(cache[page.site], page.path)
RobotsInv == CachedRules /\ PageNamed /\ PageJudged

LEMMA RobotsInit == Init => RobotsInv
<1> SUFFICES ASSUME Init PROVE RobotsInv
  OBVIOUS
<1>1. pc = "idle" /\ page.check = FALSE /\ DOMAIN served = {}
  BY DEF Init, NoPage
<1> QED BY <1>1 DEF RobotsInv, CachedRules, PageNamed, PageJudged, Fetching

(* A page that is begun is not judged yet.                                  *)
LEMMA PageBegun ==
  ASSUME RobotsInv, UNCHANGED <<cache, served>>, page'.check => ~denied',
         page'.check => Len(page'.path) \in Nat,
         pc' \in Fetching => pc' = "fetch" /\ page'.site \in DOMAIN Robots
  PROVE  RobotsInv'
BY DEF RobotsInv, CachedRules, PageNamed, PageJudged, Fetching

(* The page is left as it is, and so is what is known.                      *)
LEMMA PageLeft ==
  ASSUME RobotsInv, UNCHANGED <<cache, served, page, denied>>,
         \/ pc' \notin Fetching
         \/ pc' = "page asked" /\ pc = "page slot"
  PROVE  RobotsInv'
BY DEF RobotsInv, CachedRules, PageNamed, PageJudged, Fetching

LEMMA ReturnedLeaves ==
  ASSUME NEW ok, Returned(ok) PROVE pc' \notin Fetching
BY DEF Returned, Fetching

LEMMA RobotsNext == PoliteInv /\ RobotsInv /\ [Next]_vars => RobotsInv'
<1> SUFFICES ASSUME PoliteInv, RobotsInv, [Next]_vars PROVE RobotsInv'
  OBVIOUS
<1>1. ASSUME NEW s \in Searches, WebSearch(s) PROVE RobotsInv'
  <2>1. page'.check = FALSE
    BY <1>1 DEF WebSearch, NoPage
  <2> QED BY <1>1, <2>1, PageBegun DEF WebSearch, Fetching
<1>2. CASE TryEngine \/ AskEngine \/ SearchFails \/ SearchEnds
  BY <1>2, PageLeft
  DEF TryEngine, AskEngine, Sends, SearchFails, SearchEnds, Fetching
<1>3. ASSUME NEW answer \in Answers, EngineAnswers(answer) PROVE RobotsInv'
  <2>1. pc' \notin Fetching /\ UNCHANGED <<cache, served, page, denied>>
    BY <1>3 DEF EngineAnswers, AfterNone, Fetching
  <2> QED BY <2>1, PageLeft
<1>4. CASE FetchSnippet
  <2>1. results[at] \in Result
    BY <1>4 DEF FetchSnippet, PoliteInv, TypePages
  <2>2. results[at].site \in DOMAIN Robots /\ Len(results[at].path) \in Nat
    <3>1. results[at].site \in DOMAIN Robots /\ results[at].path \in Seq(STRING)
      BY <2>1 DEF Result
    <3> QED BY <3>1
  <2>3. page'.site = results[at].site /\ page'.path = results[at].path
    BY <1>4 DEF FetchSnippet
  <2> QED BY <1>4, <2>2, <2>3, PageBegun DEF FetchSnippet
<1>5. CASE SkipSnippet
  BY <1>5, PageLeft DEF SkipSnippet, Fetching
<1>6. ASSUME NEW p \in Fetches, FetchPage(p) PROVE RobotsInv'
  <2>1. p.site \in DOMAIN Robots /\ p.path \in Seq(STRING)
    BY PagesAssumption
  <2>2. Len(p.path) \in Nat
    BY <2>1
  <2> QED BY <1>6, <2>1, <2>2, PageBegun DEF FetchPage
<1>7. CASE RobotsFor
  BY <1>7 DEF RobotsFor, Known, RobotsInv, CachedRules, PageNamed, PageJudged, Fetching
<1>8. ASSUME pc = "robots", NEW body \in Robots[page.site], RobotsAnswered(body)
      PROVE  RobotsInv'
  <2>1. page.site \in DOMAIN Robots /\ page.site \notin DOMAIN cache
    BY <1>8 DEF RobotsInv, PageNamed, Fetching
  <2>2. body \in Seq(Line)
    BY <2>1, RobotsAssumption
  <2>3. /\ cache' = Noted(cache, ParseRobotsTxt(body)) /\ served' = Noted(served, body)
        /\ pc' = "fetch" /\ UNCHANGED <<page, denied>>
    BY <1>8 DEF RobotsAnswered
  <2> DEFINE rules == ParseRobotsTxt(body)
  <2> HIDE DEF rules
  <2>4. /\ DOMAIN cache' = DOMAIN cache \cup {page.site} /\ cache'[page.site] = rules
        /\ \A h \in DOMAIN cache : h # page.site => cache'[h] = cache[h]
    <3>1. cache' = Noted(cache, rules)
      BY <2>3 DEF rules
    <3> QED BY <3>1 DEF Noted
  <2>5. /\ DOMAIN served' = DOMAIN served \cup {page.site} /\ served'[page.site] = body
        /\ \A h \in DOMAIN served : h # page.site => served'[h] = served[h]
    BY <2>3 DEF Noted
  <2>6. CachedRules'
    <3>1. SUFFICES ASSUME NEW h \in DOMAIN served'
                   PROVE  /\ h \in DOMAIN cache' /\ served'[h] \in Seq(Line)
                          /\ cache'[h] = ParseRobotsTxt(served'[h])
      BY DEF CachedRules
    <3>2. CASE h = page.site
      BY <2>2, <2>4, <2>5, <3>2 DEF rules
    <3>3. CASE h # page.site
      <4>1. h \in DOMAIN served /\ served'[h] = served[h]
        BY <2>5, <3>3
      <4>2. h \in DOMAIN cache /\ served[h] \in Seq(Line)
            /\ cache[h] = ParseRobotsTxt(served[h])
        BY <4>1 DEF RobotsInv, CachedRules
      <4>3. h \in DOMAIN cache' /\ cache'[h] = cache[h]
        BY <2>4, <3>3, <4>2
      <4> QED BY <4>1, <4>2, <4>3
    <3> QED BY <3>2, <3>3
  <2>7. PageNamed' /\ PageJudged'
    BY <2>1, <2>3 DEF RobotsInv, PageNamed, PageJudged, Fetching
  <2> QED BY <2>6, <2>7 DEF RobotsInv
<1>9. CASE RobotsMissing
  <2>1. page.site \in DOMAIN Robots /\ page.site \notin DOMAIN cache
    BY <1>9 DEF RobotsMissing, RobotsInv, PageNamed, Fetching
  <2>2. /\ cache' = Noted(cache, NoRules) /\ served' = served
        /\ pc' = "fetch" /\ UNCHANGED <<page, denied>>
    BY <1>9 DEF RobotsMissing
  <2>3. \A h \in DOMAIN cache : h \in DOMAIN cache' /\ cache'[h] = cache[h]
    BY <2>1, <2>2 DEF Noted
  <2>4. CachedRules'
    BY <2>2, <2>3 DEF RobotsInv, CachedRules
  <2>5. PageNamed' /\ PageJudged'
    BY <2>1, <2>2 DEF RobotsInv, PageNamed, PageJudged, Fetching
  <2> QED BY <2>4, <2>5 DEF RobotsInv
<1>10. CASE WaitForPage
  BY <1>10
  DEF WaitForPage, Known, Judged, RobotsInv, CachedRules, PageNamed, PageJudged, Fetching
<1>11. CASE DenyPage
  <2>1. page.check /\ page.site \in DOMAIN cache /\ ~Allows(cache[page.site], page.path)
    BY <1>11 DEF DenyPage, Known, Judged
  <2>2. pc' \notin Fetching /\ UNCHANGED <<cache, served, page>>
    BY <1>11, ReturnedLeaves DEF DenyPage
  <2> QED
    BY <2>1, <2>2 DEF RobotsInv, CachedRules, PageNamed, PageJudged, Fetching
<1>12. CASE AskPage
  BY <1>12, PageLeft DEF AskPage, Sends
<1>13. ASSUME NEW ok \in BOOLEAN, PageAnswered(ok) PROVE RobotsInv'
  <2>1. pc' \notin Fetching /\ UNCHANGED <<cache, served, page, denied>>
    BY <1>13, ReturnedLeaves DEF PageAnswered
  <2> QED BY <2>1, PageLeft
<1>14. CASE Tick \/ UNCHANGED vars
  <2>1. UNCHANGED <<pc, page, denied, cache, served>>
    BY <1>14 DEF Tick, vars
  <2> QED BY <2>1 DEF RobotsInv, CachedRules, PageNamed, PageJudged
<1> QED
  BY <1>1, <1>2, <1>3, <1>4, <1>5, <1>6, <1>7, <1>8, <1>9, <1>10, <1>11, <1>12,
     <1>13, <1>14 DEF Next

(* However old the cache is, a page whose address is checked is refused     *)
(* only if the robots.txt that was received of its site forbids it, and is  *)
(* asked for only if it does not: the reading of the file line by line and  *)
(* the choice of the longest rule (parse_robots_txt, RobotsRules::allows)   *)
(* say what the lines of the file say (fetch_page, robots_for).             *)
THEOREM RobotsAlwaysObeyed == Spec => []ObeysRobots
<1>1. RobotsInv => ObeysRobots
  <2> SUFFICES ASSUME RobotsInv, page.check, page.site \in DOMAIN served
               PROVE  /\ denied => Forbids(served[page.site], page.path)
                      /\ pc \in {"page slot", "page asked"} =>
                           ~Forbids(served[page.site], page.path)
    BY DEF ObeysRobots
  <2>1. /\ served[page.site] \in Seq(Line) /\ Len(page.path) \in Nat
        /\ cache[page.site] = ParseRobotsTxt(served[page.site])
    BY DEF RobotsInv, CachedRules, PageNamed
  <2>2. Allows(cache[page.site], page.path) <=> ~Forbids(served[page.site], page.path)
    BY <2>1, AllowsUnlessForbidden
  <2> QED BY <2>2 DEF RobotsInv, PageJudged
<1> QED BY <1>1, PoliteInit, PoliteNext, RobotsInit, RobotsNext, PTL DEF Spec

-----------------------------------------------------------------------------
(* A search.  While engines are tried, none had results and the others are  *)
(* still to try; from the first answer with results on, the results are its *)
(* first ones, and at is the one whose snippet is looked at.                *)
Trying == {"engine", "engine slot", "engine asked"}
Latest == answered[Len(answered)]
Listed(s) == \E E : s \in Seq(E)
Least(a, b) == IF a > b THEN b ELSE a
NoneAnswered ==
  /\ results = <<>> /\ \A i \in 1 .. Len(answered) : answered[i] = <<>>
  /\ Listed(engines) /\ Len(answered) + Len(engines) = Len(EnginesOf(search))
Told(r, l) == r.site = l.site /\ r.path = l.path /\ (l.snippet => r.snippet)
FirstAnswered ==
  /\ Len(answered) > 0 /\ Latest \in Seq(Result) /\ Latest # <<>>
  /\ \A i \in 1 .. Len(answered) - 1 : answered[i] = <<>>
  /\ Len(results) = Least(search.max, Len(Latest))
  /\ \A i \in 1 .. Len(results) : Told(results[i], Latest[i])
AnswersInv ==
  /\ answered \in Seq(Seq(Result)) /\ search.max \in Nat \ {0}
  /\ pc \in Trying => at = 0 /\ NoneAnswered
  /\ pc \in {"engine slot", "engine asked"} => engines # <<>>
  /\ pc = "idle" /\ at = 0 /\ search # NoSearch => NoneAnswered /\ engines = <<>>
  /\ pc \in Fetching /\ at = 0 => search = NoSearch
  /\ at # 0 => FirstAnswered
  /\ pc \in Fetching /\ at # 0 => at <= Len(results) /\ ~Latest[at].snippet

LEMMA NothingListed == Listed(<<>>) /\ Len(<<>>) = 0 /\ <<>> \in Seq(Seq(Result))
<1>1. <<>> \in Seq({})
  OBVIOUS
<1> QED BY <1>1 DEF Listed

LEMMA EnginesListed ==
  ASSUME NEW s
  PROVE  /\ Listed(EnginesOf(s)) /\ Len(EnginesOf(s)) \in Nat /\ Len(EnginesOf(s)) > 0
<1> DEFINE E == {"duckduckgo", "mojeek", "bing", "wikipedia", s.engine}
           all == <<"duckduckgo", "mojeek", "bing", "wikipedia">>
           one == <<s.engine>>
<1>1. all \in Seq(E) /\ Len(all) = 4
  OBVIOUS
<1>2. one \in Seq(E) /\ Len(one) = 1
  OBVIOUS
<1>3. EnginesOf(s) = all \/ EnginesOf(s) = one
  BY DEF EnginesOf
<1> HIDE DEF E, all, one
<1>4. Listed(all) /\ Listed(one)
  BY <1>1, <1>2 DEF Listed
<1>5. Len(all) \in Nat /\ Len(all) > 0 /\ Len(one) \in Nat /\ Len(one) > 0
  BY <1>1, <1>2
<1> QED BY <1>3, <1>4, <1>5

LEMMA TailListed ==
  ASSUME NEW s, Listed(s), s # <<>>
  PROVE  Listed(Tail(s)) /\ Len(s) \in Nat /\ Len(Tail(s)) = Len(s) - 1
BY DEF Listed

LEMMA AnsweredNext ==
  ASSUME NEW s \in Seq(Seq(Result)), NEW a \in Seq(Result)
  PROVE  /\ Append(s, a) \in Seq(Seq(Result)) /\ Len(s) \in Nat
         /\ Len(Append(s, a)) = Len(s) + 1 /\ Append(s, a)[Len(s) + 1] = a
         /\ \A i \in 1 .. Len(s) : Append(s, a)[i] = s[i]
OBVIOUS

LEMMA TruncatedIs ==
  ASSUME NEW rs \in Seq(Result), NEW max \in Nat
  PROVE  /\ Len(Truncated(rs, max)) = Least(max, Len(rs))
         /\ \A i \in 1 .. Len(Truncated(rs, max)) : Truncated(rs, max)[i] = rs[i]
<1>1. CASE Len(rs) > max
  BY <1>1 DEF Truncated, Least
<1>2. CASE ~(Len(rs) > max)
  <2>1. Truncated(rs, max) = rs
    BY <1>2 DEF Truncated
  <2> QED BY <1>2, <2>1 DEF Least
<1> QED BY <1>1, <1>2

(* What one looked at a snippet is told of a result besides is kept.        *)
LEMMA SnippetKeeps ==
  ASSUME NEW rs \in Seq(Result), NEW i \in 1 .. Len(rs), NEW ok \in BOOLEAN
  PROVE  /\ Len([rs EXCEPT ![i].snippet = ok]) = Len(rs)
         /\ \A k \in 1 .. Len(rs) : k # i => [rs EXCEPT ![i].snippet = ok][k] = rs[k]
         /\ [rs EXCEPT ![i].snippet = ok][i].site = rs[i].site
         /\ [rs EXCEPT ![i].snippet = ok][i].path = rs[i].path
<1>1. rs[i] \in Result
  OBVIOUS
<1>2. [rs[i] EXCEPT !.snippet = ok].site = rs[i].site
      /\ [rs[i] EXCEPT !.snippet = ok].path = rs[i].path
  BY <1>1 DEF Result
<1>3. [rs EXCEPT ![i].snippet = ok][i] = [rs[i] EXCEPT !.snippet = ok]
  OBVIOUS
<1> QED BY <1>2, <1>3

LEMMA NoSearchIs == NoSearch.max \in Nat \ {0}
<1>1. NoSearch.max = 1
  BY DEF NoSearch
<1> QED BY <1>1

(* No search has been made yet, or it is over.                              *)
LEMMA NoAnswers ==
  ASSUME pc \notin Trying, search = NoSearch, at = 0, answered = <<>>
  PROVE  AnswersInv
<1>1. search.max \in Nat \ {0}
  BY NoSearchIs
<1>2. answered \in Seq(Seq(Result))
  BY NothingListed
<1> QED BY <1>1, <1>2 DEF AnswersInv, Trying

LEMMA AnswersInit == Init => AnswersInv
BY NoAnswers DEF Init, Trying

(* The search is left as it is.                                             *)
LEMMA SearchLeft ==
  ASSUME AnswersInv, UNCHANGED <<search, engines, results, at, answered>>,
         \/ pc' = pc
         \/ pc \in Trying /\ pc' \in Trying /\ engines # <<>>
         \/ pc \in Fetching /\ pc' \in Fetching
  PROVE  AnswersInv'
BY DEF AnswersInv, NoneAnswered, FirstAnswered, Latest, Trying, Fetching

LEMMA ReturnedTells ==
  ASSUME PoliteInv, AnswersInv, pc \in Fetching, NEW ok \in BOOLEAN, Returned(ok),
         UNCHANGED <<search, engines, answered>>
  PROVE  AnswersInv'
<1>1. CASE at = 0
  BY <1>1 DEF Returned, AnswersInv, Trying, Fetching
<1>2. CASE at # 0
  <2>1. results \in Seq(Result) /\ at \in Nat /\ at > 0
    BY <1>2 DEF PoliteInv, TypePages
  <2>2. /\ results' = [results EXCEPT ![at].snippet = ok] /\ at' = at + 1
        /\ pc' = "snippets"
    BY <1>2 DEF Returned
  <2>3. FirstAnswered /\ at <= Len(results) /\ ~Latest[at].snippet
    BY <1>2, <2>1 DEF AnswersInv
  <2>4. at \in 1 .. Len(results)
    BY <2>1, <2>3
  <2>5. /\ Len(results') = Len(results)
        /\ \A k \in 1 .. Len(results) : k # at => results'[k] = results[k]
        /\ results'[at].site = results[at].site /\ results'[at].path = results[at].path
    BY <2>1, <2>2, <2>4, SnippetKeeps
  <2>6. FirstAnswered'
    <3>1. \A i \in 1 .. Len(results) : Told(results[i], Latest[i])
      BY <2>3 DEF FirstAnswered
    <3>2. \A i \in 1 .. Len(results) : Told(results'[i], Latest[i])
      BY <2>3, <2>5, <3>1 DEF Told
    <3>3. Latest' = Latest
      BY DEF Latest
    <3> QED BY <2>3, <2>5, <3>2, <3>3 DEF FirstAnswered
  <2>7. at' > 0 /\ at' # 0
    BY <2>1, <2>2
  <2> QED BY <2>2, <2>6, <2>7 DEF AnswersInv, Trying, Fetching
<1> QED BY <1>1, <1>2

LEMMA EngineTells ==
  ASSUME PoliteInv, AnswersInv, NEW answer \in Answers, EngineAnswers(answer)
  PROVE  AnswersInv'
<1>1. /\ pc = "engine asked" /\ answered' = Append(answered, answer)
      /\ UNCHANGED search /\ answer \in Seq(Result) /\ search.max \in Nat \ {0}
  BY PagesAssumption DEF EngineAnswers, AnswersInv
<1>2. at = 0 /\ NoneAnswered /\ engines # <<>>
  BY <1>1 DEF AnswersInv, Trying
<1>3. /\ answered' \in Seq(Seq(Result)) /\ Len(answered) \in Nat
      /\ Len(answered') = Len(answered) + 1 /\ answered'[Len(answered) + 1] = answer
      /\ \A i \in 1 .. Len(answered) : answered'[i] = answered[i]
  BY <1>1, AnsweredNext DEF AnswersInv
<1>4. \A i \in 1 .. Len(answered) : answered'[i] = <<>>
  BY <1>2, <1>3 DEF NoneAnswered
<1>5. CASE answer = <<>>
  <2>1. /\ engines' = Tail(engines) /\ pc' = "engine" /\ UNCHANGED <<results, at>>
    BY <1>5 DEF EngineAnswers, AfterNone
  <2>2. /\ Listed(engines') /\ Len(engines) \in Nat /\ Len(engines') = Len(engines) - 1
    BY <1>2, <2>1, TailListed DEF NoneAnswered
  <2>3. Len(answered') + Len(engines') = Len(answered) + Len(engines)
    BY <1>3, <2>2
  <2>4. \A i \in 1 .. Len(answered') : answered'[i] = <<>>
    <3>1. \A i \in 1 .. Len(answered') : i \in 1 .. Len(answered) \/ i = Len(answered) + 1
      BY <1>3
    <3> QED BY <1>3, <1>4, <1>5, <3>1
  <2>5. NoneAnswered'
    BY <1>1, <1>2, <2>1, <2>2, <2>3, <2>4 DEF NoneAnswered
  <2> QED BY <1>1, <1>2, <1>3, <2>1, <2>5 DEF AnswersInv, Trying, Fetching
<1>6. CASE answer # <<>>
  <2>1. /\ results' = Truncated(answer, search.max) /\ pc' = "snippets"
        /\ at' = IF search.snippets THEN 1 ELSE Len(results') + 1
    BY <1>6 DEF EngineAnswers
  <2>2. /\ Len(results') = Least(search.max, Len(answer))
        /\ \A i \in 1 .. Len(results') : results'[i] = answer[i]
    BY <1>1, <2>1, TruncatedIs
  <2>3. Len(answer) \in Nat
    <3>1. answer \in Seq(Result)
      BY <1>1
    <3> QED BY <3>1
  <2>4. at' > 0
    <3>1. Len(results') \in Nat
      BY <1>1, <2>2, <2>3 DEF Least
    <3> QED BY <2>1, <3>1
  <2>5. Latest' = answer
    BY <1>3 DEF Latest
  <2>6. Len(answered') - 1 = Len(answered) /\ Len(answered') > 0
    BY <1>3
  <2>7. FirstAnswered'
    BY <1>1, <1>4, <1>6, <2>2, <2>5, <2>6 DEF FirstAnswered, Told
  <2>8. at' # 0
    BY <2>4
  <2> QED BY <1>1, <1>3, <2>1, <2>4, <2>7, <2>8 DEF AnswersInv, Trying, Fetching
<1> QED BY <1>5, <1>6

LEMMA AnswersNext == PoliteInv /\ AnswersInv /\ [Next]_vars => AnswersInv'
<1> SUFFICES ASSUME PoliteInv, AnswersInv, [Next]_vars PROVE AnswersInv'
  OBVIOUS
<1>1. ASSUME NEW s \in Searches, WebSearch(s) PROVE AnswersInv'
  <2>1. /\ search' = s /\ engines' = EnginesOf(s) /\ results' = <<>>
        /\ answered' = <<>> /\ at' = 0 /\ pc' = "engine"
    BY <1>1 DEF WebSearch
  <2>2. s.max \in Nat \ {0}
    BY SearchesAssumption
  <2>3. /\ Listed(engines') /\ Len(answered') = 0
        /\ Len(answered') + Len(engines') = Len(EnginesOf(search'))
    BY <2>1, EnginesListed, NothingListed
  <2>4. \A i : i \notin 1 .. Len(answered')
    BY <2>3
  <2>5. NoneAnswered'
    BY <2>1, <2>3, <2>4 DEF NoneAnswered
  <2> QED BY <2>1, <2>2, <2>5, NothingListed DEF AnswersInv, Trying, Fetching
<1>2. CASE TryEngine \/ AskEngine
  BY <1>2, SearchLeft DEF TryEngine, AskEngine, Sends, AnswersInv, Trying
<1>3. CASE SearchFails
  BY <1>3 DEF SearchFails, AnswersInv, NoneAnswered, Trying, Fetching
<1>4. ASSUME NEW answer \in Answers, EngineAnswers(answer) PROVE AnswersInv'
  BY <1>4, EngineTells
<1>5. CASE FetchSnippet
  <2>1. /\ pc = "snippets" /\ at <= Len(results) /\ ~results[at].snippet
        /\ pc' = "fetch" /\ UNCHANGED <<search, engines, results, at, answered>>
    BY <1>5 DEF FetchSnippet
  <2>2. at \in Nat /\ at > 0 /\ Len(results) \in Nat
    BY <2>1 DEF PoliteInv, TypePages
  <2>3. FirstAnswered /\ at \in 1 .. Len(results)
    BY <2>1, <2>2 DEF AnswersInv
  <2>4. ~Latest[at].snippet
    BY <2>1, <2>3 DEF FirstAnswered, Told
  <2>5. FirstAnswered' /\ Latest' = Latest
    BY <2>1, <2>3 DEF FirstAnswered, Latest
  <2> QED BY <2>1, <2>2, <2>4, <2>5 DEF AnswersInv, Trying, Fetching
<1>6. CASE SkipSnippet
  <2>1. /\ pc = "snippets" /\ at' = at + 1
        /\ UNCHANGED <<pc, search, engines, results, answered>>
    BY <1>6 DEF SkipSnippet
  <2>2. at \in Nat /\ at > 0
    BY <2>1 DEF PoliteInv, TypePages
  <2>3. FirstAnswered' /\ at' > 0 /\ at' # 0
    BY <2>1, <2>2 DEF AnswersInv, FirstAnswered, Latest
  <2> QED BY <2>1, <2>3 DEF AnswersInv, Trying, Fetching
<1>7. CASE SearchEnds
  <2>1. /\ pc = "snippets" /\ pc' = "idle"
        /\ UNCHANGED <<search, engines, results, at, answered>>
    BY <1>7 DEF SearchEnds
  <2>2. at \in Nat /\ at > 0
    BY <2>1 DEF PoliteInv, TypePages
  <2>3. FirstAnswered' /\ at' > 0 /\ at' # 0
    BY <2>1, <2>2 DEF AnswersInv, FirstAnswered, Latest
  <2> QED BY <2>1, <2>3 DEF AnswersInv, Trying, Fetching
<1>8. ASSUME NEW p \in Fetches, FetchPage(p) PROVE AnswersInv'
  <2>1. /\ search' = NoSearch /\ at' = 0 /\ answered' = <<>> /\ pc' = "fetch"
    BY <1>8 DEF FetchPage
  <2>2. search'.max \in Nat \ {0}
    BY <2>1, NoSearchIs
  <2>3. answered' \in Seq(Seq(Result))
    BY <2>1, NothingListed
  <2> QED BY <2>1, <2>2, <2>3 DEF AnswersInv, Trying
<1>9. CASE RobotsFor \/ RobotsMissing \/ WaitForPage \/ AskPage
  BY <1>9, SearchLeft
  DEF RobotsFor, RobotsMissing, WaitForPage, AskPage, Sends, Fetching
<1>10. ASSUME pc = "robots", NEW body, RobotsAnswered(body) PROVE AnswersInv'
  BY <1>10, SearchLeft DEF RobotsAnswered, Fetching
<1>11. CASE DenyPage
  BY <1>11, ReturnedTells DEF DenyPage, Fetching
<1>12. ASSUME NEW ok \in BOOLEAN, PageAnswered(ok) PROVE AnswersInv'
  BY <1>12, ReturnedTells DEF PageAnswered, Fetching
<1>13. CASE Tick \/ UNCHANGED vars
  <2>1. UNCHANGED <<pc, search, engines, results, at, answered>>
    BY <1>13 DEF Tick, vars
  <2> QED BY <2>1, SearchLeft
<1> QED
  BY <1>1, <1>2, <1>3, <1>4, <1>5, <1>6, <1>7, <1>8, <1>9, <1>10, <1>11, <1>12,
     <1>13 DEF Next

(* web_search returns what the first engine that had results answered, up   *)
(* to max_results and with its own snippets, whatever the pages that were   *)
(* fetched for the missing ones did; and nothing only if every engine of    *)
(* the list was tried and had nothing.                                      *)
THEOREM SearchAlwaysAnswers == Spec => []SearchAnswers
<1>1. PoliteInv /\ AnswersInv => SearchAnswers
  <2> SUFFICES ASSUME PoliteInv, AnswersInv, pc = "idle", search # NoSearch
               PROVE  /\ \A i \in 1 .. Len(answered) - 1 : answered[i] = <<>>
                      /\ Latest = <<>> =>
                           results = <<>> /\ Len(answered) = Len(EnginesOf(search))
                      /\ Latest # <<>> =>
                           /\ Len(results) = Min({search.max, Len(Latest)})
                           /\ \A i \in DOMAIN results :
                                /\ results[i].site = Latest[i].site
                                /\ results[i].path = Latest[i].path
                                /\ Latest[i].snippet => results[i].snippet
    BY DEF SearchAnswers, Latest
  <2>1. results \in Seq(Result) /\ at \in Nat
    BY DEF PoliteInv, TypePages
  <2>2. CASE at = 0
    <3>1. NoneAnswered /\ engines = <<>> /\ Len(answered) \in Nat
      BY <2>2 DEF AnswersInv
    <3>2. Len(answered) = Len(EnginesOf(search)) /\ Len(answered) > 0
      BY <3>1, NothingListed, EnginesListed DEF NoneAnswered
    <3>3. Latest = <<>> /\ \A i \in 1 .. Len(answered) - 1 : answered[i] = <<>>
      BY <3>1, <3>2 DEF NoneAnswered, Latest
    <3> QED BY <3>1, <3>2, <3>3 DEF NoneAnswered
  <2>3. CASE at > 0
    <3>1. FirstAnswered
      BY <2>3 DEF AnswersInv
    <3>2. search.max \in Nat /\ Len(Latest) \in Nat
      BY <3>1 DEF AnswersInv, FirstAnswered
    <3>3. Min({search.max, Len(Latest)}) = Least(search.max, Len(Latest))
      BY <3>2 DEF Min, Least
    <3>4. DOMAIN results = 1 .. Len(results)
      BY <2>1
    <3> QED BY <3>1, <3>3, <3>4 DEF FirstAnswered, Told
  <2> QED BY <2>1, <2>2, <2>3
<1> QED BY <1>1, PoliteInit, PoliteNext, AnswersInit, AnswersNext, PTL DEF Spec
=============================================================================
