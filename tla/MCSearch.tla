------------------------------ MODULE MCSearch ------------------------------
(***************************************************************************)
(* An instance of Search for TLC: two sites, one of which is also that of  *)
(* an engine; every robots.txt of up to three lines for the other.         *)
(***************************************************************************)
EXTENDS Search, TLC

Wiki  == "en.wikipedia.org"
Other == "example.org"
Root  == <<"/">>
Deep  == <<"/", "a">>

Agent(a)      == [field |-> "user-agent", agent |-> a, path |-> <<>>]
Rules(f)      == {[field |-> f, agent |-> "", path |-> p] : p \in {Root, Deep}}
Lines         == {Agent("*"), Agent("zilla"), Agent("other"),
                  [field |-> "disallow", agent |-> "", path |-> <<>>]}
                   \cup Rules("disallow") \cup Rules("allow")

MCRobots ==
  Wiki :> {<<Agent("*"), [field |-> "disallow", agent |-> "", path |-> Deep]>>}
    @@ Other :> UNION {[1 .. n -> Lines] : n \in 0 .. 3}

Found(site, path, snippet) == [site |-> site, path |-> path, snippet |-> snippet]
MCAnswers ==
  {<<>>,
   <<Found(Wiki, Root, FALSE), Found(Other, Deep, FALSE), Found(Wiki, Deep, TRUE)>>}
MCSearches ==
  {[engine |-> "auto", max |-> 3, snippets |-> TRUE],
   [engine |-> "wikipedia", max |-> 2, snippets |-> FALSE]}
MCFetches ==
  {[site |-> Other, path |-> Deep, check |-> c] : c \in BOOLEAN}
    \cup {[site |-> Wiki, path |-> Root, check |-> TRUE]}
=============================================================================
