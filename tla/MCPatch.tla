------------------------------ MODULE MCPatch ------------------------------
(***************************************************************************)
(* An instance of Patch: texts of repeated and blank lines, one line that  *)
(* differs from another by its indentation only, lines with a carriage     *)
(* return at their end or inside, lines that look like a header when they  *)
(* are removed or added, and texts beyond the bound of a diff.             *)
(***************************************************************************)
EXTENDS Patch

Returns == {"\r", "a\r", "a\rb"}
MCLines == {"", "a", " a", "b", "ab", "-- c", "++ d", "*** End Patch"} \cup Returns
MCTrim  == [l \in MCLines |-> CASE l = " a" -> "a" [] l = "a\r" -> "a"
                                [] l = "\r" -> ""  [] OTHER -> l]
MCChop  == [l \in MCLines |-> CASE l = "a\r" -> "a" [] l = "\r" -> "" [] OTHER -> l]
MCBare  == [l \in MCLines |-> IF l = "a\rb" THEN "ab" ELSE MCChop[l]]

Of(S, n)  == UNION {[1 .. k -> S] : k \in 1 .. n}
Small     == Of({"", "a", " a", "-- c", "++ d"}, 2)
Returning == Of({"a", "b", "ab"} \cup Returns, 2)
Marking   == Of({"a", "*** End Patch"}, 2)
Long      == {t \o <<"">> : t \in [1 .. 6 -> {"a", "b"}]}
Beyond    == {<<"a", x, "b", "a", "b", "a">> \o y :
                x \in {"a", "b"}, y \in {<<"">>, <<"a", "">>, <<"b", "">>}}
Pairs(S)  == {[before |-> s, after |-> t] : s, t \in S}
MCEdits   == {e \in UNION {Pairs(S) : S \in {Small, Returning, Marking, Long, Beyond}} :
                e.before # e.after}
MCDrifts  == {<<"a">>, <<"b", "a\r">>, <<"a", "">>}
=============================================================================
