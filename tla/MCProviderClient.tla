-------------------------- MODULE MCProviderClient --------------------------
(***************************************************************************)
(* Two paragraphs, and reports that keep, remove, add or change characters *)
(* of the text; drafts and verdicts in which at most one thing is wrong    *)
(* per row.                                                                *)
(***************************************************************************)
EXTENDS ProviderClient

Characters == {"a", "b", "c", "d", Space}
TwoParagraphs == <<<<"a", Space, "b">>, <<"c">>>>

Texts ==
  {<<"a", Space, "b", Space, Space, "c">>,
   <<"a", Space, "b", Space, "c">>,
   <<"a", "b", "c">>,
   <<"a", Space, Space, "b", Space, Space, Space, "c">>,
   <<Space, "a", Space, "b", "c", Space>>,
   <<"a", Space, "b", Space, Space, "d">>,
   <<Space, Space>>}

Ranges(text) == {[start |-> s, end |-> e, risk |-> r, exact |-> x] :
  s \in -1..Len(text), e \in 0..(Len(text) + 1), r \in BOOLEAN, x \in BOOLEAN}
Quotes(text) == {w \in Ranges(text) : InRange(text, w) /\ w.exact}

\* Any window, or two quotes of the text of which one is risky.
Pairs(text) == {<<v, w>> \in Quotes(text) \X Quotes(text) : w.risk}
ReportsOf(text) ==
  {[text |-> text, windows |-> ws, sound |-> TRUE] :
     ws \in {<<>>} \cup {<<w>> : w \in Ranges(text)} \cup Pairs(text)}
SmallReports ==
  {[text |-> <<"a">>, windows |-> <<>>, sound |-> FALSE]} \cup UNION {ReportsOf(t) : t \in Texts}

Rows == [id : 1..3, valid : BOOLEAN, kept : BOOLEAN, changed : BOOLEAN]
SmallDrafts == UNION {[1..n -> Rows] : n \in 0..2}

Fine(i) == [id |-> i, approved |-> TRUE, meaning |-> TRUE, facts |-> "none",
            protected |-> TRUE, issues |-> TRUE]
Items == UNION {
  {Fine(i), [Fine(i) EXCEPT !.approved = FALSE], [Fine(i) EXCEPT !.meaning = FALSE],
   [Fine(i) EXCEPT !.facts = "added"], [Fine(i) EXCEPT !.facts = "absent"],
   [Fine(i) EXCEPT !.protected = FALSE], [Fine(i) EXCEPT !.issues = FALSE]} : i \in 1..3}
SmallVerdicts == UNION {[1..n -> Items] : n \in 0..2}
=============================================================================
