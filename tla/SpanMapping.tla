---------------------------- MODULE SpanMapping ----------------------------
(***************************************************************************)
(* How Pangram's windows over the text it analysed become spans of the     *)
(* paragraphs it was sent (detectors.py): pure operators.                  *)
(*                                                                         *)
(* A text is a sequence of characters; every white space is Space.  A      *)
(* boundary b of a text lies after its first b characters, and the range   *)
(* of a window is the characters between two boundaries, text[start:end].  *)
(* A window says whether it is risky (any label but "Human Written") and   *)
(* whether the text it quotes is the one in its range.  Windows and spans  *)
(* are sorted in the code; nothing here depends on their order.            *)
(***************************************************************************)
EXTENDS Integers, Sequences, FiniteSets

Space == " "

\* The characters that are not white space and their positions, in order: up to the
\* k-th of them there are k.
ContentCount(text, b) == Cardinality({i \in 1..b : text[i] # Space})
ContentAt(text) ==
  [k \in 1..ContentCount(text, Len(text)) |->
     CHOOSE i \in 1..Len(text) : text[i] # Space /\ ContentCount(text, i) = k]
Content(text) == LET at == ContentAt(text) IN [k \in DOMAIN at |-> text[at[k]]]

Slice(text, range) == SubSeq(text, range.start + 1, range.end)
InRange(text, range) == 0 <= range.start /\ range.start < range.end /\ range.end <= Len(text)
Apart(r1, r2) == r1.end <= r2.start \/ r2.end <= r1.start
Disjoint(windows) ==
  \A i, j \in DOMAIN windows : i # j => Apart(windows[i], windows[j])

WindowsValid(text, windows) ==
  /\ \A i \in DOMAIN windows : InRange(text, windows[i]) /\ windows[i].exact
  /\ Disjoint(windows)

-----------------------------------------------------------------------------
(* The boundary map.  Pangram may change white space, and nothing else.    *)

Normalized(original, returned) ==
  \/ returned = original
  \/ Content(returned) # <<>> /\ Content(returned) = Content(original)

\* Python's round of n / d: to the nearest, a half to the even one.
Round(n, d) ==
  LET q == n \div d
      r == n % d
  IN  IF 2 * r > d \/ (2 * r = d /\ q % 2 = 1) THEN q + 1 ELSE q

\* The white space after the k-th character: its first and its last boundary.
GapStart(text, k) == IF k = 0 THEN 0 ELSE ContentAt(text)[k]
GapEnd(text, k) ==
  IF k = ContentCount(text, Len(text)) THEN Len(text) ELSE ContentAt(text)[k + 1] - 1

\* A boundary before a character maps to the one before the same character;
\* within the white space after k characters it is placed in proportion.
BoundaryMap(original, returned) ==
  LET Mapped(b) ==
        LET k == ContentCount(returned, b)
            from    == GapStart(returned, k)
            to      == GapEnd(returned, k)
            oldFrom == GapStart(original, k)
            oldTo   == GapEnd(original, k)
        IN  IF b = to
            THEN oldTo
            ELSE oldFrom + Round((b - from) * (oldTo - oldFrom), to - from)
  IN  IF returned = original
      THEN [b \in 0..Len(original) |-> b]
      ELSE [b \in 0..Len(returned) |-> Mapped(b)]

Remap(original, returned, windows) ==
  LET map == BoundaryMap(original, returned)
  IN  [i \in DOMAIN windows |->
         [windows[i] EXCEPT !.start = map[@], !.end = map[@]]]

\* _remap_normalized_windows raises unless the text marked is still the same.
RemapSafe(original, returned, windows) ==
  LET old == Remap(original, returned, windows)
  IN  /\ \A i \in DOMAIN windows :
           /\ InRange(original, old[i])
           /\ Content(Slice(original, old[i])) = Content(Slice(returned, windows[i]))
      /\ Disjoint(old)

-----------------------------------------------------------------------------
(* The paragraphs, joined by two line ends.                                *)

\* Fault: the second line end between two paragraphs is forgotten.
OffsetShort(paragraphs) ==
  LET offset[p \in 1..(Len(paragraphs) + 1)] ==
        IF p = 1 THEN 0 ELSE offset[p - 1] + Len(paragraphs[p - 1]) + 1
  IN  offset
Offset(paragraphs) ==
  LET offset[p \in 1..(Len(paragraphs) + 1)] ==
        IF p = 1 THEN 0 ELSE offset[p - 1] + Len(paragraphs[p - 1]) + 2
  IN  offset

DocumentText(paragraphs) ==
  LET text[p \in 0..Len(paragraphs)] ==
        CASE p = 0 -> <<>>
          [] p = 1 -> paragraphs[1]
          [] OTHER -> text[p - 1] \o <<Space, Space>> \o paragraphs[p]
  IN  text[Len(paragraphs)]

Larger(a, b)  == IF a > b THEN a ELSE b
Smaller(a, b) == IF a < b THEN a ELSE b

\* The part of paragraph p that a window marks; empty if start >= end.
Overlap(paragraphs, window, p) ==
  LET first == Offset(paragraphs)[p]
  IN  [paragraph |-> p,
       start |-> Larger(window.start, first) - first,
       end   |-> Smaller(window.end, first + Len(paragraphs[p])) - first]

WindowSpans(paragraphs, window) ==
  {s \in {Overlap(paragraphs, window, p) : p \in DOMAIN paragraphs} : s.start < s.end}

Risky(windows) == {windows[i] : i \in {j \in DOMAIN windows : windows[j].risk}}

Spans(paragraphs, windows) ==
  UNION {WindowSpans(paragraphs, w) : w \in Risky(windows)}

\* What detect makes of a completed task's text and windows: the conditions
\* under which it raises range_mismatch, and the spans otherwise.
Mappable(paragraphs, report) ==
  LET text == DocumentText(paragraphs)
  IN  /\ Normalized(text, report.text)
      /\ WindowsValid(report.text, report.windows)
      /\ RemapSafe(text, report.text, report.windows)
      /\ \A w \in Risky(Remap(text, report.text, report.windows)) :
           WindowSpans(paragraphs, w) # {}

ReportSpans(paragraphs, report) ==
  Spans(paragraphs, Remap(DocumentText(paragraphs), report.text, report.windows))

-----------------------------------------------------------------------------
(* The reference: a character is known by its number among those that are  *)
(* not white space, which no normalisation changes.                        *)

MarkedByProvider(report) ==
  LET at == ContentAt(report.text)
  IN  {k \in DOMAIN at : \E w \in Risky(report.windows) : w.start < at[k] /\ at[k] <= w.end}

MarkedHere(paragraphs, spans) ==
  LET before[p \in 1..(Len(paragraphs) + 1)] ==
        IF p = 1 THEN 0 ELSE before[p - 1] + Len(Content(paragraphs[p - 1]))
  IN  UNION {{before[s.paragraph] + ContentCount(paragraphs[s.paragraph], i) :
                i \in {j \in (s.start + 1)..s.end : paragraphs[s.paragraph][j] # Space}} :
             s \in spans}
=============================================================================
