----------------------------- MODULE TextSearch -----------------------------
(***************************************************************************)
(* The streaming phrase search of src/src/search-text-stream.js.  A text   *)
(* arrives in parts cut anywhere; white space is collapsed across the cuts *)
(* and only a window of the text is kept.  What the search reports must be *)
(* what a search of the whole text in memory would report.                 *)
(*                                                                         *)
(* Positions are those of the collapsed text, from 0.  Letters stand for   *)
(* code units that differ even when case is ignored.                       *)
(***************************************************************************)
EXTENDS Integers, Sequences, SequencesExt, FiniteSetsExt

CONSTANTS
    Letter,
    Space,      \* any of the characters \s matches
    Phrases,    \* the queries, trimmed and collapsed
    MaxPart,    \* bound on the length of a part
    MaxText,    \* bound on the length of the text
    Before,     \* code units shown before the first match (80)
    After       \* code units shown from the first match on (180)

ASSUME TextAssumption ==
    /\ Space \notin Letter
    /\ Phrases \subseteq Seq(Letter \cup {Space}) \ {<<>>}
    /\ MaxPart \in Nat /\ MaxText \in Nat /\ Before \in Nat /\ After \in Nat

VARIABLES
    phrase,
    buffer, base,       \* the window of the text, and where it starts
    nextStart,          \* no match starts before this position but those counted
    count, first,       \* the matches, and the first one (-1: none)
    endedInWhitespace,
    snippet,            \* NoSnippet until it is complete
    seen,               \* history: the parts so far, put together
    finished

searchVars == <<phrase, buffer, base, nextStart, count, first, endedInWhitespace, snippet,
          seen, finished>>

Text == Seq(Letter \cup {Space})

NoSnippet == [complete |-> FALSE]
Snippet == [complete: {TRUE}, cutBefore: BOOLEAN, text: Text, cutAfter: BOOLEAN]

SearchTypeOK ==
    /\ phrase \in Phrases
    /\ buffer \in Text /\ base \in Nat
    /\ nextStart \in Nat /\ count \in Nat /\ first \in Nat \cup {-1}
    /\ endedInWhitespace \in BOOLEAN
    /\ snippet \in Snippet \cup {NoSnippet}
    /\ seen \in Text
    /\ finished \in BOOLEAN

-----------------------------------------------------------------------------
(* Texts *)

\* text.replace(/\s+/g, ' ')
Collapse(s) ==
    FoldLeft(LAMBDA t, c : IF c = Space /\ t # <<>> /\ Last(t) = Space
                           THEN t ELSE Append(t, c), <<>>, s)

Larger(a, b) == IF a > b THEN a ELSE b
Smaller(a, b) == IF a < b THEN a ELSE b

\* s.slice(from, to)
Slice(s, from, to) == SubSeq(s, from + 1, Smaller(to, Len(s)))

\* s.trim(), of a collapsed text
Trim(s) ==
    LET front == IF s # <<>> /\ Head(s) = Space THEN Tail(s) ELSE s
    IN  IF front # <<>> /\ Last(front) = Space THEN Front(front) ELSE front

\* Where the phrase starts in s, s starting at position offset.
Starts(s, offset) ==
    {k \in offset..(offset + Len(s) - Len(phrase)) :
        Slice(s, k - offset, k - offset + Len(phrase)) = phrase}

Following(starts, k) == {m \in starts : m >= k}

\* From each position on, those of the starts that are found one after the
\* other, when what begins at a start is size long.
Exec(starts, size) ==
    LET find[k \in Nat] ==
            IF Following(starts, k) = {} THEN <<>>
            ELSE LET m == Min(Following(starts, k)) IN <<m>> \o find[m + size]
    IN  find

\* The matches of the phrase that regex.exec finds from position i on.
MatchesIn(s, offset, i) == Exec(Starts(s, offset), Len(phrase))[i]

-----------------------------------------------------------------------------
(* scan(final), with the buffer b *)

\* Faulty variant: the overlap of two windows is one unit too short.
OverlapTooShort(end) == end - Len(phrase) + 2

\* A match that is not in the window yet starts here or later.
Overlap(end) == end - Len(phrase) + 1

\* Faulty variant: the window forgets nothing.
RetainAll(start, at, complete) == base

\* Where the next window starts.
RetainFrom(start, at, complete) ==
    LET forMatches == Larger(0, start - Before)
    IN  IF at >= 0 /\ ~complete
        THEN Smaller(forMatches, Larger(0, at - Before)) ELSE forMatches

\* All that the snippet shows has been seen.
Shown(at, end, final) ==
    at >= 0 /\ snippet = NoSnippet /\ (final \/ end > at + After)

SnippetOf(b, offset, at, end) ==
    LET start == Larger(0, at - Before)
        stop  == Smaller(end, at + After)
    IN  [complete |-> TRUE, cutBefore |-> start > 0,
         text |-> Trim(Slice(b, start - offset, stop - offset)),
         cutAfter |-> stop < end]

Scan(b, final) ==
    LET end     == base + Len(b)
        found   == MatchesIn(b, base, nextStart)
        at      == IF first < 0 /\ found # <<>> THEN Head(found) ELSE first
        behind  == IF found = <<>> THEN nextStart ELSE Last(found) + Len(phrase)
        start   == Larger(behind, Overlap(end))
        shown   == IF Shown(at, end, final) THEN SnippetOf(b, base, at, end) ELSE snippet
        retain  == RetainFrom(start, at, shown # NoSnippet)
    IN  /\ count' = count + Len(found)
        /\ first' = at
        /\ nextStart' = start
        /\ snippet' = shown
        /\ buffer' = Slice(b, retain - base, Len(b))
        /\ base' = retain

-----------------------------------------------------------------------------

\* The part without the white space the text before it has ended in.
Normalized(source) ==
    LET collapsed == Collapse(source)
    IN  IF endedInWhitespace /\ Head(collapsed) = Space
        THEN Tail(collapsed) ELSE collapsed

\* One part, or one slice of PART_CODE_UNITS of it.
Part(source) ==
    /\ ~finished
    /\ seen' = seen \o source
    /\ endedInWhitespace' = (Last(source) = Space)
    /\ Scan(buffer \o Normalized(source), FALSE)
    /\ UNCHANGED <<phrase, finished>>

Finish ==
    /\ ~finished
    /\ finished' = TRUE
    /\ Scan(buffer, TRUE)
    /\ UNCHANGED <<phrase, endedInWhitespace, seen>>

SearchInit ==
    /\ phrase \in Phrases
    /\ buffer = <<>> /\ base = 0 /\ nextStart = 0
    /\ count = 0 /\ first = -1
    /\ endedInWhitespace = FALSE
    /\ snippet = NoSnippet
    /\ seen = <<>>
    /\ finished = FALSE

Parts == UNION {[1..n -> Letter \cup {Space}] : n \in 1..Smaller(MaxPart, MaxText - Len(seen))}

SearchNext ==
    \/ \E source \in Parts : Part(source)
    \/ Finish

SearchSpec == SearchInit /\ [][SearchNext]_searchVars

-----------------------------------------------------------------------------
(* Properties *)

Whole == Collapse(seen)

\* Neither the number of matches nor the snippet, the surroundings of the first
\* match in the whole text, depends on where the text was cut, though white
\* space is collapsed part by part and the window moves on.
MatchExact ==
    finished =>
        LET found == MatchesIn(Whole, 0, 0)
        IN  /\ count = Len(found)
            /\ snippet = IF found = <<>> THEN NoSnippet
                         ELSE SnippetOf(Whole, 0, Head(found), Len(Whole))

\* Between two parts the window is no longer than a snippet or the overlap of
\* two windows, however long the text and its runs of white space are.
WindowBounded ==
    Len(buffer) <= Before + Larger(Len(phrase) - 1, After)

=============================================================================
