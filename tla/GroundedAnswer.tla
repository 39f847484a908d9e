--------------------------- MODULE GroundedAnswer ---------------------------
(***************************************************************************)
(* What is accepted of the answer a model gives (generation/service.py).   *)
(* The server cuts every cited chunk into scopes, and a claim has to be    *)
(* worded as one scope of each citation is; a comparison of two years has  *)
(* to follow from figures that stand beside their years; alternatives of a *)
(* conflict must share everything but a value.  One claim that fails       *)
(* refuses the whole answer.                                               *)
(*                                                                         *)
(* A text is a sequence of tokens: words, marks of punctuation, and        *)
(* figures, each a token with a value.  The tables of words are samples of *)
(* those in the code, one word or two for each of their uses.              *)
(***************************************************************************)
EXTENDS Integers, FiniteSets, SequencesExt

CONSTANTS
    Context,        \* the chunks of the request, in the order of their labels
    VersionCited,   \* the document version of each
    Wordings,       \* what a model may claim in the words of excerpts, which are
                    \* given by their chunk and their ends
    Bases,          \* the excerpts it may draw conclusions from
    Comparisons,    \* what it may claim to follow
    Disputes,       \* the topics it may give to a conflict
    MaxClaims,
    LinkLimit       \* how far a year may stand from its figure

-----------------------------------------------------------------------------

Stopwords == {"the", "is", "was", "of", "for", "to", "and", "on", "through"}
Prepositions == {"of", "for", "to", "and", "on", "through"}
Hedges == {"about", "over"}
Weighty == {"not", "may"} \cup Hedges
Predicates == {"is", "was"}
Turns == {"but", "while"}
Abbreviations == {"inc"}
Proper == {"acme", "beta"}
Punctuation == {".", ";", ","}

Amount(v, unit, negative) ==
    [value |-> IF negative THEN 0 - v ELSE v, unit |-> unit, accounting |-> negative]
Quantity ==
    [five |-> Amount(5, "M", FALSE), six |-> Amount(6, "M", FALSE),
     seven |-> Amount(7, "M", FALSE), loss |-> Amount(5, "M", TRUE),
     fifth |-> Amount(5, "k", FALSE)]
FiscalYear == [fy23 |-> 23, fy24 |-> 24]
Dates == {"may1"}
Figures == DOMAIN Quantity \cup DOMAIN FiscalYear \cup Dates

WordsOf(text) == SelectSeq(text, LAMBDA w : w \notin Punctuation)
ContentOf(text) == SelectSeq(text, LAMBDA w : w \notin Punctuation \cup Stopwords)
HasAny(text, words) == \E i \in DOMAIN text : text[i] \in words
Lowest(S) == CHOOSE i \in S : \A j \in S : i <= j
Highest(S) == CHOOSE i \in S : \A j \in S : j <= i

-----------------------------------------------------------------------------

(* Where the scope begins that holds a token.  A full stop or a semicolon  *)
(* ends one, and a word like "but" begins one, though not after a comma if *)
(* something before it qualifies what is said (_scope_spans).              *)
ScopeStart(text) ==
    LET ends(i) == text[i] = ";" \/ (text[i] = "." /\ (i > 1 => text[i - 1] \notin Abbreviations))
        start[i \in DOMAIN text] ==
            IF i = 1 \/ ends(i - 1) THEN i
            ELSE IF /\ text[i] \in Turns
                    /\ \/ text[i - 1] # ","
                       \/ ~HasAny(SubSeq(text, start[i - 1], i - 1), Weighty)
                 THEN i
            ELSE start[i - 1]
    IN start

ScopesOf(text) ==
    LET start == ScopeStart(text)
        members(a) == {i \in DOMAIN text : start[i] = a}
    IN {[from |-> a, to |-> Highest(members(a))] : a \in ToSet(start)}

(* The scopes an excerpt touches.  It has to be in its chunk exactly once. *)
Occurs(text, words) ==
    {i \in 1..(Len(text) - Len(words) + 1) : SubSeq(text, i, i + Len(words) - 1) = words}
CitedScopes(quote) ==
    LET text == Context[quote.chunk]
    IN IF Occurs(text, SubSeq(text, quote.from, quote.to)) # {quote.from} THEN {}
       ELSE {SubSeq(text, s.from, s.to) :
                s \in {s \in ScopesOf(text) : quote.from <= s.to /\ s.from <= quote.to}}

-----------------------------------------------------------------------------

(* The first place for each word behind the place of the word before it;   *)
(* behind the end where there is none (_ordered_subsequence_positions).    *)
WordPlaces(said, words) ==
    LET place[k \in 0..Len(said)] ==
            IF k = 0 THEN 0
            ELSE LET later == {i \in (place[k - 1] + 1)..Len(words) : words[i] = said[k]}
                 IN IF later = {} THEN Len(words) + 1 ELSE Lowest(later)
    IN place

\* A mutant: what stands before and behind the words is not looked at.
EdgesDropped(claim, words, first, last) == TRUE

(* A date may be left out in front, and a year or the means behind.        *)
SafeLead(words) == \E d \in Dates : words = <<"on", d>>
SafeTail(words) ==
    \/ \E y \in DOMAIN FiscalYear : words = <<"for", y>>
    \/ IsPrefix(<<"through", "mechanisms", "of">>, words) /\ Len(words) > 3
EdgesKept(claim, words, first, last) ==
    LET content == {i \in DOMAIN claim : claim[i] \notin Stopwords}
        lead == SubSeq(claim, 1, Lowest(content) - 1)
        tail == SubSeq(claim, Highest(content) + 1, Len(claim))
        before == SubSeq(words, 1, first - 1)
        behind == SubSeq(words, last + 1, Len(words))
    IN /\ lead = before \/ (lead = <<>> /\ SafeLead(before))
       /\ tail = behind \/ (tail = <<>> /\ SafeTail(behind))

(* Between two words nothing may be left out but the end of a heading: a   *)
(* word, a fiscal year, and the word the claim begins with.                *)
IsHeading(gap, said) ==
    Len(gap) = 3 /\ gap[2] \in DOMAIN FiscalYear /\ gap[3] = said[1]

Signature(words, first, last) ==
    LET weighty(w) == w \in Weighty
    IN SelectSeq(SubSeq(words, 1, first - 1), weighty)
       \o SelectSeq(SubSeq(words, first, last), LAMBDA w : w \in Weighty \cup Prepositions)
       \o SelectSeq(SubSeq(words, last + 1, Len(words)), weighty)

Between(text, links) ==
    \E i \in 1..(Len(text) - 2) :
        /\ {text[i], text[i + 2]} \subseteq DOMAIN Quantity
        /\ text[i + 1] \in links
IsRange(text) == Between(text, {"to"})
IsPair(text) == Between(text, {"and", "or"})

(* A figure stands behind the two words it stands behind in the source, or *)
(* before them if the claim begins with it (_literal_anchor).              *)
PlainWords(words) == SelectSeq(words, LAMBDA w : w \notin Stopwords \cup Figures)
AnchorBefore(words, i) ==
    LET plain == PlainWords(SubSeq(words, 1, i - 1))
    IN SubSeq(plain, IF Len(plain) > 1 THEN Len(plain) - 1 ELSE 1, Len(plain))
AnchorBehind(words, i) ==
    LET plain == PlainWords(SubSeq(words, i + 1, Len(words)))
    IN SubSeq(plain, 1, IF Len(plain) > 1 THEN 2 ELSE Len(plain))
FigureStays(said, k, words, i) ==
    IF AnchorBefore(said, k) # <<>> THEN AnchorBefore(words, i) = AnchorBefore(said, k)
    ELSE /\ AnchorBehind(said, k) # <<>>
         /\ AnchorBehind(words, i) = AnchorBehind(said, k)

(* _scope_supports_sourced_claim *)
Supports(claim, scope) ==
    LET said == ContentOf(claim)
        words == WordsOf(scope)
        place == WordPlaces(said, words)
        last == place[Len(said)]
    IN /\ said # <<>> /\ last <= Len(words)
       /\ EdgesKept(WordsOf(claim), words, place[1], last)
       /\ \A k \in 1..(Len(said) - 1) :
              LET gap == ContentOf(SubSeq(words, place[k] + 1, place[k + 1] - 1))
              IN gap = <<>> \/ IsHeading(gap, said)
       /\ Signature(WordsOf(claim), 1, Len(WordsOf(claim))) = Signature(words, place[1], last)
       /\ IsRange(claim) = IsRange(scope) /\ IsPair(claim) = IsPair(scope)
       /\ \A k \in DOMAIN said : said[k] \in Figures => FigureStays(said, k, words, place[k])

(* Each cited chunk has to support the claim by a scope of its own.        *)
IsSourced(claim, evidence) ==
    /\ evidence # {} /\ \A q \in evidence : CitedScopes(q) # {}
    /\ \A k \in {q.chunk : q \in evidence} :
           \E q \in evidence : q.chunk = k /\ \E s \in CitedScopes(q) : Supports(claim, s)

-----------------------------------------------------------------------------

(* The year of a figure: the only one that stands behind it and before the *)
(* next figure, or, for the first figure, before it (_linked_year).        *)
AmountsIn(t) == {i \in DOMAIN t : t[i] \in DOMAIN Quantity}
YearPlaces(t, q) ==
    LET later == {i \in AmountsIn(t) : i > q}
        next == IF later = {} THEN Len(t) + 1 ELSE Lowest(later)
        isFirst == \A i \in AmountsIn(t) : i >= q
        near(a, b) == b - a <= LinkLimit /\ ~HasAny(SubSeq(t, a, b), {".", ";"})
    IN {y \in DOMAIN t : /\ t[y] \in DOMAIN FiscalYear
                         /\ \/ q < y /\ y < next /\ near(q, y)
                            \/ isFirst /\ y < q /\ near(y, q)}
YearPlace(t, q) ==
    LET behind == {y \in YearPlaces(t, q) : y > q}
    IN IF behind # {} THEN Lowest(behind) ELSE Highest(YearPlaces(t, q))

(* The figures with a year, each with the part of the scope that is about  *)
(* it: up to the next separator from the figures beside it.                *)
Separators == {",", ";", "and", "but", "while"}
Observations(t) ==
    LET linked == {q \in AmountsIn(t) :
                      Cardinality({FiscalYear[t[y]] : y \in YearPlaces(t, q)}) = 1}
        begins(q) == IF YearPlace(t, q) < q THEN YearPlace(t, q) ELSE q
        ends(q) == IF YearPlace(t, q) < q THEN q ELSE YearPlace(t, q)
        separators(a, b) == {i \in a..b : t[i] \in Separators}
        from(q) ==
            LET earlier == {p \in linked : p < q}
                after == ends(Highest(earlier)) + 1
            IN IF earlier = {} THEN 1
               ELSE Highest({after} \cup {i + 1 : i \in separators(after, begins(q) - 1)})
        to(q) ==
            LET later == {p \in linked : p > q}
                before == begins(Lowest(later)) - 1
            IN IF later = {} THEN Len(t)
               ELSE Lowest({before} \cup {i - 1 : i \in separators(ends(q) + 1, before)})
        bound(q) == Highest({from(q)} \cup {i + 1 : i \in separators(from(q), q - 1)})
    IN {[year |-> FiscalYear[t[YearPlace(t, q)]], amount |-> Quantity[t[q]],
         about |-> SubSeq(t, from(q), to(q)), binding |-> SubSeq(t, bound(q), q - 1)] :
           q \in linked}

(* Measure and subject stand where the figure is, the measure at most two  *)
(* words before it, and no other name between (_observation_binds).        *)
Binds(o, measure, subject) ==
    LET near == ContentOf(o.binding)
        found == Occurs(near, measure)
    IN /\ Occurs(ContentOf(o.about), subject) # {}
       /\ found # {}
       /\ Len(near) - (Highest(found) + Len(measure) - 1) <= 2
       /\ HasAny(near, ToSet(subject)) \/ ~HasAny(o.binding, Proper)

IsUncertain(text) == HasAny(text, Hedges) \/ IsRange(text) \/ IsPair(text)

(* _validate_inference_wording *)
Follows(c, evidence) ==
    LET bound(s) == {o \in Observations(s) : o.year \in {c.from, c.to}
                                             /\ Binds(o, c.measure, c.subject)}
        scopes == UNION {CitedScopes(q) : q \in evidence}
        found == UNION {bound(s) : s \in scopes}
        values(y) == {o.amount.value : o \in {o \in found : o.year = y}}
        units == {o.amount.unit : o \in found}
    IN /\ evidence # {} /\ c.from < c.to
       /\ \A q \in evidence : \E s \in CitedScopes(q) : bound(s) # {}
       /\ \A o \in found : ~o.amount.accounting /\ ~IsUncertain(o.about)
       /\ Cardinality(units) = 1
       /\ \A y \in {c.from, c.to} : Cardinality(values(y)) = 1
       /\ \A a \in values(c.from), b \in values(c.to) :
              c.direction = (IF b > a THEN "increased" ELSE IF b < a THEN "decreased"
                             ELSE "unchanged")

-----------------------------------------------------------------------------

(* Two texts that are alike but for their figures, whose units and periods *)
(* agree; or alike but for what follows the same predicate                 *)
(* (_conflict_shape, _validate_conflict_incompatibility).                  *)
AmountsOf(claim) ==
    LET amounts == SelectSeq(claim, LAMBDA w : w \in DOMAIN Quantity)
    IN [i \in DOMAIN amounts |-> Quantity[amounts[i]]]
PeriodsOf(claim) == SelectSeq(claim, LAMBDA w : w \in DOMAIN FiscalYear \cup Dates)
Skeleton(claim) ==
    LET kind(w) == IF w \in DOMAIN Quantity THEN "<quantity>"
                   ELSE IF w \in Figures THEN "<date>" ELSE w
        words == WordsOf(claim)
    IN [i \in DOMAIN words |-> kind(words[i])]
Topical(topic, words) ==
    Occurs(SelectSeq(words, LAMBDA w : w \notin Stopwords \cup {"<quantity>", "<date>"}), topic) # {}

DisputeFigures(topic, a, b) ==
    /\ \A c \in {a, b} : AmountsOf(c) # <<>>
    /\ Skeleton(a) = Skeleton(b) /\ PeriodsOf(a) = PeriodsOf(b)
    /\ \A i \in DOMAIN AmountsOf(a) :
           /\ AmountsOf(a)[i].unit = AmountsOf(b)[i].unit
           /\ AmountsOf(a)[i].accounting = AmountsOf(b)[i].accounting
    /\ AmountsOf(a) # AmountsOf(b)
    /\ Topical(topic, Skeleton(a))

DisputeWords(topic, a, b) ==
    LET s == Skeleton(a)
        t == Skeleton(b)
        lead == LongestCommonPrefix({s, t})
        n == Len(lead)
        rest(u) == Reverse(SubSeq(u, n + 1, Len(u)))
        tail == LongestCommonPrefix({rest(s), rest(t)})
    IN /\ AmountsOf(a) = <<>> /\ AmountsOf(b) = <<>> /\ PeriodsOf(a) = PeriodsOf(b)
       /\ n >= 2 /\ lead[n] \in Predicates
       /\ \A u \in {s, t} : n + Len(tail) < Len(u)
       /\ Topical(topic, lead \o Reverse(tail))

Disputed(topic, a, b) == DisputeFigures(topic, a, b) \/ DisputeWords(topic, a, b)

VersionsOf(evidence) == {VersionCited[q.chunk] : q \in evidence}

-----------------------------------------------------------------------------

VARIABLES verdict, claims      \* what becomes of the answer; what was accepted of it

answerVars == <<verdict, claims>>

\* What passes the checks of _claim: words of a source, or what follows from it.
Sourced ==
    UNION {{[text |-> c, concludes |-> {}, evidence |-> e] :
               c \in {c \in Wordings[e] : IsSourced(c, e)}} : e \in DOMAIN Wordings}
Inferred ==
    UNION {{[text |-> <<>>, concludes |-> {c}, evidence |-> e] :
               c \in {c \in Comparisons : Follows(c, e)}} : e \in Bases}

AnswerStart == verdict = "checking" /\ claims = <<>>

(* The claims are looked at one after the other; one that is refused       *)
(* refuses the answer, as do a wrong shape, too much text, a context whose *)
(* texts are not those of its citations, and a model that finds too little *)
(* (generate, _validated_result).                                          *)
RefuseAnswer == verdict = "checking" /\ verdict' = "refused" /\ claims' = <<>>

AcceptClaim ==
    /\ verdict = "checking" /\ Len(claims) < MaxClaims
    /\ \E c \in Sourced \cup Inferred : claims' = Append(claims, c)
    /\ UNCHANGED verdict

Distinct == \A i, j \in DOMAIN claims :
    claims[i].concludes = claims[j].concludes /\ claims[i].text = claims[j].text => i = j

AnswerClaims ==
    /\ verdict = "checking" /\ claims # <<>> /\ Distinct
    /\ verdict' = "answered" /\ UNCHANGED claims

(* Two alternatives, by the words of their sources, of different versions. *)
AnswerConflict ==
    /\ verdict = "checking" /\ Len(claims) = 2 /\ Distinct
    /\ claims[1].concludes = {} /\ claims[2].concludes = {}
    /\ \E topic \in Disputes : Disputed(topic, claims[1].text, claims[2].text)
    /\ VersionsOf(claims[1].evidence) # VersionsOf(claims[2].evidence)
    /\ verdict' = "conflict" /\ UNCHANGED claims

AnswerNext == RefuseAnswer \/ AcceptClaim \/ AnswerClaims \/ AnswerConflict

-----------------------------------------------------------------------------

CONSTANT Stated     \* what a reader takes from each chunk: figures with their year

(* A claim says what a scope says: its words are a stretch of the scope    *)
(* that leaves out nothing but a date, a year, the means or a heading;     *)
(* all that qualifies the scope is in the claim; a figure has the word     *)
(* beside it that it has in the source.                                    *)
SaidBy(claim, scope) ==
    LET said == ContentOf(claim)
        words == WordsOf(scope)
        weighty(t) == SelectSeq(t, LAMBDA w : w \in Weighty)
        outside(t) == t = <<>> \/ SafeLead(t) \/ SafeTail(t)
        cut(t, i) == SubSeq(t, 1, i) \o SubSeq(t, i + 4, Len(t))
    IN /\ weighty(said) = weighty(words)
       /\ \E a \in DOMAIN words : \E b \in a..Len(words) :
              LET stretch == ContentOf(SubSeq(words, a, b))
              IN /\ ContentOf(SubSeq(words, 1, a - 1)) = <<>> \/ SafeLead(SubSeq(words, 1, a - 1))
                 /\ ContentOf(SubSeq(words, b + 1, Len(words))) = <<>>
                        \/ SafeTail(SubSeq(words, b + 1, Len(words)))
                 /\ \/ said = stretch
                    \/ \E i \in 1..(Len(stretch) - 3) :
                           /\ IsHeading(SubSeq(stretch, i + 1, i + 3), said)
                           /\ said = cut(stretch, i)

(* What a reader of the cited chunks would conclude. *)
ConcludedFrom(c, evidence) ==
    \E a, b \in UNION {Stated[q.chunk] : q \in evidence} :
        /\ \A f \in {a, b} : f.measure = c.measure /\ f.subject = c.subject
        /\ a.year = c.from /\ b.year = c.to /\ a.unit = b.unit
        /\ c.direction = "increased" <=> b.value > a.value
        /\ c.direction = "decreased" <=> b.value < a.value

(* An answer is grounded: what it claims in the words of its sources, each *)
(* cited chunk says; what it concludes, their reader concludes; and the    *)
(* alternatives of a conflict differ word for word in one value only, and  *)
(* are of different versions (_scope_supports_sourced_claim,               *)
(* _validate_inference_wording, _validate_conflict_incompatibility).       *)
AnswerIsGrounded ==
    /\ \A i \in DOMAIN claims :
           IF claims[i].concludes # {}
           THEN \A c \in claims[i].concludes : ConcludedFrom(c, claims[i].evidence)
           ELSE \A k \in {q.chunk : q \in claims[i].evidence} :
                    \E s \in ScopesOf(Context[k]) :
                        SaidBy(claims[i].text, SubSeq(Context[k], s.from, s.to))
    /\ verdict = "conflict" =>
           LET a == WordsOf(claims[1].text)
               b == WordsOf(claims[2].text)
           IN /\ a # b
              /\ \/ \E lead \in Prefixes(a), tail \in Suffixes(a) :
                        /\ IsPrefix(lead, b) /\ IsSuffix(tail, b) /\ Len(lead) >= 2
                        /\ Last(lead) \in Predicates
                        /\ \A t \in {a, b} : Len(lead) + Len(tail) < Len(t)
                 \/ /\ Len(a) = Len(b)
                    /\ \A i \in DOMAIN a : a[i] = b[i] \/ {a[i], b[i]} \subseteq DOMAIN Quantity
              /\ VersionsOf(claims[1].evidence) # VersionsOf(claims[2].evidence)
=============================================================================
