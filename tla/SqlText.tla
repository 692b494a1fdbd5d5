-------------------------------- MODULE SqlText --------------------------------
(***************************************************************************)
(* The four scanners that decide what in a statement is literal text, a    *)
(* comment or a quoted name: bindNamed() rewrites named parameters,        *)
(* replacePlaceholders() finds the positional ones, maskLiteralRegions()   *)
(* blanks text before a statement is classified, clauses() guards          *)
(* pagination.  They were written separately and must agree.               *)
(*                                                                         *)
(* A statement is a sequence of symbols.  "a", "q" and the keywords stand  *)
(* for letters and words, "1" for digits, "'" for the three quote          *)
(* characters, which are treated alike.                                    *)
(***************************************************************************)
EXTENDS Naturals, Sequences, FiniteSets

CONSTANTS
    Pieces,    \* the pieces a statement is put together from
    MaxPieces  \* bound on their number

VARIABLES
    text,      \* a statement
    pieces     \* how many pieces it has

Keyword == {"SELECT", "ORDER", "BY", "LIMIT"}
First(c) == c \in {"a", "q"} \cup Keyword
Word(c) == First(c) \/ c = "1"

\* the two symbols at i are x and y
Pair(s, i, x, y) == i < Len(s) /\ s[i] = x /\ s[i + 1] = y

\* the first place at or after i where the sequence t occurs, or 0
Find(s, t, i) ==
    LET at == {k \in i .. Len(s) - Len(t) + 1 : SubSeq(s, k, k + Len(t) - 1) = t}
    IN  IF at = {} THEN 0 ELSE CHOOSE k \in at : \A j \in at : k <= j

\* just after a region that ends with t, or 0 if it does not end
After(s, t, i) == LET k == Find(s, t, i) IN IF k = 0 THEN 0 ELSE k + Len(t)

\* a position, or the end of the statement if the region is not closed
OrEnd(s, k) == IF k = 0 THEN Len(s) + 1 ELSE k

-----------------------------------------------------------------------------
(* The regions.                                                             *)

\* after the quote that closes what was opened before i: a backslash protects
\* the next symbol, a doubled quote stands for itself
RECURSIVE QuoteEnd(_, _, _)
QuoteEnd(s, close, i) ==
    IF i > Len(s) THEN 0
    ELSE IF s[i] = "\\" /\ close # "]" /\ i < Len(s) THEN QuoteEnd(s, close, i + 2)
    ELSE IF s[i] # close THEN QuoteEnd(s, close, i + 1)
    ELSE IF Pair(s, i, close, close) THEN QuoteEnd(s, close, i + 2)
    ELSE i + 1

\* comments nest
RECURSIVE NestedEnd(_, _, _)
NestedEnd(s, i, depth) ==
    IF depth = 0 THEN i
    ELSE IF i > Len(s) THEN 0
    ELSE IF Pair(s, i, "/", "*") THEN NestedEnd(s, i + 2, depth + 1)
    ELSE IF Pair(s, i, "*", "/") THEN NestedEnd(s, i + 2, depth - 1)
    ELSE NestedEnd(s, i + 1, depth)

\* q'( ... )' : Oracle's alternative literal
Alternative(s, i) == Pair(s, i, "q", "'") /\ i + 2 <= Len(s)
AlternativeEnd(s, i) ==
    LET open == s[i + 2]
        close == IF open = "[" THEN "]" ELSE IF open = "(" THEN ")" ELSE open
    IN  After(s, <<close, "'">>, i + 3)

\* the "$" that ends the tag opened at i, or 0 if no tag begins there
RECURSIVE WordEnd(_, _)
WordEnd(s, i) == IF i <= Len(s) /\ Word(s[i]) THEN WordEnd(s, i + 1) ELSE i
TagEnd(s, i) ==
    LET k == WordEnd(s, i + 1)
    IN  IF k <= Len(s) /\ s[k] = "$" /\ (k = i + 1 \/ s[i + 1] # "1") THEN k ELSE 0
DollarEnd(s, i) == After(s, SubSeq(s, i, TagEnd(s, i)), TagEnd(s, i) + 1)

\* "[" begins a quoted name unless it follows what it could index
Bracket(s, i, indexed) ==
    s[i] = "[" /\ (i = 1 \/ ~(Word(s[i - 1]) \/ s[i - 1] \in indexed))
Close(c) == IF c = "[" THEN "]" ELSE c

-----------------------------------------------------------------------------
(* bindNamed().                                                             *)

\* Mutant: a positional placeholder is let through.
NamedStepMixed(s, i) ==
    LET c == s[i]
    IN  CASE c = "'" \/ Bracket(s, i, {")", "]"}) -> QuoteEnd(s, Close(c), i + 1)
          [] c = "#" -> 0
          [] Pair(s, i, "-", "-") -> OrEnd(s, Find(s, <<"nl">>, i))
          [] Pair(s, i, "/", "*") -> NestedEnd(s, i + 2, 1)
          [] Alternative(s, i) -> AlternativeEnd(s, i)
          [] c = "$" /\ (i = 1 \/ ~Word(s[i - 1])) ->
                IF TagEnd(s, i) = 0 THEN 0 ELSE DollarEnd(s, i)
          [] Pair(s, i, ":", ":") -> i + 2
          [] c = ":" /\ i < Len(s) /\ First(s[i + 1]) -> WordEnd(s, i + 2)
          [] OTHER -> i + 1

\* where the scan goes on from i; 0 is an error
NamedStep(s, i) ==
    LET c == s[i]
    IN  CASE c = "'" \/ Bracket(s, i, {")", "]"}) -> QuoteEnd(s, Close(c), i + 1)
          [] c = "#" -> 0
          [] Pair(s, i, "-", "-") -> OrEnd(s, Find(s, <<"nl">>, i))
          [] Pair(s, i, "/", "*") -> NestedEnd(s, i + 2, 1)
          [] Alternative(s, i) -> AlternativeEnd(s, i)
          [] c = "$" /\ (i = 1 \/ ~Word(s[i - 1])) ->
                IF TagEnd(s, i) = 0 THEN 0 ELSE DollarEnd(s, i)
          [] Pair(s, i, ":", ":") -> i + 2
          [] c = ":" /\ i < Len(s) /\ First(s[i + 1]) -> WordEnd(s, i + 2)
          [] c = "?" \/ Pair(s, i, ":", "1") -> 0
          [] OTHER -> i + 1

Parameter(s, i) == s[i] = ":" /\ i < Len(s) /\ First(s[i + 1])

\* out.sql and the names bound, or an error: given are the supplied names
RECURSIVE Bind(_, _, _, _, _)
Bind(s, given, i, sql, names) ==
    IF i > Len(s)
    THEN [ok |-> \A n \in given : \E k \in DOMAIN names : names[k] = n, sql |-> sql, names |-> names]
    ELSE LET k == NamedStep(s, i)
             name == SubSeq(s, i + 1, k - 1)
         IN  IF k = 0 \/ (Parameter(s, i) /\ name \notin given)
             THEN [ok |-> FALSE, sql |-> <<>>, names |-> <<>>]
             ELSE IF Parameter(s, i)
             THEN Bind(s, given, k, Append(sql, "?"), Append(names, name))
             ELSE Bind(s, given, k, sql \o SubSeq(s, i, k - 1), names)
BindNamed(s, given) == Bind(s, given, 1, <<>>, <<>>)

-----------------------------------------------------------------------------
(* replacePlaceholders(): the places of the placeholders.                   *)

\* where the scan goes on from i
PlaceStep(s, i) ==
    LET c == s[i]
    IN  CASE c = "?" -> i + 1
          [] Alternative(s, i) -> IF AlternativeEnd(s, i) = 0 THEN i + 1 ELSE AlternativeEnd(s, i)
          [] c = "$" -> IF TagEnd(s, i) = 0 \/ DollarEnd(s, i) = 0 THEN i + 1 ELSE DollarEnd(s, i)
          [] c = "'" \/ Bracket(s, i, {")", "]", "?"}) -> OrEnd(s, QuoteEnd(s, Close(c), i + 1))
          [] Pair(s, i, "-", "-") -> OrEnd(s, After(s, <<"nl">>, i))
          [] Pair(s, i, "/", "*") -> OrEnd(s, NestedEnd(s, i + 2, 1))
          [] OTHER -> i + 1

RECURSIVE PlaceholdersFrom(_, _)
PlaceholdersFrom(s, i) ==
    IF i > Len(s) THEN {}
    ELSE (IF s[i] = "?" THEN {i} ELSE {}) \cup PlaceholdersFrom(s, PlaceStep(s, i))
Placeholders(s) == PlaceholdersFrom(s, 1)

\* buildSql(), renderSqlForLogging(): refused unless every parameter has a place
BuildSql(s, n) == Cardinality(Placeholders(s)) = n

-----------------------------------------------------------------------------
(* maskLiteralRegions(): the places that are not blanked.  Comments do not  *)
(* nest here, and brackets and alternative literals are not known.          *)

\* Mutant: a backslash does not protect the quote that follows it.
MaskStepRaw(s, i) ==
    LET c == s[i]
    IN  CASE Pair(s, i, "-", "-") -> OrEnd(s, Find(s, <<"nl">>, i))
          [] Pair(s, i, "/", "*") -> OrEnd(s, After(s, <<"*", "/">>, i + 2))
          [] c = "'" -> OrEnd(s, After(s, <<c>>, i + 1))
          [] c = "$" -> IF TagEnd(s, i) = 0 \/ DollarEnd(s, i) = 0 THEN i ELSE DollarEnd(s, i)
          [] OTHER -> i

\* just after the region that begins at i, or i
MaskStep(s, i) ==
    LET c == s[i]
    IN  CASE Pair(s, i, "-", "-") -> OrEnd(s, Find(s, <<"nl">>, i))
          [] Pair(s, i, "/", "*") -> OrEnd(s, After(s, <<"*", "/">>, i + 2))
          [] c = "'" -> OrEnd(s, QuoteEnd(s, c, i + 1))
          [] c = "$" -> IF TagEnd(s, i) = 0 \/ DollarEnd(s, i) = 0 THEN i ELSE DollarEnd(s, i)
          [] OTHER -> i

RECURSIVE VisibleFrom(_, _)
VisibleFrom(s, i) ==
    IF i > Len(s) THEN {}
    ELSE IF MaskStep(s, i) = i THEN {i} \cup VisibleFrom(s, i + 1)
    ELSE VisibleFrom(s, MaskStep(s, i))
Visible(s) == VisibleFrom(s, 1)

-----------------------------------------------------------------------------
(* Pagination: clauses(), validateSelect() and the clause preparePage() adds. *)

Bad == [ok |-> FALSE, tokens |-> <<>>]

\* where the gate goes on from i; 0 is an error
ClauseStep(s, i) ==
    LET c == s[i]
    IN  CASE c \in {";", "#"} -> 0
          [] Pair(s, i, "-", "-") -> OrEnd(s, After(s, <<"nl">>, i + 2))
          [] Pair(s, i, "/", "*") -> IF Pair(s, i + 1, "*", "!") THEN 0 ELSE NestedEnd(s, i + 2, 1)
          [] Alternative(s, i) -> AlternativeEnd(s, i)
          [] c = "$" -> IF TagEnd(s, i) = 0 THEN 0 ELSE DollarEnd(s, i)
          [] c = "'" \/ Bracket(s, i, {")", "]", "?"}) -> QuoteEnd(s, Close(c), i + 1)
          [] Word(c) /\ ~Alternative(s, i) -> WordEnd(s, i)
          [] OTHER -> i + 1

\* the words at depth 0; literals, quoted names and parentheses are one "_" each
ClauseToken(s, i) ==
    LET c == s[i]
    IN  IF c \in {"'", "$", "("} \/ Alternative(s, i) \/ Bracket(s, i, {")", "]", "?"})
        THEN << <<"_">> >>
        ELSE IF Word(c) THEN <<SubSeq(s, i, WordEnd(s, i) - 1)>>
        ELSE <<>>

RECURSIVE ClausesFrom(_, _, _, _)
ClausesFrom(s, i, depth, tokens) ==
    IF i > Len(s) THEN (IF depth = 0 THEN [ok |-> TRUE, tokens |-> tokens] ELSE Bad)
    ELSE IF ClauseStep(s, i) = 0 \/ (s[i] = ")" /\ depth = 0) THEN Bad
    ELSE ClausesFrom(s, ClauseStep(s, i),
                     IF s[i] = "(" THEN depth + 1 ELSE IF s[i] = ")" THEN depth - 1 ELSE depth,
                     IF depth = 0 THEN tokens \o ClauseToken(s, i) ELSE tokens)
Clauses(s) == ClausesFrom(s, 1, 0, <<>>)

ValidateSelect(s, requireOrder) ==
    LET r == Clauses(s)
        t == r.tokens
    IN  /\ r.ok
        /\ t # <<>> /\ t[1] = <<"SELECT">>
        /\ \A i \in 2 .. Len(t) : t[i] # <<"LIMIT">>
        /\ requireOrder => \E i \in 2 .. Len(t) - 2 : t[i] = <<"ORDER">> /\ t[i + 1] = <<"BY">>

\* Mutant: the clause goes on in the same line.
PageClauseInline(s) == s \o <<"sp", "LIMIT", "sp", "?", "sp", "a", "sp", "?">>

\* the clause begins on a line of its own
PageClause(s) == s \o <<"nl", "LIMIT", "sp", "?", "sp", "a", "sp", "?">>

-----------------------------------------------------------------------------
(* Every statement of at most MaxPieces pieces.                             *)

TextInit == text = <<>> /\ pieces = 0
TextNext ==
    /\ pieces < MaxPieces
    /\ \E p \in Pieces : text' = text \o p
    /\ pieces' = pieces + 1

\* bindNamed() passes over a "$" that continues a name
RECURSIVE DollarInName(_, _)
DollarInName(s, i) ==
    /\ i <= Len(s)
    /\ \/ i > 1 /\ s[i] = "$" /\ Word(s[i - 1])
       \/ NamedStep(s, i) # 0 /\ DollarInName(s, NamedStep(s, i))

(* What bindNamed() makes of a statement has exactly one placeholder for      *)
(* replacePlaceholders() per parameter bound: the rewritten statement is not  *)
(* refused for its number of parameters, and none is taken from or put into   *)
(* literal text.  (Not if a name contains "$": the second scanner takes it    *)
(* for the tag of a dollar quote.)                                           *)
NamedBindsPositional ==
    LET r == BindNamed(text, {<<"a">>})
    IN  r.ok /\ ~DollarInName(text, 1) => BuildSql(r.sql, Len(r.names))

(* If the gate of preparePage() accepts a statement, the placeholders of the  *)
(* clause it appends are seen, after those of the statement: no literal,      *)
(* quoted name or comment of the statement swallows them, so the two          *)
(* parameters appended bind to them.  (Not if a name that ends in "q" touches *)
(* a quote, which only replacePlaceholders() takes for a literal.)            *)
PageClauseBinds ==
    LET s == <<"SELECT", "sp", "ORDER", "sp", "BY", "sp", "a", "sp">> \o text
        n == Len(s)
    IN  (/\ ValidateSelect(s, TRUE)
         /\ \A i \in 2 .. n : Word(s[i - 1]) => ~Pair(s, i, "q", "'"))
        => Placeholders(PageClause(s)) = Placeholders(s) \cup {n + 4, n + 8}

(* The text the classifier and the auditor see has exactly the placeholders    *)
(* the binder finds: both call the same text literal, whatever quotes,        *)
(* backslashes, comments and dollar quotes are mixed, closed or not.  (For    *)
(* statements without brackets, alternative literals and nested comments.)    *)
MaskAgrees ==
    (/\ \A i \in DOMAIN text : text[i] # "[" /\ ~Pair(text, i, "q", "'")
     /\ Cardinality({i \in DOMAIN text : Pair(text, i, "/", "*")}) < 2)
    => Placeholders(text) = {i \in Visible(text) : text[i] = "?"}
================================================================================
