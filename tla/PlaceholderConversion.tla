------------------------- MODULE PlaceholderConversion -------------------------
(******************************************************************************)
(* How a cursor turns Django's placeholders into Turso's                      *)
(* (_convert_placeholders() and _QueryBindings in src/django_pyturso/base.py) *)
(* and what rows of parameters it takes for the result.  TursoCursor calls it *)
(* for every statement with parameters.                                       *)
(*                                                                            *)
(* A query is a sequence of characters; those that the scanner treats alike   *)
(* are one character here ("s" and "n" also stand for letters, "eol" for a    *)
(* line end, "quot" for a double quote).  A name is one character.  The       *)
(* engine's own reading of SQL is modelled independently, one character at a  *)
(* time, from the lexical rules the conversion has to respect.                *)
(******************************************************************************)
EXTENDS Naturals, SequencesExt

CONSTANTS
  Characters,         \* what a query with positional and one with named placeholders is
                      \*   made of: a function of BOOLEAN
  MaxLength,          \* bounds on their length
  Names               \* the keys of a mapping of parameters

ASSUME ConversionAssumption == MaxLength \in [BOOLEAN -> Nat]

VARIABLES
  named,              \* the parameters are a mapping, so param_names is not None
  param_names,        \* and these, the keys of the mapping
  query,
  index,              \* the next character to read, the first one being 1
  state,
  closing_quote,
  converted,
  positional_count,
  required_names,
  native_bindings,
  outcome             \* "idle", "scanning", then "converted" or "KeyError"

bindings == <<positional_count, required_names, native_bindings>>
source   == <<named, param_names, query>>
scan     == <<source, index, state, closing_quote, converted, bindings, outcome>>

States   == {"sql", "line-comment", "block-comment", "identifier", "literal"}
Outcomes == {"idle", "scanning", "converted", "KeyError"}

IdentifierQuotes == {"quot", "["}
ClosingQuote(c)  == IF c = "[" THEN "]" ELSE c
NativeMarkers    == {"?", ":"}

At(i) == IF i \in DOMAIN query THEN query[i] ELSE ""
character == At(index)
following == At(index + 1)

\* Where the scan for the name of a placeholder ends: at ")", at another "%(" or
\* behind the query.
PlaceholderEnd(i) ==
  CHOOSE j \in (i + 2)..(Len(query) + 1) :
    /\ j = Len(query) + 1 \/ At(j) = ")" \/ (At(j) = "%" /\ At(j + 1) = "(")
    /\ \A k \in (i + 2)..(j - 1) : At(k) # ")" /\ ~(At(k) = "%" /\ At(k + 1) = "(")

\* The application doubles a percent sign that it does not mean as a placeholder, at least
\* before a parenthesis with quotes, comments or markers in it.
HasPlainNames ==
  named => \A i \in DOMAIN query : At(i) = "%" /\ At(i + 1) = "(" =>
    \A k \in (i + 2)..(PlaceholderEnd(i) - 1) : At(k) \in {"n", "s", "%"}

Queries(n) == UNION {[1..length -> Characters[n]] : length \in 0..MaxLength[n]}

InitScan ==
  /\ named = FALSE
  /\ param_names = {}
  /\ query = <<>>
  /\ index = 1
  /\ state = "sql"
  /\ closing_quote = ""
  /\ converted = <<>>
  /\ positional_count = 0
  /\ required_names = {}
  /\ native_bindings = FALSE
  /\ outcome = "idle"

\* _convert_placeholders() is called with names or without.
BeginScan(texts, mapping, names) ==
  /\ outcome' = "scanning"
  /\ named' = mapping
  /\ param_names' = names
  /\ query' \in texts
  /\ HasPlainNames'
  /\ UNCHANGED <<index, state, closing_quote, converted, bindings>>

\* Whoever called it is done with the result.
ForgetScan ==
  /\ named' = FALSE /\ param_names' = {}
  /\ query' = <<>> /\ index' = 1 /\ state' = "sql" /\ closing_quote' = ""
  /\ converted' = <<>>
  /\ positional_count' = 0 /\ required_names' = {} /\ native_bindings' = FALSE
  /\ outcome' = "idle"
--------------------------------------------------------------------------------
\* The scanner's loop reads the next character in a state s.
Reads(s) == outcome = "scanning" /\ index <= Len(query) /\ state = s

\* The next n characters go to the engine as they are.
Keep(n) ==
  /\ converted' = converted \o SubSeq(query, index, index + n - 1)
  /\ index' = index + n
  /\ UNCHANGED <<source, outcome>>

\* They go there as the text replacement.
Replace(n, replacement) ==
  /\ converted' = converted \o replacement
  /\ index' = index + n
  /\ UNCHANGED <<source, state, closing_quote, outcome>>

InLineComment ==
  /\ Reads("line-comment")
  /\ Keep(1)
  /\ state' = IF character = "eol" THEN "sql" ELSE state
  /\ UNCHANGED <<closing_quote, bindings>>

InBlockComment ==
  /\ Reads("block-comment")
  /\ IF character = "*" /\ following = "/"
     THEN Keep(2) /\ state' = "sql"
     ELSE Keep(1) /\ UNCHANGED state
  /\ UNCHANGED <<closing_quote, bindings>>

\* Mutant: "]" is escaped by doubling it, like the other quotes.
DoubledLikeOthers == following = closing_quote

\* A closing quote that is doubled stands for itself, but for "]".
Doubled == closing_quote # "]" /\ following = closing_quote

InIdentifier ==
  /\ Reads("identifier")
  /\ \/ character # closing_quote /\ Keep(1) /\ UNCHANGED state
     \/ character = closing_quote /\ Doubled /\ Keep(2) /\ UNCHANGED state
     \/ character = closing_quote /\ ~Doubled /\ Keep(1) /\ state' = "sql"
  /\ UNCHANGED <<closing_quote, bindings>>

InLiteral ==
  /\ Reads("literal")
  /\ \/ character = "'" /\ following = "'" /\ Keep(2) /\ UNCHANGED state
     \/ character = "'" /\ following # "'" /\ Keep(1) /\ state' = "sql"
     \/ ~(character = "%" /\ following = "%") /\ character # "'" /\ Keep(1) /\ UNCHANGED state
  /\ UNCHANGED <<closing_quote, bindings>>

\* "%%" is an escaped percent sign in SQL and in literals.
EscapedPercent ==
  /\ Reads("sql") \/ Reads("literal")
  /\ character = "%" /\ following = "%"
  /\ Replace(2, <<"%">>)
  /\ UNCHANGED bindings
--------------------------------------------------------------------------------
OpensComment == <<character, following>> \in {<<"-", "-">>, <<"/", "*">>}

OpenComment ==
  /\ Reads("sql") /\ OpensComment
  /\ Keep(2)
  /\ state' = IF character = "-" THEN "line-comment" ELSE "block-comment"
  /\ UNCHANGED <<closing_quote, bindings>>

OpenQuote ==
  /\ Reads("sql")
  /\ Keep(1)
  /\ \/ character = "'" /\ state' = "literal" /\ UNCHANGED closing_quote
     \/ /\ character \in IdentifierQuotes
        /\ state' = "identifier"
        /\ closing_quote' = ClosingQuote(character)
  /\ UNCHANGED bindings

IsPositional == ~named /\ character = "%" /\ following = "s"
IsNamed      == named /\ character = "%" /\ following = "("

Positional ==
  /\ Reads("sql") /\ IsPositional
  /\ Replace(2, <<"?">>)
  /\ positional_count' = positional_count + 1
  /\ UNCHANGED <<required_names, native_bindings>>

\* Mutant: what only looks like a placeholder is not stepped over.
NotSteppedOver(end) == UNCHANGED <<source, converted, index, state, closing_quote, outcome>>

\* Mutant: one character too many is stepped over, as if it were a placeholder's "s".
MalformedTooFar(end) ==
  /\ converted' = converted \o SubSeq(query, index, end)
  /\ index' = end + 2
  /\ UNCHANGED <<source, state, closing_quote, outcome>>

\* What only looks like a placeholder is kept, up to and with its end.
Malformed(end) == Keep(end + 1 - index) /\ UNCHANGED <<state, closing_quote>>

NamedPlaceholder ==
  LET end  == PlaceholderEnd(index)
      name == SubSeq(query, index + 2, end - 1)
  IN
  /\ Reads("sql") /\ IsNamed
  /\ \/ end = Len(query) + 1 /\ Keep(end - index) /\ UNCHANGED <<state, closing_quote, bindings>>
     \/ /\ At(end) = "%"
        /\ Keep(end - index)
        /\ UNCHANGED <<state, closing_quote, bindings>>
     \/ /\ At(end) = ")" /\ At(end + 1) # "s"
        /\ Malformed(end)
        /\ UNCHANGED bindings
     \/ /\ At(end) = ")" /\ At(end + 1) = "s"
        /\ IF \E n \in param_names : name = <<n>>
           THEN /\ Replace(end + 2 - index, <<":">> \o name)
                /\ required_names' = required_names \union {name[1]}
                /\ UNCHANGED <<positional_count, native_bindings>>
           ELSE /\ outcome' = "KeyError"
                /\ UNCHANGED <<source, index, state, closing_quote, converted, bindings>>

IsNative(c) == c \in NativeMarkers

PlainCharacter ==
  /\ Reads("sql")
  /\ ~OpensComment /\ ~IsPositional /\ ~IsNamed
  /\ character \notin IdentifierQuotes \union {"'"}
  /\ ~(character = "%" /\ following = "%")
  /\ Keep(1)
  /\ native_bindings' = (native_bindings \/ IsNative(character))
  /\ UNCHANGED <<state, closing_quote, positional_count, required_names>>

ScanStep ==
  \/ InLineComment
  \/ InBlockComment
  \/ InIdentifier
  \/ InLiteral
  \/ EscapedPercent
  \/ OpenComment
  \/ OpenQuote
  \/ Positional
  \/ NamedPlaceholder
  \/ PlainCharacter

\* The function returns: what it was scanning is gone.
EndScan ==
  /\ outcome = "scanning" /\ index = Len(query) + 1
  /\ outcome' = "converted"
  /\ query' = <<>> /\ index' = 1 /\ state' = "sql" /\ closing_quote' = ""
  /\ UNCHANGED <<named, param_names, converted, bindings>>
--------------------------------------------------------------------------------
(* prepare_params(), for a row of execute() or executemany().                 *)

\* Mutant: a row may have more parameters than there are placeholders.
EnoughParameters(supplied) == supplied >= positional_count

MatchingCount(supplied) ==
  /\ supplied >= positional_count
  /\ native_bindings \/ supplied = positional_count

\* A row is a mapping with certain keys or a sequence of some length.
Accepts(row) ==
  \/ required_names # {} /\ row.mapping /\ required_names \subseteq row.names
  \/ required_names = {} /\ row.mapping /\ positional_count = 0
  \/ required_names = {} /\ ~row.mapping /\ MatchingCount(row.count)
--------------------------------------------------------------------------------
(* The engine's lexical rules.                                                *)

\* mode: "sql", "quoted" (closed by last), "maybe-closed" (last, which may turn out to
\* be doubled), "line", "block".  In "sql" and "block" last is the character before.
EngineStart == [mode |-> "sql", last |-> "", markers |-> 0, names |-> {}]

ReadsSql(e, c) ==
  CASE e.last = "-" /\ c = "-" -> [e EXCEPT !.mode = "line", !.last = ""]
    [] e.last = "/" /\ c = "*" -> [e EXCEPT !.mode = "block", !.last = ""]
    [] c \in IdentifierQuotes \union {"'"} ->
         [e EXCEPT !.mode = "quoted", !.last = ClosingQuote(c)]
    [] c = "?" -> [e EXCEPT !.markers = @ + 1, !.last = c]
    [] OTHER -> [e EXCEPT !.names = IF e.last = ":" THEN @ \union {c} ELSE @, !.last = c]

Read(e, c) ==
  CASE e.mode = "sql" -> ReadsSql(e, c)
    [] e.mode = "quoted" ->
         IF c # e.last THEN e
         ELSE IF c = "]" THEN [e EXCEPT !.mode = "sql", !.last = ""]
         ELSE [e EXCEPT !.mode = "maybe-closed"]
    [] e.mode = "maybe-closed" ->
         IF c = e.last THEN [e EXCEPT !.mode = "quoted"]
         ELSE ReadsSql([e EXCEPT !.mode = "sql", !.last = ""], c)
    [] e.mode = "line" -> IF c = "eol" THEN [e EXCEPT !.mode = "sql"] ELSE e
    [] e.mode = "block" ->
         IF e.last = "*" /\ c = "/" THEN [e EXCEPT !.mode = "sql", !.last = ""]
         ELSE [e EXCEPT !.last = c]

\* What the engine makes of the text that was converted so far.
Engine == FoldLeft(Read, EngineStart, converted)
--------------------------------------------------------------------------------
ScanTypeOK ==
  /\ named \in BOOLEAN
  /\ param_names \subseteq Names
  /\ index \in 1..(Len(query) + 1)
  /\ state \in States
  /\ closing_quote \in {"", "]"} \union IdentifierQuotes
  /\ positional_count \in Nat
  /\ required_names \subseteq Names
  /\ native_bindings \in BOOLEAN
  /\ outcome \in Outcomes

\* After every turn of its loop the scanner takes the engine to be in the comment, the
\* literal, the identifier or the plain SQL that the engine is in: the conversion
\* neither opens nor closes a quote (docs/security.md: it "preserves quoted
\* identifiers, comments, and literal text").
QuotingIsKept ==
  outcome = "scanning" =>
    LET e == Engine IN
    CASE state = "sql"           -> e.mode \in {"sql", "maybe-closed"}
      [] state = "line-comment"  -> e.mode = "line"
      [] state = "block-comment" -> e.mode = "block"
      [] state = "literal"       -> e.mode = "quoted" /\ e.last = "'"
      [] state = "identifier"    -> e.mode = "quoted" /\ e.last = closing_quote
================================================================================
