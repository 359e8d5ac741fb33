------------------------------ MODULE CursorProofs -----------------------------
(******************************************************************************)
(* Theorems of TursoCursor, for every set of queries, every bound and every   *)
(* statement of the grammar, and of the two modules it extends.  First what   *)
(* the scanner of PlaceholderConversion does to the engine's reading of a     *)
(* query (the invariant ScanInv), for texts of every length and any alphabet; *)
(* then the reader of WriteStatement; then the cursor, with the invariant     *)
(* CursorInv.  Where a fact about a text needs induction it is made for the   *)
(* set of lengths that have it (Induction, which rests on the least number of *)
(* a set of naturals).                                                        *)
(******************************************************************************)
EXTENDS TursoCursor, SequenceTheorems, FiniteSetTheorems, WellFoundedInduction, TLAPS

\* What queries and their conversions are made of.
Char ==
  Characters[TRUE] \union Characters[FALSE] \union Names
  \union {"", "%", "(", ")", "n", "s", "?", ":", "-", "/", "*", "'", "quot", "[", "]", "eol"}

Less == {p \in Nat \X Nat : p[1] < p[2]}

\* Every set of naturals has a least one: what induction over lengths rests on.
LEMMA LeastNumber ==
  ASSUME NEW T, T \subseteq Nat, T # {}
  PROVE  \E m \in T : \A k \in T : m <= k
<1>1. OpToRel(<, Nat) = Less
  BY DEF OpToRel, Less
<1>2. IsWellFoundedOn(Less, Nat)
  BY <1>1, NatLessThanWellFounded
<1>3. \E m \in T : \A k \in T : <<k, m>> \notin Less
  BY <1>2, WFMin
<1>4. \A k, m \in Nat : <<k, m>> \notin Less => m <= k
  BY DEF Less
<1> QED
  BY <1>3, <1>4

LEMMA Induction ==
  ASSUME NEW n \in Nat, NEW S, 0 \in S, \A k \in 0..(n - 1) : k \in S => k + 1 \in S
  PROVE  \A k \in 0..n : k \in S
<1> SUFFICES ASSUME NEW j \in 0..n, j \notin S PROVE FALSE
  OBVIOUS
<1> DEFINE T == {k \in 0..n : k \notin S}
<1>1. T \subseteq Nat /\ T # {}
  OBVIOUS
<1>2. PICK m \in T : \A k \in T : m <= k
  BY <1>1, LeastNumber
<1>3. m # 0 /\ m - 1 \in 0..(n - 1) /\ m - 1 \notin T
  BY <1>2
<1> QED
  BY <1>3

LEMMA LargestOf ==
  ASSUME NEW k \in Nat
  PROVE  /\ \A t \in SUBSET (1..(k + 1)) : k + 1 \in t => Max(t) = k + 1
         /\ \A t \in SUBSET (1..(k + 1)) : k + 1 \notin t => t \in SUBSET (1..k)
         /\ \A t \in SUBSET (1..(k + 1)) : t \ {k + 1} \in SUBSET (1..k)
         /\ Max(1..(k + 1)) = k + 1 /\ (1..(k + 1)) \ {k + 1} = 1..k
<1>1. ASSUME NEW t \in SUBSET (1..(k + 1)), k + 1 \in t PROVE Max(t) = k + 1
  <2>1. \A x \in t : (\A y \in t : x >= y) <=> x = k + 1
    BY <1>1
  <2> QED
    BY <1>1, <2>1 DEF Max
<1>2. 1..(k + 1) \in SUBSET (1..(k + 1)) /\ k + 1 \in 1..(k + 1) /\ (1..(k + 1)) \ {k + 1} = 1..k
  OBVIOUS
<1>3. \A t \in SUBSET (1..(k + 1)) : k + 1 \notin t => t \in SUBSET (1..k)
  OBVIOUS
<1>4. \A t \in SUBSET (1..(k + 1)) : t \ {k + 1} \in SUBSET (1..k)
  OBVIOUS
<1> QED
  BY <1>1, <1>2, <1>3, <1>4

ReadAll(s) == FoldLeft(Read, EngineStart, s)

Reading(s, f, n) ==
  f = [t \in SUBSET (1..n) |-> IF t = {} THEN EngineStart ELSE Read(f[t \ {Max(t)}], s[Max(t)])]

LEMMA ReadAllIs ==
  ASSUME NEW s \in Seq(Char)
  PROVE  ReadAll(s) = (CHOOSE f : Reading(s, f, Len(s)))[1..Len(s)]
<1>1. DOMAIN s = 1..Len(s)
  OBVIOUS
<1> QED
  BY <1>1 DEF ReadAll, FoldLeft, MapThenFoldSet, Reading

LEMMA ReadingExists ==
  ASSUME NEW s \in Seq(Char)
  PROVE  \E f : Reading(s, f, Len(s))
<1> DEFINE S == {k \in Nat : \E f : Reading(s, f, k)}
<1>1. 0 \in S
  <2> DEFINE g == [t \in SUBSET (1..0) |-> EngineStart]
  <2>1. Reading(s, g, 0)
    <3>1. \A t \in SUBSET (1..0) : t = {}
      OBVIOUS
    <3> QED
      BY <3>1 DEF Reading
  <2> QED
    BY <2>1
<1>2. ASSUME NEW k \in Nat, k \in S PROVE k + 1 \in S
  <2>1. PICK f : Reading(s, f, k)
    BY <1>2
  <2> DEFINE g == [t \in SUBSET (1..(k + 1)) |-> IF k + 1 \in t THEN Read(f[t \ {k + 1}], s[k + 1]) ELSE f[t]]
  <2>2. ASSUME NEW t \in SUBSET (1..(k + 1)) 
        PROVE  g[t] = IF t = {} THEN EngineStart ELSE Read(g[t \ {Max(t)}], s[Max(t)])
    <3>1. CASE k + 1 \in t
      <4>1. Max(t) = k + 1 /\ t \ {k + 1} \in SUBSET (1..k)
        BY <3>1, LargestOf
      <4>2. g[t \ {k + 1}] = f[t \ {k + 1}]
        BY <4>1
      <4> QED
        BY <3>1, <4>1, <4>2
    <3>2. CASE k + 1 \notin t
      <4>1. t \in SUBSET (1..k) /\ t \ {Max(t)} \in SUBSET (1..k)
        BY <3>2, LargestOf
      <4>2. f[t] = IF t = {} THEN EngineStart ELSE Read(f[t \ {Max(t)}], s[Max(t)])
        BY <2>1, <4>1 DEF Reading
      <4>3. g[t] = f[t] /\ g[t \ {Max(t)}] = f[t \ {Max(t)}]
        BY <3>2, <4>1
      <4> QED
        BY <4>2, <4>3
    <3> QED
      BY <3>1, <3>2
  <2>3. Reading(s, g, k + 1)
    BY <2>2 DEF Reading
  <2> QED
    BY <2>3
<1> HIDE DEF S
<1>3. \A k \in 0..Len(s) : k \in S
  BY <1>1, <1>2, Induction
<1> QED
  BY <1>3 DEF S

\* The engine reads one character after the other.
LEMMA ReadAppend ==
  /\ ReadAll(<<>>) = EngineStart
  /\ \A s \in Seq(Char), c \in Char : ReadAll(s \o <<c>>) = Read(ReadAll(s), c)
<1> DEFINE F(s) == CHOOSE f : Reading(s, f, Len(s))
<1>1. ASSUME NEW s \in Seq(Char)
      PROVE  /\ ReadAll(s) = F(s)[1..Len(s)]
             /\ F(s)[{}] = EngineStart
             /\ \A k \in 0..(Len(s) - 1) : F(s)[1..(k + 1)] = Read(F(s)[1..k], s[k + 1])
  <2>0. Len(s) \in Nat
    OBVIOUS
  <2>1. Reading(s, F(s), Len(s))
    BY ReadingExists
  <2> HIDE DEF F
  <2>2. \A t \in SUBSET (1..Len(s)) : F(s)[t] = IF t = {} THEN EngineStart ELSE Read(F(s)[t \ {Max(t)}], s[Max(t)])
    BY <2>1 DEF Reading
  <2>3. ASSUME NEW k \in 0..(Len(s) - 1) PROVE F(s)[1..(k + 1)] = Read(F(s)[1..k], s[k + 1])
    <3>0. k \in Nat /\ k + 1 <= Len(s)
      BY <2>0
    <3>1. k \in Nat /\ 1..(k + 1) \in SUBSET (1..Len(s)) /\ 1..(k + 1) # {}
      <4>1. 1 \in 1..(k + 1)
        BY <3>0
      <4>2. \A i \in 1..(k + 1) : i \in 1..Len(s)
        BY <2>0, <3>0
      <4> QED
        BY <3>0, <4>1, <4>2
    <3>2. Max(1..(k + 1)) = k + 1 /\ (1..(k + 1)) \ {k + 1} = 1..k
      BY <3>1, LargestOf
    <3> QED
      BY <2>2, <3>1, <3>2
  <2>4. {} \in SUBSET (1..Len(s))
    OBVIOUS
  <2>5. ReadAll(s) = F(s)[1..Len(s)]
    BY ReadAllIs DEF F
  <2> QED
    BY <2>2, <2>3, <2>4, <2>5
<1> HIDE DEF F
<1>2. ReadAll(<<>>) = EngineStart
  <2>1. <<>> \in Seq(Char) /\ Len(<<>>) = 0 /\ 1..0 = {}
    OBVIOUS
  <2> QED
    BY <1>1, <2>1
<1>3. ASSUME NEW s \in Seq(Char), NEW c \in Char PROVE ReadAll(s \o <<c>>) = Read(ReadAll(s), c)
  <2> DEFINE u == s \o <<c>>
             S == {k \in Nat : F(u)[1..k] = F(s)[1..k]}
  <2>1. u \in Seq(Char) /\ Len(u) = Len(s) + 1 /\ u[Len(s) + 1] = c /\ \A k \in 1..Len(s) : u[k] = s[k]
    OBVIOUS
  <2>2. Len(s) \in Nat /\ 1..0 = {}
    OBVIOUS
  <2> HIDE DEF u
  <2>3. 0 \in S
    BY <1>1, <2>1, <2>2
  <2>4. ASSUME NEW k \in 0..(Len(s) - 1), k \in S PROVE k + 1 \in S
    <3>1. F(u)[1..(k + 1)] = Read(F(u)[1..k], u[k + 1])
      BY <1>1, <2>1, <2>2
    <3>2. F(s)[1..(k + 1)] = Read(F(s)[1..k], s[k + 1])
      BY <1>1, <2>2
    <3>3. u[k + 1] = s[k + 1] /\ F(u)[1..k] = F(s)[1..k]
      BY <2>1, <2>2, <2>4
    <3> QED
      BY <3>1, <3>2, <3>3
  <2> HIDE DEF S
  <2>5. \A k \in 0..Len(s) : k \in S
    BY <2>2, <2>3, <2>4, Induction
  <2>6. F(u)[1..(Len(s) + 1)] = Read(F(s)[1..Len(s)], c)
    <3>1. F(u)[1..(Len(s) + 1)] = Read(F(u)[1..Len(s)], u[Len(s) + 1])
      <4>1. Len(s) \in 0..(Len(u) - 1)
        BY <2>1, <2>2
      <4> QED
        BY <1>1, <2>1, <4>1
    <3>2. Len(s) \in S
      BY <2>2, <2>5
    <3> QED
      BY <2>1, <3>1, <3>2 DEF S
  <2> QED
    BY <1>1, <2>1, <2>6 DEF u
<1> QED
  BY <1>2, <1>3

--------------------------------------------------------------------------------
(* Reading.                                                                    *)

Modes       == {"sql", "quoted", "maybe-closed", "line", "block"}
EngineState == [mode : Modes, last : Char, markers : Nat, names : SUBSET Char]

\* The characters of what only looks like a placeholder.
Inert == {"%", "(", ")", "n", "s"}

\* In SQL, where the character c neither opens a comment with the last one nor goes on with a
\* quoted text.
InSql(e, c) ==
  \/ e.mode = "sql" /\ ~(e.last = "-" /\ c = "-") /\ ~(e.last = "/" /\ c = "*")
  \/ e.mode = "maybe-closed" /\ e.last \in {"'", "quot"} /\ c # e.last

\* Names begin with ":".
NoName(e) == ~(e.mode = "sql" /\ e.last = ":")

\* What reading a character makes of the engine's state.
LEMMA Updates ==
  ASSUME NEW e \in EngineState
  PROVE  /\ \A m \in Modes : [e EXCEPT !.mode = m] \in EngineState
         /\ \A l \in Char : [e EXCEPT !.last = l] \in EngineState
         /\ \A m \in Modes, l \in Char : [e EXCEPT !.mode = m, !.last = l] \in EngineState
         /\ \A n \in Nat, l \in Char : [e EXCEPT !.markers = n, !.last = l] \in EngineState
         /\ \A names \in SUBSET Char, l \in Char : [e EXCEPT !.names = names, !.last = l] \in EngineState
<1>1. \A m \in Modes : [e EXCEPT !.mode = m] \in EngineState
  BY DEF EngineState
<1>2. \A l \in Char : [e EXCEPT !.last = l] \in EngineState
  BY DEF EngineState
<1>3. \A m \in Modes, l \in Char : [e EXCEPT !.mode = m, !.last = l] \in EngineState
  BY DEF EngineState
<1>4. \A n \in Nat, l \in Char : [e EXCEPT !.markers = n, !.last = l] \in EngineState
  BY DEF EngineState
<1>5. \A names \in SUBSET Char, l \in Char : [e EXCEPT !.names = names, !.last = l] \in EngineState
  BY DEF EngineState
<1> QED
  BY <1>1, <1>2, <1>3, <1>4, <1>5

LEMMA Fields ==
  ASSUME NEW e \in EngineState, NEW m, NEW l, NEW n, NEW names
  PROVE  /\ LET d == [e EXCEPT !.mode = m] IN
              d.mode = m /\ d.last = e.last /\ d.markers = e.markers /\ d.names = e.names
         /\ LET d == [e EXCEPT !.last = l] IN
              d.mode = e.mode /\ d.last = l /\ d.markers = e.markers /\ d.names = e.names
         /\ LET d == [e EXCEPT !.mode = m, !.last = l] IN
              d.mode = m /\ d.last = l /\ d.markers = e.markers /\ d.names = e.names
         /\ LET d == [e EXCEPT !.markers = n, !.last = l] IN
              d.mode = e.mode /\ d.last = l /\ d.markers = n /\ d.names = e.names
         /\ LET d == [e EXCEPT !.names = names, !.last = l] IN
              d.mode = e.mode /\ d.last = l /\ d.markers = e.markers /\ d.names = names
  BY DEF EngineState

LEMMA ReadSqlType ==
  ASSUME NEW e \in EngineState, NEW c \in Char
  PROVE  ReadsSql(e, c) \in EngineState
<1>1. {"line", "block", "quoted"} \subseteq Modes /\ ClosingQuote(c) \in Char /\ "" \in Char
  BY DEF Modes, ClosingQuote, Char
<1>2. e.markers + 1 \in Nat
  BY DEF EngineState
<1>3. \/ ReadsSql(e, c) = [e EXCEPT !.mode = "line", !.last = ""]
      \/ ReadsSql(e, c) = [e EXCEPT !.mode = "block", !.last = ""]
      \/ ReadsSql(e, c) = [e EXCEPT !.mode = "quoted", !.last = ClosingQuote(c)]
      \/ ReadsSql(e, c) = [e EXCEPT !.markers = e.markers + 1, !.last = c]
      \/ ReadsSql(e, c) = [e EXCEPT !.names = IF e.last = ":" THEN e.names \union {c} ELSE e.names, !.last = c]
  <2>1. CASE c = "?"
    BY <2>1 DEF ReadsSql, IdentifierQuotes
  <2>2. CASE c \in IdentifierQuotes \union {"'"}
    BY <2>2 DEF ReadsSql, IdentifierQuotes
  <2>3. CASE c # "?" /\ c \notin IdentifierQuotes \union {"'"}
    BY <2>3 DEF ReadsSql
  <2> QED
    BY <2>1, <2>2, <2>3
<1>4. ASSUME NEW m \in {"line", "block"} PROVE [e EXCEPT !.mode = m, !.last = ""] \in EngineState
  BY <1>1, Updates
<1>5. [e EXCEPT !.mode = "quoted", !.last = ClosingQuote(c)] \in EngineState
  BY <1>1, Updates
<1>6. [e EXCEPT !.markers = e.markers + 1, !.last = c] \in EngineState
  BY <1>2, Updates
<1>7. [e EXCEPT !.names = IF e.last = ":" THEN e.names \union {c} ELSE e.names, !.last = c] \in EngineState
  <2>1. (IF e.last = ":" THEN e.names \union {c} ELSE e.names) \in SUBSET Char
    BY DEF EngineState
  <2> QED
    BY <2>1, Updates
<1> QED
  BY <1>3, <1>4, <1>5, <1>6, <1>7

LEMMA ReadType ==
  ASSUME NEW e \in EngineState, NEW c \in Char
  PROVE  Read(e, c) \in EngineState
<1>1. {"sql", "quoted", "maybe-closed"} \subseteq Modes /\ "" \in Char
  BY DEF Modes, Char
<1>2. [e EXCEPT !.mode = "sql", !.last = ""] \in EngineState
  BY <1>1, Updates
<1>3. \/ Read(e, c) = ReadsSql(e, c) \/ Read(e, c) = e
      \/ Read(e, c) = ReadsSql([e EXCEPT !.mode = "sql", !.last = ""], c)
      \/ \E m \in {"sql", "quoted", "maybe-closed"} : Read(e, c) = [e EXCEPT !.mode = m]
      \/ Read(e, c) = [e EXCEPT !.mode = "sql", !.last = ""]
      \/ Read(e, c) = [e EXCEPT !.last = c]
  BY DEF Read, EngineState, Modes
<1>4. ASSUME NEW m \in {"sql", "quoted", "maybe-closed"} PROVE [e EXCEPT !.mode = m] \in EngineState
  BY <1>1, Updates
<1>5. [e EXCEPT !.last = c] \in EngineState
  BY Updates
<1> QED
  BY <1>2, <1>3, <1>4, <1>5, ReadSqlType

\* Reading goes on in SQL from a quoted text that turns out to be closed.
LEMMA ReadFrom ==
  ASSUME NEW e \in EngineState, NEW c, InSql(e, c)
  PROVE  \E d \in EngineState :
           /\ Read(e, c) = ReadsSql(d, c)
           /\ d.mode = "sql" /\ d.markers = e.markers /\ d.names = e.names
           /\ ~(d.last = "-" /\ c = "-") /\ ~(d.last = "/" /\ c = "*")
           /\ d.last = ":" <=> ~NoName(e)
<1>1. CASE e.mode = "sql"
  BY <1>1 DEF Read, InSql, NoName
<1>2. CASE e.mode = "maybe-closed"
  <2> DEFINE d == [e EXCEPT !.mode = "sql", !.last = ""]
  <2>1. d \in EngineState
    <3>1. "sql" \in Modes /\ "" \in Char
      BY DEF Modes, Char
    <3> QED
      BY <3>1, Updates
  <2>2. d.mode = "sql" /\ d.last = "" /\ d.markers = e.markers /\ d.names = e.names
    BY Fields
  <2>3. Read(e, c) = ReadsSql(d, c)
    BY <1>2 DEF Read, InSql
  <2> HIDE DEF d
  <2> QED
    BY <1>2, <2>1, <2>2, <2>3 DEF NoName
<1> QED
  BY <1>1, <1>2 DEF InSql

\* A character that is no quote, in SQL: it becomes the last one.
LEMMA ReadInSql ==
  ASSUME NEW e \in EngineState, NEW c \in Char, InSql(e, c), c \notin {"'", "quot", "["}
  PROVE  /\ Read(e, c).mode = "sql" /\ Read(e, c).last = c
         /\ Read(e, c).markers = IF c = "?" THEN e.markers + 1 ELSE e.markers
         /\ c = "?" \/ NoName(e) => Read(e, c).names = e.names
         /\ c # "?" /\ ~NoName(e) => Read(e, c).names = e.names \union {c}
<1>1. PICK d \in EngineState :
           /\ Read(e, c) = ReadsSql(d, c)
           /\ d.mode = "sql" /\ d.markers = e.markers /\ d.names = e.names
           /\ ~(d.last = "-" /\ c = "-") /\ ~(d.last = "/" /\ c = "*")
           /\ d.last = ":" <=> ~NoName(e)
  BY ReadFrom
<1>3. CASE c = "?"
  <2>1. Read(e, c) = [d EXCEPT !.markers = d.markers + 1, !.last = c]
    <3>1. ~(d.last = "-" /\ c = "-") /\ ~(d.last = "/" /\ c = "*") /\ c \notin IdentifierQuotes \union {"'"}
      BY <1>1 DEF IdentifierQuotes
    <3> QED
      BY <1>1, <1>3, <3>1 DEF ReadsSql
  <2> QED
    <3>1. LET r == [d EXCEPT !.markers = d.markers + 1, !.last = c]
          IN r.mode = d.mode /\ r.last = c /\ r.markers = d.markers + 1 /\ r.names = d.names
      BY Fields
    <3> QED
      BY <1>1, <1>3, <2>1, <3>1
<1>4. CASE c # "?"
  <2>1. Read(e, c) = [d EXCEPT !.names = IF d.last = ":" THEN d.names \union {c} ELSE d.names, !.last = c]
    <3>1. ~(d.last = "-" /\ c = "-") /\ ~(d.last = "/" /\ c = "*") /\ c \notin IdentifierQuotes \union {"'"}
      BY <1>1 DEF IdentifierQuotes
    <3> QED
      BY <1>1, <1>4, <3>1 DEF ReadsSql
  <2> QED
    BY <1>1, <1>4, <2>1, Fields
<1> QED
  BY <1>3, <1>4

LEMMA OpenQuoteRead ==
  ASSUME NEW e \in EngineState, NEW c \in {"'", "quot", "["}, InSql(e, c)
  PROVE  /\ Read(e, c).mode = "quoted" /\ Read(e, c).last = ClosingQuote(c)
         /\ Read(e, c).markers = e.markers /\ Read(e, c).names = e.names
<1>1. PICK d \in EngineState :
           /\ Read(e, c) = ReadsSql(d, c)
           /\ d.mode = "sql" /\ d.markers = e.markers /\ d.names = e.names
           /\ ~(d.last = "-" /\ c = "-") /\ ~(d.last = "/" /\ c = "*")
           /\ d.last = ":" <=> ~NoName(e)
  BY ReadFrom
<1>2. Read(e, c) = [d EXCEPT !.mode = "quoted", !.last = ClosingQuote(c)]
  <2>1. ~(d.last = "-" /\ c = "-") /\ ~(d.last = "/" /\ c = "*") /\ c \in IdentifierQuotes \union {"'"}
    BY DEF IdentifierQuotes
  <2> QED
    BY <1>1, <2>1 DEF ReadsSql
<1> QED
  BY <1>1, <1>2, Fields

CommentOpened(r, e, mode) ==
  /\ r.mode = mode /\ r.last = "" /\ r.markers = e.markers
  /\ NoName(e) => r.names = e.names

LEMMA OpenCommentRead ==
  ASSUME NEW e \in EngineState
  PROVE  /\ InSql(e, "-") => CommentOpened(Read(Read(e, "-"), "-"), e, "line")
         /\ InSql(e, "/") => CommentOpened(Read(Read(e, "/"), "*"), e, "block")
<1>1. ASSUME NEW c \in {"-", "/"}, InSql(e, c)
      PROVE  LET d == Read(e, c) IN
             /\ d \in EngineState /\ d.mode = "sql" /\ d.last = c /\ d.markers = e.markers
             /\ NoName(e) => d.names = e.names
  <2>1. c \in Char /\ c \notin {"'", "quot", "[", "?"}
    BY DEF Char
  <2> QED
    BY <1>1, <2>1, ReadInSql, ReadType
<1>3. ASSUME InSql(e, "-") PROVE CommentOpened(Read(Read(e, "-"), "-"), e, "line")
  <2> DEFINE d == Read(e, "-")
  <2>1. /\ d \in EngineState /\ d.mode = "sql" /\ d.last = "-" /\ d.markers = e.markers
        /\ NoName(e) => d.names = e.names
    BY <1>1, <1>3
  <2> HIDE DEF d
  <2> DEFINE r == Read(d, "-")
  <2>2. r = [d EXCEPT !.mode = "line", !.last = ""]
    BY <2>1 DEF Read, ReadsSql, IdentifierQuotes
  <2> HIDE DEF r
  <2>3. r.mode = "line" /\ r.last = "" /\ r.markers = d.markers /\ r.names = d.names
    <3>1. LET s == [d EXCEPT !.mode = "line", !.last = ""]
          IN s.mode = "line" /\ s.last = "" /\ s.markers = d.markers /\ s.names = d.names
      BY <2>1, Fields
    <3> QED
      BY <2>2, <3>1
  <2>4. CommentOpened(r, e, "line")
    BY <2>1, <2>3 DEF CommentOpened
  <2> QED
    BY <2>4 DEF d, r
<1>4. ASSUME InSql(e, "/") PROVE CommentOpened(Read(Read(e, "/"), "*"), e, "block")
  <2> DEFINE d == Read(e, "/")
  <2>1. /\ d \in EngineState /\ d.mode = "sql" /\ d.last = "/" /\ d.markers = e.markers
        /\ NoName(e) => d.names = e.names
    BY <1>1, <1>4
  <2> HIDE DEF d
  <2> DEFINE r == Read(d, "*")
  <2>2. r = [d EXCEPT !.mode = "block", !.last = ""]
    BY <2>1 DEF Read, ReadsSql, IdentifierQuotes
  <2> HIDE DEF r
  <2>3. r.mode = "block" /\ r.last = "" /\ r.markers = d.markers /\ r.names = d.names
    <3>1. LET s == [d EXCEPT !.mode = "block", !.last = ""]
          IN s.mode = "block" /\ s.last = "" /\ s.markers = d.markers /\ s.names = d.names
      BY <2>1, Fields
    <3> QED
      BY <2>2, <3>1
  <2>4. CommentOpened(r, e, "block")
    BY <2>1, <2>3 DEF CommentOpened
  <2> QED
    BY <2>4 DEF d, r
<1> QED
  BY <1>3, <1>4

\* What only looks like a placeholder leaves the engine in SQL.
LEMMA InertRun ==
  ASSUME NEW s \in Seq(Char), NEW t \in Seq(Inert), t # <<>>,
         ReadAll(s) \in EngineState, InSql(ReadAll(s), "%"), t[1] = "%"
  PROVE  LET e == ReadAll(s)
             r == ReadAll(s \o t)
         IN /\ r \in EngineState /\ r.mode = "sql" /\ r.last \in Inert
            /\ r.markers = e.markers
            /\ NoName(e) => r.names = e.names
<1> DEFINE e == ReadAll(s)
           r(k) == ReadAll(s \o SubSeq(t, 1, k))
           P(k) == /\ r(k) \in EngineState
                   /\ r(k).markers = e.markers
                   /\ NoName(e) => r(k).names = e.names
                   /\ IF k = 0 THEN r(k) = e ELSE r(k).mode = "sql" /\ r(k).last \in Inert
           S == {k \in Nat : P(k)}
<1>0. Inert \subseteq Char /\ t \in Seq(Char) /\ Len(t) \in Nat \ {0}
  <2>1. Inert \subseteq Char
    BY DEF Inert, Char
  <2>2. t \in Seq(Char)
    BY <2>1, SeqMonotonic
  <2> QED
    BY <2>1, <2>2, EmptySeq
<1>1. s \o SubSeq(t, 1, 0) = s
  BY <1>0
<1>2. P(0)
  BY <1>1
<1>3. ASSUME NEW k \in 0..(Len(t) - 1), P(k) PROVE P(k + 1)
  <2>0. k \in Nat /\ k + 1 \in 1..Len(t) /\ t[k + 1] \in Inert
    BY <1>0
  <2>1. s \o SubSeq(t, 1, k + 1) = (s \o SubSeq(t, 1, k)) \o <<t[k + 1]>>
    <3>1. SubSeq(t, 1, k + 1) = SubSeq(t, 1, k) \o <<t[k + 1]>>
      BY <1>0, <2>0, SubSeqRecursiveSecond
    <3>2. SubSeq(t, 1, k) \in Seq(Char) /\ <<t[k + 1]>> \in Seq(Char)
      BY <1>0, <2>0
    <3> QED
      BY <3>1, <3>2, ConcatAssociative
  <2>2. s \o SubSeq(t, 1, k) \in Seq(Char) /\ t[k + 1] \in Char
    BY <1>0, <2>0
  <2>3. r(k + 1) = Read(r(k), t[k + 1])
    BY <2>1, <2>2, ReadAppend
  <2> DEFINE d == r(k)
  <2>4. InSql(d, t[k + 1]) /\ d \in EngineState /\ d.markers = e.markers
    BY <1>3, <2>0 DEF InSql, Inert
  <2>5. NoName(e) => NoName(d) /\ d.names = e.names
    BY <1>3 DEF NoName, Inert
  <2>6. r(k + 1) = Read(d, t[k + 1])
    BY <2>3
  <2> HIDE DEF r, d
  <2>7. t[k + 1] \notin {"'", "quot", "[", "?"}
    BY <2>0 DEF Inert
  <2> QED
    BY <2>0, <2>2, <2>4, <2>5, <2>6, <2>7, ReadInSql, ReadType
<1> HIDE DEF P
<1>4. 0 \in S /\ \A k \in 0..(Len(t) - 1) : k \in S => k + 1 \in S
  BY <1>2, <1>3
<1> HIDE DEF S
<1>5. Len(t) \in S
  <2>1. \A k \in 0..Len(t) : k \in S
    BY <1>0, <1>4, Induction
  <2> QED
    BY <1>0, <2>1
<1>6. P(Len(t))
  BY <1>5 DEF S
<1>7. SubSeq(t, 1, Len(t)) = t
  BY <1>0
<1> QED
  BY <1>0, <1>6, <1>7 DEF P

\* The end of an identifier in brackets, and another quote, which may be doubled.
LEMMA BracketRead ==
  ASSUME NEW e \in EngineState, e.mode = "quoted", e.last = "]"
  PROVE  LET r == Read(e, "]") IN
           r.mode = "sql" /\ r.last = "" /\ r.markers = e.markers /\ r.names = e.names
<1>1. Read(e, "]") = [e EXCEPT !.mode = "sql", !.last = ""]
  BY DEF Read
<1>2. LET r == [e EXCEPT !.mode = "sql", !.last = ""]
      IN r.mode = "sql" /\ r.last = "" /\ r.markers = e.markers /\ r.names = e.names
  BY Fields
<1> QED
  BY <1>1, <1>2

LEMMA QuoteRead ==
  ASSUME NEW e \in EngineState, NEW c, e.mode = "quoted", e.last = c, c # "]"
  PROVE  /\ LET r == Read(e, c) IN
              r.mode = "maybe-closed" /\ r.last = c /\ r.markers = e.markers /\ r.names = e.names
         /\ LET r == Read(Read(e, c), c) IN
              r.mode = "quoted" /\ r.last = c /\ r.markers = e.markers /\ r.names = e.names
<1> DEFINE r == Read(e, c)
<1>1. r = [e EXCEPT !.mode = "maybe-closed"]
  BY DEF Read
<1>2. r.mode = "maybe-closed" /\ r.last = c /\ r.markers = e.markers /\ r.names = e.names
  BY <1>1, Fields
<1>3. r \in EngineState
  <2>1. "maybe-closed" \in Modes
    BY DEF Modes
  <2> QED
    BY <1>1, <2>1, Updates
<1> HIDE DEF r
<1>4. Read(r, c) = [r EXCEPT !.mode = "quoted"]
  BY <1>2 DEF Read
<1>5. LET q == Read(r, c) IN q.mode = "quoted" /\ q.last = c /\ q.markers = r.markers /\ q.names = r.names
  BY <1>2, <1>3, <1>4, Fields
<1> QED
  BY <1>2, <1>5 DEF r

LEMMA InQuotes ==
  ASSUME NEW e, NEW c, e.mode = "quoted", c # e.last
  PROVE  Read(e, c) = e
  BY DEF Read

LEMMA LineRead ==
  ASSUME NEW e \in EngineState, NEW c, e.mode = "line"
  PROVE  LET r == Read(e, c) IN
           /\ r.mode = IF c = "eol" THEN "sql" ELSE "line"
           /\ r.last = e.last /\ r.markers = e.markers /\ r.names = e.names
<1>1. CASE c = "eol"
  <2>1. Read(e, c) = [e EXCEPT !.mode = "sql"]
    BY <1>1 DEF Read
  <2>2. LET r == [e EXCEPT !.mode = "sql"]
        IN r.mode = "sql" /\ r.last = e.last /\ r.markers = e.markers /\ r.names = e.names
    BY Fields
  <2> QED
    BY <1>1, <2>1, <2>2
<1>2. CASE c # "eol"
  BY <1>2 DEF Read
<1> QED
  BY <1>1, <1>2

LEMMA BlockRead ==
  ASSUME NEW e \in EngineState, NEW c, e.mode = "block"
  PROVE  LET r == Read(e, c) IN
           /\ r.markers = e.markers /\ r.names = e.names
           /\ IF e.last = "*" /\ c = "/" THEN r.mode = "sql" /\ r.last = "" ELSE r.mode = "block" /\ r.last = c
<1>1. CASE e.last = "*" /\ c = "/"
  <2>1. Read(e, c) = [e EXCEPT !.mode = "sql", !.last = ""]
    BY <1>1 DEF Read
  <2>2. LET r == [e EXCEPT !.mode = "sql", !.last = ""]
        IN r.mode = "sql" /\ r.last = "" /\ r.markers = e.markers /\ r.names = e.names
    BY Fields
  <2> QED
    BY <1>1, <2>1, <2>2
<1>2. CASE ~(e.last = "*" /\ c = "/")
  <2>1. Read(e, c) = [e EXCEPT !.last = c]
    BY <1>2 DEF Read
  <2>2. LET r == [e EXCEPT !.last = c] IN r.mode = e.mode /\ r.last = c /\ r.markers = e.markers /\ r.names = e.names
    BY Fields
  <2> QED
    BY <1>2, <2>1, <2>2
<1> QED
  BY <1>1, <1>2
--------------------------------------------------------------------------------
(* The scanner.                                                                *)

Texts == query \in Seq(Char) /\ converted \in Seq(Char) /\ Engine \in EngineState

\* A scan that has not begun.
IdleScan == outcome = "idle" => InitScan

\* The scanner and the engine agree on where in the text they are.
Agrees ==
  /\ state = "sql" => InSql(Engine, character)
  /\ state = "line-comment" => Engine.mode = "line" /\ Engine.last = ""
  /\ state = "block-comment" => Engine.mode = "block" /\ ~(Engine.last = "*" /\ character = "/")
  /\ state = "literal" => Engine.mode = "quoted" /\ Engine.last = "'"
  /\ state = "identifier" =>
       Engine.mode = "quoted" /\ Engine.last = closing_quote /\ closing_quote \in {"quot", "]"}

\* And on the markers in it, unless the query has some of its own.
Counts ==
  outcome \in {"scanning", "converted"} /\ ~native_bindings =>
    Engine.markers = positional_count /\ Engine.names \subseteq required_names /\ NoName(Engine)

ScanInv ==
  /\ ScanTypeOK /\ Texts
  /\ IdleScan
  /\ outcome = "scanning" => HasPlainNames /\ Agrees
  /\ Counts
  /\ IF named THEN positional_count = 0 ELSE required_names = {}

LEMMA EngineIs == Engine = ReadAll(converted) /\ Engine' = ReadAll(converted')
  BY DEF Engine, ReadAll

\* Characters that the scanner sees are there.
LEMMA InText ==
  ASSUME ScanTypeOK, Texts
  PROVE  /\ index \in Nat /\ Len(query) \in Nat /\ DOMAIN query = 1..Len(query)
         /\ \A i : At(i) \in Char
         /\ \A i : At(i) # "" => i \in 1..Len(query)
         /\ \A i \in 1..Len(query) : At(i) = query[i]
<1>1. Len(query) \in Nat /\ DOMAIN query = 1..Len(query) /\ \A i \in 1..Len(query) : query[i] \in Char
  BY DEF Texts
<1>2. index \in Nat
  <2>1. index \in 1..(Len(query) + 1)
    BY DEF ScanTypeOK
  <2> QED
    BY <1>1, <2>1
<1>3. "" \in Char
  BY DEF Char
<1> QED
  BY <1>1, <1>2, <1>3 DEF At

LEMMA Pieces ==
  ASSUME NEW S, NEW s \in Seq(S), NEW i \in 1..Len(s)
  PROVE  /\ SubSeq(s, i, i) = <<s[i]>>
         /\ i + 1 \in 1..Len(s) => SubSeq(s, i, i + 1) = <<s[i]>> \o <<s[i + 1]>>
<1>1. ASSUME NEW j \in 1..Len(s) PROVE SubSeq(s, j, j) = <<s[j]>>
  <2>1. s[j] \in S /\ j \in j..Len(s) /\ j \in Int /\ j + 1 \in Int /\ j < j + 1
    OBVIOUS
  <2>2. SubSeq(s, j, j) = <<s[j]>> \o SubSeq(s, j + 1, j)
    BY <2>1, SubSeqRecursiveFirst
  <2>3. SubSeq(s, j + 1, j) = <<>>
    BY <2>1, SubSeqEmpty
  <2>4. <<s[j]>> \in Seq(S)
    BY <2>1
  <2> QED
    BY <2>2, <2>3, <2>4, ConcatEmptySeq
<1>2. ASSUME i + 1 \in 1..Len(s) PROVE SubSeq(s, i, i + 1) = <<s[i]>> \o <<s[i + 1]>>
  <2>1. i + 1 \in i..Len(s)
    BY <1>2
  <2>2. SubSeq(s, i, i + 1) = <<s[i]>> \o SubSeq(s, i + 1, i + 1)
    BY <2>1, SubSeqRecursiveFirst
  <2> QED
    BY <1>1, <1>2, <2>2
<1> QED
  BY <1>1, <1>2

LEMMA KeepReads ==
  ASSUME ScanTypeOK, Texts, index <= Len(query)
  PROVE  /\ Keep(1) => /\ Texts' /\ Engine' = Read(Engine, character)
                       /\ index' = index + 1 /\ index' \in 1..(Len(query) + 1) /\ character' = following
         /\ following # "" /\ Keep(2) =>
              /\ Texts' /\ Engine' = Read(Read(Engine, character), following)
              /\ index' = index + 2 /\ index' \in 1..(Len(query) + 1)
<1>1. index \in 1..Len(query) /\ index \in Nat /\ character = query[index] /\ character \in Char
  <2>1. index \in 1..(Len(query) + 1)
    BY DEF ScanTypeOK
  <2>2. /\ Len(query) \in Nat /\ index \in Nat /\ At(index) \in Char
        /\ index \in 1..Len(query) => At(index) = query[index]
    BY InText
  <2>3. index \in 1..Len(query)
    BY <2>1, <2>2
  <2> QED
    BY <2>2, <2>3 DEF character
<1>2. ASSUME Keep(1) PROVE Texts' /\ Engine' = Read(Engine, character)
  <2>1. SubSeq(query, index, index + 1 - 1) = <<character>>
    <3>1. index + 1 - 1 = index
      BY <1>1
    <3>2. SubSeq(query, index, index) = <<query[index]>>
      BY <1>1, Pieces DEF Texts
    <3> QED
      BY <1>1, <3>1, <3>2
  <2>2. converted' = converted \o <<character>> /\ query' = query
    BY <1>2, <2>1 DEF Keep, source
  <2>3. Engine' = Read(Engine, character)
    BY <1>1, <2>2, ReadAppend, EngineIs DEF Texts
  <2> QED
    BY <1>1, <2>2, <2>3, ReadType DEF Texts
<1>3. ASSUME Keep(2), following # "" PROVE Texts' /\ Engine' = Read(Read(Engine, character), following) /\ index + 1 \in 1..Len(query)
  <2>1. index + 1 \in 1..Len(query) /\ following = query[index + 1] /\ following \in Char
    BY <1>3, InText DEF following
  <2>2. SubSeq(query, index, index + 2 - 1) = <<character>> \o <<following>>
    <3>1. index + 2 - 1 = index + 1 /\ SubSeq(query, index, index + 1) = <<query[index]>> \o <<query[index + 1]>>
      BY <1>1, <2>1, Pieces DEF Texts
    <3> QED
      BY <1>1, <2>1, <3>1
  <2>3. converted' = (converted \o <<character>>) \o <<following>> /\ query' = query
    <3>1. converted' = converted \o (<<character>> \o <<following>>) /\ query' = query
      BY <1>3, <2>2 DEF Keep, source
    <3>2. <<character>> \in Seq(Char) /\ <<following>> \in Seq(Char) /\ converted \in Seq(Char)
      BY <1>1, <2>1 DEF Texts
    <3> QED
      BY <3>1, <3>2, ConcatAssociative
  <2>4. converted \o <<character>> \in Seq(Char)
    BY <1>1 DEF Texts
  <2>5. Engine' = Read(Read(Engine, character), following)
    BY <1>1, <2>1, <2>3, <2>4, ReadAppend, EngineIs DEF Texts
  <2> QED
    BY <1>1, <2>1, <2>3, <2>4, <2>5, ReadType DEF Texts
<1>4. ASSUME Keep(1) PROVE index' = index + 1 /\ character' = following
  BY <1>4 DEF Keep, character, following, At, source
<1>5. ASSUME Keep(2) PROVE index' = index + 2
  BY <1>5 DEF Keep
<1>6. Len(query) \in Nat /\ index + 1 \in 1..(Len(query) + 1)
  <2>1. Len(query) \in Nat
    BY InText
  <2> QED
    BY <1>1, <2>1
<1>7. index + 1 \in 1..Len(query) => index + 2 \in 1..(Len(query) + 1)
  BY <1>1, <1>6
<1> QED
  BY <1>2, <1>3, <1>4, <1>5, <1>6, <1>7

\* Where a placeholder ends, or what only looks like one.
LEMMA EndIs ==
  ASSUME ScanTypeOK, Texts, index <= Len(query), following = "("
  PROVE  LET end == PlaceholderEnd(index) IN
           /\ end \in (index + 2)..(Len(query) + 1)
           /\ end = Len(query) + 1 \/ At(end) = ")" \/ At(end) = "%"
<1> DEFINE E(j) == j = Len(query) + 1 \/ At(j) = ")" \/ (At(j) = "%" /\ At(j + 1) = "(")
           R == (index + 2)..(Len(query) + 1)
           T == {j \in R : E(j)}
<1>1. index \in Nat /\ Len(query) \in Nat /\ index + 1 \in 1..Len(query)
  BY InText DEF following
<1>2. R \subseteq Nat /\ Len(query) + 1 \in R /\ \A k \in Nat : k \in R <=> index + 2 <= k /\ k <= Len(query) + 1
  BY <1>1
<1>3. T \subseteq Nat /\ T # {}
  BY <1>2
<1>4. PICK m \in T : \A k \in T : m <= k
  BY <1>3, LeastNumber
<1>5. ASSUME NEW k \in (index + 2)..(m - 1) PROVE ~E(k)
  <2>1. m \in Nat /\ index + 2 <= m /\ m <= Len(query) + 1
    BY <1>2
  <2>2. k \in Nat /\ k \in R /\ ~(m <= k)
    BY <1>1, <1>2, <2>1
  <2>3. k \notin T
    BY <1>4, <2>2
  <2> QED
    BY <2>2, <2>3
<1>6. \A k \in (index + 2)..(m - 1) : At(k) # ")" /\ ~(At(k) = "%" /\ At(k + 1) = "(")
  BY <1>5
<1>7. m \in R /\ E(m)
  OBVIOUS
<1> HIDE DEF T
<1>8. \E j \in R : E(j) /\ \A k \in (index + 2)..(j - 1) : At(k) # ")" /\ ~(At(k) = "%" /\ At(k + 1) = "(")
  BY <1>6, <1>7
<1>9. PlaceholderEnd(index) = CHOOSE j \in R : E(j) /\ \A k \in (index + 2)..(j - 1) : At(k) # ")" /\ ~(At(k) = "%" /\ At(k + 1) = "(")
  BY DEF PlaceholderEnd
<1>10. PlaceholderEnd(index) \in R /\ E(PlaceholderEnd(index))
  BY <1>8, <1>9
<1> QED
  BY <1>10

LEMMA ReplaceReads ==
  ASSUME Texts, NEW c \in Char, converted' = converted \o <<c>>, query' = query
  PROVE  Texts' /\ Engine' = Read(Engine, c)
<1>1. Engine' = Read(Engine, c)
  BY ReadAppend, EngineIs DEF Texts
<1> QED
  BY <1>1, ReadType DEF Texts

\* The rest of the scanner's state keeps its types.
LEMMA ScanTypeKept ==
  ASSUME ScanTypeOK, UNCHANGED <<source, outcome>>, index' \in 1..(Len(query) + 1),
         state' \in States, closing_quote' \in {"", "]"} \union IdentifierQuotes,
         positional_count' \in Nat, required_names' \subseteq Names, native_bindings' \in BOOLEAN
  PROVE  ScanTypeOK'
<1>1. query' = query /\ named' = named /\ param_names' = param_names /\ outcome' = outcome
  BY DEF source
<1> QED
  BY <1>1 DEF ScanTypeOK

LEMMA PlainNamesKept ==
  ASSUME UNCHANGED source
  PROVE  HasPlainNames' = HasPlainNames
  BY DEF source, HasPlainNames, PlaceholderEnd, At

\* A turn of the loop that keeps the scanner's counts, as the engine's.
LEMMA SameCounts ==
  ASSUME ScanInv, outcome = "scanning", UNCHANGED <<source, outcome, bindings>>,
         index' \in 1..(Len(query) + 1), state' \in States,
         closing_quote' \in {"", "]"} \union IdentifierQuotes, Texts', Agrees',
         Engine'.markers = Engine.markers,
         NoName(Engine) => NoName(Engine') /\ Engine'.names = Engine.names
  PROVE  ScanInv'
<1>1. named' = named /\ outcome' = outcome
  BY DEF source
<1>2. positional_count' = positional_count /\ required_names' = required_names /\ native_bindings' = native_bindings
  BY DEF bindings
<1>3. ScanTypeOK'
  BY <1>2, ScanTypeKept DEF ScanInv, ScanTypeOK
<1>4. HasPlainNames'
  BY PlainNamesKept DEF ScanInv
<1>5. Counts'
  BY <1>1, <1>2 DEF ScanInv, Counts
<1> QED
  BY <1>1, <1>2, <1>3, <1>4, <1>5 DEF ScanInv, IdleScan

LEMMA LineCommentStep ==
  ASSUME ScanInv, InLineComment
  PROVE  ScanInv'
<1>1. /\ outcome = "scanning" /\ index <= Len(query) /\ state = "line-comment" /\ Keep(1)
      /\ state' = (IF character = "eol" THEN "sql" ELSE state)
      /\ closing_quote' = closing_quote /\ UNCHANGED bindings /\ UNCHANGED <<source, outcome>>
  BY DEF InLineComment, Reads, Keep
<1>2. ScanTypeOK /\ Texts /\ Agrees
  BY <1>1 DEF ScanInv
<1>3. Texts' /\ Engine' = Read(Engine, character) /\ index' \in 1..(Len(query) + 1)
  BY <1>1, <1>2, KeepReads
<1>4. /\ Engine \in EngineState /\ Engine.mode = "line" /\ Engine.last = ""
  BY <1>1, <1>2 DEF Agrees, Texts
<1>5. /\ Engine'.mode = IF character = "eol" THEN "sql" ELSE "line"
      /\ Engine'.last = "" /\ Engine'.markers = Engine.markers /\ Engine'.names = Engine.names
  BY <1>3, <1>4, LineRead
<1>6. Agrees'
  BY <1>1, <1>5 DEF Agrees, InSql
<1>7. state' \in States /\ closing_quote' \in {"", "]"} \union IdentifierQuotes
  BY <1>1, <1>2 DEF ScanTypeOK, States
<1>8. NoName(Engine')
  BY <1>5 DEF NoName
<1> QED
  BY <1>1, <1>3, <1>5, <1>6, <1>7, <1>8, SameCounts

LEMMA BlockCommentStep ==
  ASSUME ScanInv, InBlockComment
  PROVE  ScanInv'
<1>1. /\ outcome = "scanning" /\ index <= Len(query) /\ state = "block-comment"
      /\ IF character = "*" /\ following = "/" THEN Keep(2) /\ state' = "sql" ELSE Keep(1) /\ UNCHANGED state
      /\ closing_quote' = closing_quote /\ UNCHANGED bindings /\ UNCHANGED <<source, outcome>>
  BY DEF InBlockComment, Reads, Keep
<1>2. ScanTypeOK /\ Texts /\ Agrees
  BY <1>1 DEF ScanInv
<1>3. Engine \in EngineState /\ Engine.mode = "block" /\ ~(Engine.last = "*" /\ character = "/")
  BY <1>1, <1>2 DEF Agrees, Texts
<1>4. LET r == Read(Engine, character)
      IN r \in EngineState /\ r.mode = "block" /\ r.last = character /\ r.markers = Engine.markers /\ r.names = Engine.names
  <2>1. character \in Char
    BY <1>2, InText DEF character
  <2>2. Read(Engine, character) \in EngineState
    BY <1>3, <2>1, ReadType
  <2>3. LET r == Read(Engine, character) IN
          /\ r.markers = Engine.markers /\ r.names = Engine.names
          /\ IF Engine.last = "*" /\ character = "/" THEN r.mode = "sql" /\ r.last = ""
             ELSE r.mode = "block" /\ r.last = character
    BY <1>3, BlockRead
  <2> QED
    BY <1>3, <2>2, <2>3
<1>5. /\ Texts' /\ index' \in 1..(Len(query) + 1) /\ Agrees' /\ state' \in States
      /\ Engine'.markers = Engine.markers /\ Engine'.names = Engine.names /\ NoName(Engine')
  <2>1. CASE character = "*" /\ following = "/"
    <3>1. Texts' /\ Engine' = Read(Read(Engine, character), following) /\ index' \in 1..(Len(query) + 1)
      BY <1>1, <1>2, <2>1, KeepReads
    <3>2. Engine'.mode = "sql" /\ Engine'.last = "" /\ Engine'.markers = Engine.markers /\ Engine'.names = Engine.names
      BY <1>4, <2>1, <3>1, BlockRead
    <3>3. state' = "sql"
      BY <1>1, <2>1
    <3> QED
      BY <3>1, <3>2, <3>3 DEF Agrees, InSql, States, NoName
  <2>2. CASE ~(character = "*" /\ following = "/")
    <3>1. Texts' /\ Engine' = Read(Engine, character) /\ index' \in 1..(Len(query) + 1) /\ character' = following
      BY <1>1, <1>2, <2>2, KeepReads
    <3>2. state' = "block-comment"
      BY <1>1, <2>2
    <3> QED
      BY <1>4, <2>2, <3>1, <3>2 DEF Agrees, States, NoName
  <2> QED
    BY <2>1, <2>2
<1>6. closing_quote' \in {"", "]"} \union IdentifierQuotes
  BY <1>1, <1>2 DEF ScanTypeOK
<1> QED
  BY <1>1, <1>5, <1>6, SameCounts

LEMMA IdentifierStep ==
  ASSUME ScanInv, InIdentifier
  PROVE  ScanInv'
<1>1. /\ outcome = "scanning" /\ index <= Len(query) /\ state = "identifier"
      /\ \/ character # closing_quote /\ Keep(1) /\ UNCHANGED state
         \/ character = closing_quote /\ Doubled /\ Keep(2) /\ UNCHANGED state
         \/ character = closing_quote /\ ~Doubled /\ Keep(1) /\ state' = "sql"
      /\ closing_quote' = closing_quote /\ UNCHANGED bindings /\ UNCHANGED <<source, outcome>>
  BY DEF InIdentifier, Reads, Keep
<1>2. ScanTypeOK /\ Texts /\ Agrees
  BY <1>1 DEF ScanInv
<1>3. Engine \in EngineState /\ Engine.mode = "quoted" /\ Engine.last = closing_quote /\ closing_quote \in {"quot", "]"}
  BY <1>1, <1>2 DEF Agrees, Texts
<1>4. /\ Texts' /\ index' \in 1..(Len(query) + 1) /\ Agrees' /\ state' \in States
      /\ Engine'.markers = Engine.markers /\ Engine'.names = Engine.names /\ NoName(Engine')
  <2>1. CASE character # closing_quote /\ Keep(1) /\ UNCHANGED state
    <3>1. Texts' /\ Engine' = Read(Engine, character) /\ index' \in 1..(Len(query) + 1)
      BY <1>1, <1>2, <2>1, KeepReads
    <3>2. Engine' = Engine
      BY <1>3, <2>1, <3>1, InQuotes
    <3> QED
      BY <1>1, <1>3, <2>1, <3>1, <3>2 DEF Agrees, States, NoName
  <2>2. CASE character = closing_quote /\ Doubled /\ Keep(2) /\ UNCHANGED state
    <3>1. following = closing_quote /\ following # "" /\ closing_quote = "quot"
      BY <1>3, <2>2 DEF Doubled
    <3>2. Texts' /\ Engine' = Read(Read(Engine, character), following) /\ index' \in 1..(Len(query) + 1)
      BY <1>1, <1>2, <2>2, <3>1, KeepReads
    <3>3. Engine'.mode = "quoted" /\ Engine'.last = "quot" /\ Engine'.markers = Engine.markers /\ Engine'.names = Engine.names
      BY <1>3, <2>2, <3>1, <3>2, QuoteRead
    <3> QED
      BY <1>1, <2>2, <3>1, <3>2, <3>3 DEF Agrees, States, NoName
  <2>3. CASE character = closing_quote /\ ~Doubled /\ Keep(1) /\ state' = "sql"
    <3>1. Texts' /\ Engine' = Read(Engine, character) /\ index' \in 1..(Len(query) + 1) /\ character' = following
      BY <1>1, <1>2, <2>3, KeepReads
    <3>2. CASE closing_quote = "]"
      <4>1. Engine'.mode = "sql" /\ Engine'.last = "" /\ Engine'.markers = Engine.markers /\ Engine'.names = Engine.names
        BY <1>3, <2>3, <3>1, <3>2, BracketRead
      <4> QED
        BY <2>3, <3>1, <4>1 DEF Agrees, InSql, States, NoName
    <3>3. CASE closing_quote = "quot"
      <4>1. /\ Engine'.mode = "maybe-closed" /\ Engine'.last = "quot"
            /\ Engine'.markers = Engine.markers /\ Engine'.names = Engine.names
        BY <1>3, <2>3, <3>1, <3>3, QuoteRead
      <4>2. following # "quot"
        BY <2>3, <3>3 DEF Doubled
      <4> QED
        BY <2>3, <3>1, <4>1, <4>2 DEF Agrees, InSql, States, NoName
    <3> QED
      BY <1>3, <3>2, <3>3
  <2> QED
    BY <1>1, <2>1, <2>2, <2>3
<1>5. closing_quote' \in {"", "]"} \union IdentifierQuotes
  BY <1>1, <1>2 DEF ScanTypeOK
<1> QED
  BY <1>1, <1>4, <1>5, SameCounts

LEMMA LiteralStep ==
  ASSUME ScanInv, InLiteral
  PROVE  ScanInv'
<1>1. /\ outcome = "scanning" /\ index <= Len(query) /\ state = "literal"
      /\ \/ character = "'" /\ following = "'" /\ Keep(2) /\ UNCHANGED state
         \/ character = "'" /\ following # "'" /\ Keep(1) /\ state' = "sql"
         \/ character # "'" /\ Keep(1) /\ UNCHANGED state
      /\ closing_quote' = closing_quote /\ UNCHANGED bindings /\ UNCHANGED <<source, outcome>>
  BY DEF InLiteral, Reads, Keep
<1>2. ScanTypeOK /\ Texts /\ Agrees
  BY <1>1 DEF ScanInv
<1>3. Engine \in EngineState /\ Engine.mode = "quoted" /\ Engine.last = "'"
  BY <1>1, <1>2 DEF Agrees, Texts
<1>4. /\ Texts' /\ index' \in 1..(Len(query) + 1) /\ Agrees' /\ state' \in States
      /\ Engine'.markers = Engine.markers /\ Engine'.names = Engine.names /\ NoName(Engine')
  <2>1. CASE character = "'" /\ following = "'" /\ Keep(2) /\ UNCHANGED state
    <3>1. Texts' /\ Engine' = Read(Read(Engine, character), following) /\ index' \in 1..(Len(query) + 1)
      BY <1>1, <1>2, <2>1, KeepReads
    <3>2. Engine'.mode = "quoted" /\ Engine'.last = "'" /\ Engine'.markers = Engine.markers /\ Engine'.names = Engine.names
      BY <1>3, <2>1, <3>1, QuoteRead
    <3> QED
      BY <1>1, <2>1, <3>1, <3>2 DEF Agrees, States, NoName
  <2>2. CASE character = "'" /\ following # "'" /\ Keep(1) /\ state' = "sql"
    <3>1. Texts' /\ Engine' = Read(Engine, character) /\ index' \in 1..(Len(query) + 1) /\ character' = following
      BY <1>1, <1>2, <2>2, KeepReads
    <3>2. /\ Engine'.mode = "maybe-closed" /\ Engine'.last = "'"
          /\ Engine'.markers = Engine.markers /\ Engine'.names = Engine.names
      BY <1>3, <2>2, <3>1, QuoteRead
    <3> QED
      BY <2>2, <3>1, <3>2 DEF Agrees, InSql, States, NoName
  <2>3. CASE character # "'" /\ Keep(1) /\ UNCHANGED state
    <3>1. Texts' /\ Engine' = Read(Engine, character) /\ index' \in 1..(Len(query) + 1)
      BY <1>1, <1>2, <2>3, KeepReads
    <3>2. Engine' = Engine
      BY <1>3, <2>3, <3>1, InQuotes
    <3> QED
      BY <1>1, <1>3, <2>3, <3>1, <3>2 DEF Agrees, States, NoName
  <2> QED
    BY <1>1, <2>1, <2>2, <2>3
<1>5. closing_quote' \in {"", "]"} \union IdentifierQuotes
  BY <1>1, <1>2 DEF ScanTypeOK
<1> QED
  BY <1>1, <1>4, <1>5, SameCounts

LEMMA OpenCommentStep ==
  ASSUME ScanInv, OpenComment
  PROVE  ScanInv'
<1>1. /\ outcome = "scanning" /\ index <= Len(query) /\ state = "sql" /\ Keep(2)
      /\ <<character, following>> \in {<<"-", "-">>, <<"/", "*">>}
      /\ state' = (IF character = "-" THEN "line-comment" ELSE "block-comment")
      /\ closing_quote' = closing_quote /\ UNCHANGED bindings /\ UNCHANGED <<source, outcome>>
  BY DEF OpenComment, OpensComment, Reads, Keep
<1>2. ScanTypeOK /\ Texts /\ Agrees
  BY <1>1 DEF ScanInv
<1>3. Texts' /\ Engine' = Read(Read(Engine, character), following) /\ index' \in 1..(Len(query) + 1)
  <2>1. following # ""
    BY <1>1
  <2> QED
    BY <1>1, <1>2, <2>1, KeepReads
<1>4. Engine \in EngineState /\ InSql(Engine, character)
  BY <1>1, <1>2 DEF Agrees, Texts
<1>5. /\ Engine'.mode = IF character = "-" THEN "line" ELSE "block"
      /\ Engine'.last = "" /\ Engine'.markers = Engine.markers
      /\ NoName(Engine) => Engine'.names = Engine.names
  <2>1. CASE character = "-" /\ following = "-"
    BY <1>3, <1>4, <2>1, OpenCommentRead DEF CommentOpened
  <2>2. CASE character = "/" /\ following = "*"
    BY <1>3, <1>4, <2>2, OpenCommentRead DEF CommentOpened
  <2> QED
    BY <1>1, <2>1, <2>2
<1>6. Agrees'
  BY <1>1, <1>5 DEF Agrees
<1>7. state' \in States /\ closing_quote' \in {"", "]"} \union IdentifierQuotes
  BY <1>1, <1>2 DEF ScanTypeOK, States
<1>8. NoName(Engine')
  BY <1>5 DEF NoName
<1> QED
  BY <1>1, <1>3, <1>5, <1>6, <1>7, <1>8, SameCounts

LEMMA OpenQuoteStep ==
  ASSUME ScanInv, OpenQuote
  PROVE  ScanInv'
<1>1. /\ outcome = "scanning" /\ index <= Len(query) /\ state = "sql" /\ Keep(1)
      /\ \/ character = "'" /\ state' = "literal" /\ UNCHANGED closing_quote
         \/ character \in {"quot", "["} /\ state' = "identifier" /\ closing_quote' = ClosingQuote(character)
      /\ UNCHANGED bindings /\ UNCHANGED <<source, outcome>>
  BY DEF OpenQuote, IdentifierQuotes, Reads, Keep
<1>2. ScanTypeOK /\ Texts /\ Agrees
  BY <1>1 DEF ScanInv
<1>3. Texts' /\ Engine' = Read(Engine, character) /\ index' \in 1..(Len(query) + 1)
  BY <1>1, <1>2, KeepReads
<1>4. Engine \in EngineState /\ InSql(Engine, character)
  BY <1>1, <1>2 DEF Agrees, Texts
<1>5. /\ Engine'.mode = "quoted" /\ Engine'.last = ClosingQuote(character)
      /\ Engine'.markers = Engine.markers /\ Engine'.names = Engine.names
  <2>1. character \in {"'", "quot", "["}
    BY <1>1
  <2> QED
    BY <1>3, <1>4, <2>1, OpenQuoteRead
<1>6. Agrees'
  BY <1>1, <1>5 DEF Agrees, ClosingQuote
<1>7. state' \in States /\ closing_quote' \in {"", "]"} \union IdentifierQuotes
  <2>1. closing_quote \in {"", "]"} \union IdentifierQuotes
    BY <1>2 DEF ScanTypeOK
  <2> QED
    BY <1>1, <2>1 DEF States, ClosingQuote, IdentifierQuotes
<1>8. NoName(Engine')
  BY <1>5 DEF NoName
<1> QED
  BY <1>1, <1>3, <1>5, <1>6, <1>7, <1>8, SameCounts

\* A pair of characters is replaced.
LEMMA ReplaceTwo ==
  ASSUME ScanTypeOK, Texts, index <= Len(query), NEW c \in Char
  PROVE  following # "" /\ Replace(2, <<c>>) =>
           Texts' /\ Engine' = Read(Engine, c) /\ index' \in 1..(Len(query) + 1)
<1>1. index \in Nat /\ Len(query) \in Nat /\ (following # "" => index + 1 \in 1..Len(query))
  BY InText DEF following
<1>2. index + 1 \in 1..Len(query) => index + 2 \in 1..(Len(query) + 1)
  <2>1. index \in Nat /\ Len(query) \in Nat
    BY <1>1
  <2> QED
    BY <2>1
<1>3. ASSUME Replace(2, <<c>>)
      PROVE  converted' = converted \o <<c>> /\ query' = query /\ index' = index + 2
  BY <1>3 DEF Replace, source
<1> QED
  BY <1>1, <1>2, <1>3, ReplaceReads

LEMMA EscapedPercentStep ==
  ASSUME ScanInv, EscapedPercent
  PROVE  ScanInv'
<1>1. /\ outcome = "scanning" /\ index <= Len(query) /\ state \in {"sql", "literal"}
      /\ following # "" /\ Replace(2, <<"%">>) /\ character = "%"
      /\ UNCHANGED <<state, closing_quote>> /\ UNCHANGED bindings /\ UNCHANGED <<source, outcome>>
  BY DEF EscapedPercent, Reads, Replace
<1>2. ScanTypeOK /\ Texts /\ Agrees
  BY <1>1 DEF ScanInv
<1>3. "%" \in Char
  BY DEF Char
<1>4. Texts' /\ Engine' = Read(Engine, "%") /\ index' \in 1..(Len(query) + 1)
  BY <1>1, <1>2, <1>3, ReplaceTwo
<1>5. Engine \in EngineState
  BY <1>2 DEF Texts
<1>6. /\ Agrees' /\ Engine'.markers = Engine.markers
      /\ NoName(Engine) => NoName(Engine') /\ Engine'.names = Engine.names
  <2>1. CASE state = "sql"
    <3>1. InSql(Engine, "%")
      BY <1>1, <1>2, <2>1 DEF Agrees
    <3>2. /\ Engine'.mode = "sql" /\ Engine'.last = "%" /\ Engine'.markers = Engine.markers
          /\ NoName(Engine) => Engine'.names = Engine.names
      BY <1>3, <1>4, <1>5, <3>1, ReadInSql
    <3>3. state' = "sql"
      BY <1>1, <2>1
    <3> QED
      BY <3>2, <3>3 DEF Agrees, InSql, NoName
  <2>2. CASE state = "literal"
    <3>1. Engine.mode = "quoted" /\ Engine.last = "'"
      BY <1>2, <2>2 DEF Agrees
    <3>2. Engine' = Engine
      BY <1>4, <3>1, InQuotes
    <3>3. state' = "literal"
      BY <1>1, <2>2
    <3> QED
      BY <3>1, <3>2, <3>3 DEF Agrees, NoName
  <2> QED
    BY <1>1, <2>1, <2>2
<1>7. state' \in States /\ closing_quote' \in {"", "]"} \union IdentifierQuotes
  BY <1>1, <1>2 DEF ScanTypeOK
<1> QED
  BY <1>1, <1>4, <1>6, <1>7, SameCounts

LEMMA PositionalStep ==
  ASSUME ScanInv, Positional
  PROVE  ScanInv'
<1>1. /\ outcome = "scanning" /\ index <= Len(query) /\ state = "sql" /\ ~named
      /\ following # "" /\ character = "%"
      /\ positional_count' = positional_count + 1 /\ UNCHANGED <<required_names, native_bindings>>
      /\ UNCHANGED <<state, closing_quote>> /\ UNCHANGED <<source, outcome>>
  BY DEF Positional, IsPositional, Reads, Replace
<1>0. Replace(2, <<"?">>)
  BY DEF Positional
<1>2. ScanTypeOK /\ Texts /\ Agrees /\ HasPlainNames
  BY <1>1 DEF ScanInv
<1>3. "?" \in Char
  BY DEF Char
<1>4. Texts' /\ Engine' = Read(Engine, "?") /\ index' \in 1..(Len(query) + 1)
  BY <1>0, <1>1, <1>2, <1>3, ReplaceTwo
<1>5. Engine \in EngineState /\ InSql(Engine, "?")
  BY <1>1, <1>2 DEF Texts, Agrees, InSql
<1>6. /\ Engine'.mode = "sql" /\ Engine'.last = "?" /\ Engine'.markers = Engine.markers + 1
      /\ Engine'.names = Engine.names
  BY <1>3, <1>4, <1>5, ReadInSql
<1>7. Agrees' /\ NoName(Engine')
  BY <1>1, <1>6 DEF Agrees, InSql, NoName
<1>8. ScanTypeOK'
  <2>1. /\ state' \in States /\ closing_quote' \in {"", "]"} \union IdentifierQuotes
        /\ required_names' \subseteq Names /\ native_bindings' \in BOOLEAN /\ positional_count \in Nat
    BY <1>1, <1>2 DEF ScanTypeOK
  <2>2. positional_count' = positional_count + 1 /\ positional_count \in Nat
    BY <1>1, <2>1
  <2>3. positional_count' \in Nat
    BY <2>2
  <2> QED
    BY <1>1, <1>2, <1>4, <2>1, <2>3, ScanTypeKept
<1>9. HasPlainNames' /\ named' = named
  BY <1>1, <1>2, PlainNamesKept DEF source
<1>10. Counts'
  <2>1. outcome' = "scanning" /\ native_bindings' = native_bindings /\ required_names' = required_names
    BY <1>1
  <2>2. ASSUME ~native_bindings' PROVE Engine'.markers = positional_count' /\ Engine'.names \subseteq required_names'
    <3>1. Engine.markers = positional_count /\ Engine.names \subseteq required_names
      <4>1. ~native_bindings
        BY <2>1, <2>2
      <4>2. outcome = "scanning" /\ Counts
        BY <1>1 DEF ScanInv
      <4> QED
        BY <4>1, <4>2 DEF Counts
    <3>2. positional_count' = positional_count + 1
      BY <1>1
    <3> QED
      BY <1>6, <2>1, <3>1, <3>2
  <2> QED
    BY <1>7, <2>1, <2>2 DEF Counts
<1> QED
  BY <1>1, <1>4, <1>7, <1>8, <1>9, <1>10 DEF ScanInv, IdleScan

LEMMA PlainCharacterStep ==
  ASSUME ScanInv, PlainCharacter
  PROVE  ScanInv'
<1>1. /\ outcome = "scanning" /\ index <= Len(query) /\ state = "sql" /\ Keep(1)
      /\ <<character, following>> \notin {<<"-", "-">>, <<"/", "*">>}
      /\ character \notin {"quot", "[", "'"}
      /\ native_bindings' = (native_bindings \/ character \in {"?", ":"})
      /\ UNCHANGED <<positional_count, required_names>>
      /\ UNCHANGED <<state, closing_quote>> /\ UNCHANGED <<source, outcome>>
  BY DEF PlainCharacter, OpensComment, IdentifierQuotes, IsNative, NativeMarkers, Reads, Keep
<1>2. ScanTypeOK /\ Texts /\ Agrees /\ HasPlainNames
  BY <1>1 DEF ScanInv
<1>3. /\ Texts' /\ Engine' = Read(Engine, character) /\ index' \in 1..(Len(query) + 1)
      /\ character' = following
  BY <1>1, <1>2, KeepReads
<1>4. Engine \in EngineState /\ InSql(Engine, character) /\ character \in Char
  BY <1>1, <1>2, InText DEF Texts, Agrees, character
<1>5. /\ Engine'.mode = "sql" /\ Engine'.last = character
      /\ Engine'.markers = IF character = "?" THEN Engine.markers + 1 ELSE Engine.markers
      /\ NoName(Engine) => Engine'.names = Engine.names
  BY <1>1, <1>3, <1>4, ReadInSql
<1>6. Agrees'
  <2>1. state' = "sql" /\ InSql(Engine', following)
    BY <1>1, <1>5 DEF InSql
  <2> QED
    BY <1>3, <2>1 DEF Agrees
<1>7. ScanTypeOK'
  <2>1. /\ state' \in States /\ closing_quote' \in {"", "]"} \union IdentifierQuotes
        /\ positional_count' \in Nat /\ required_names' \subseteq Names
    BY <1>1, <1>2 DEF ScanTypeOK
  <2>2. native_bindings' \in BOOLEAN
    BY <1>1
  <2> QED
    BY <1>1, <1>2, <1>3, <2>1, <2>2, ScanTypeKept
<1>8. HasPlainNames' /\ named' = named
  BY <1>1, <1>2, PlainNamesKept DEF source
<1>9. Counts'
  <2>1. ASSUME ~native_bindings' PROVE Engine'.markers = positional_count' /\ Engine'.names \subseteq required_names' /\ NoName(Engine')
    <3>1. ~native_bindings /\ character \notin {"?", ":"}
      BY <1>1, <2>1
    <3>2. Engine.markers = positional_count /\ Engine.names \subseteq required_names /\ NoName(Engine)
      BY <1>1, <3>1 DEF ScanInv, Counts
    <3> QED
      BY <1>1, <1>5, <3>1, <3>2 DEF NoName
  <2> QED
    BY <2>1 DEF Counts
<1> QED
  BY <1>1, <1>3, <1>6, <1>7, <1>8, <1>9 DEF ScanInv, IdleScan

\* A part of a text.
LEMMA PartOf ==
  ASSUME NEW S, NEW s \in Seq(S), NEW i \in 1..(Len(s) + 1), NEW n \in Nat, i + n <= Len(s) + 1
  PROVE  LET t == SubSeq(s, i, i + n - 1) IN
           t \in Seq(S) /\ Len(t) = n /\ \A k \in 1..n : t[k] = s[i + k - 1]
<1>1. i \in Nat /\ Len(s) \in Nat /\ i + n - 1 \in Int /\ 1 <= i /\ i + n - 1 <= Len(s)
  OBVIOUS
<1>2. CASE n = 0
  <2>1. SubSeq(s, i, i + n - 1) = <<>>
    BY <1>1, <1>2, SubSeqEmpty
  <2> QED
    BY <1>2, <2>1
<1>3. CASE n # 0
  <2>1. i <= i + n - 1 /\ \A k \in i..(i + n - 1) : k \in 1..Len(s)
    BY <1>1, <1>3
  <2> QED
    BY <1>1, <2>1
<1> QED
  BY <1>2, <1>3

LEMMA TwoReads ==
  ASSUME Texts, NEW c \in Char, NEW d \in Char, converted' = converted \o (<<c>> \o <<d>>), query' = query
  PROVE  Texts' /\ Engine' = Read(Read(Engine, c), d)
<1>1. converted' = (converted \o <<c>>) \o <<d>>
  <2>1. <<c>> \in Seq(Char) /\ <<d>> \in Seq(Char) /\ converted \in Seq(Char)
    BY DEF Texts
  <2> QED
    BY <2>1, ConcatAssociative
<1>2. converted \o <<c>> \in Seq(Char)
  BY DEF Texts
<1>3. Engine' = Read(Read(Engine, c), d)
  BY <1>1, <1>2, ReadAppend, EngineIs DEF Texts
<1> QED
  BY <1>1, <1>2, <1>3, ReadType DEF Texts

\* What only looks like a placeholder is kept.
LEMMA KeepInert ==
  ASSUME ScanTypeOK, Texts, index <= Len(query), NEW n \in Nat \ {0}, index + n <= Len(query) + 1
  PROVE  /\ \A k \in index..(index + n - 1) : At(k) \in Inert
         /\ character = "%" /\ InSql(Engine, "%") /\ Keep(n)
         => /\ Texts' /\ index' \in 1..(Len(query) + 1)
            /\ Engine'.mode = "sql" /\ Engine'.last \in Inert /\ Engine'.markers = Engine.markers
            /\ NoName(Engine) => Engine'.names = Engine.names
<1> DEFINE t == SubSeq(query, index, index + n - 1)
<1>1. /\ index \in Nat /\ Len(query) \in Nat /\ index \in 1..Len(query) /\ index + n \in 1..(Len(query) + 1)
      /\ \A k \in index..(index + n - 1) : k \in 1..Len(query)
  <2>1. index \in Nat /\ Len(query) \in Nat
    BY InText
  <2>2. index \in 1..(Len(query) + 1)
    BY DEF ScanTypeOK
  <2> QED
    BY <2>1, <2>2
<1>2. t \in Seq(Char) /\ Len(t) = n /\ \A k \in 1..n : t[k] = query[index + k - 1]
  <2>1. query \in Seq(Char) /\ index \in 1..(Len(query) + 1)
    BY <1>1 DEF Texts
  <2> QED
    BY <2>1, PartOf
<1> HIDE DEF t
<1>3. \A k \in 1..n : index + k - 1 \in index..(index + n - 1)
  BY <1>1
<1>4. \A k \in 1..n : t[k] = At(index + k - 1)
  BY <1>1, <1>2, <1>3, InText
<1>5. t[1] = character
  <2>1. 1 \in 1..n /\ index + 1 - 1 = index
    BY <1>1
  <2> QED
    BY <1>4, <2>1 DEF character
<1>6. ASSUME \A k \in index..(index + n - 1) : At(k) \in Inert
      PROVE  t \in Seq(Inert) /\ t # <<>>
  <2>1. \A k \in 1..Len(t) : t[k] \in Inert
    BY <1>2, <1>3, <1>4, <1>6
  <2> QED
    BY <1>2, <2>1
<1>7. ASSUME Keep(n) PROVE converted' = converted \o t /\ query' = query /\ index' = index + n
  BY <1>7 DEF Keep, source, t
<1> SUFFICES ASSUME \A k \in index..(index + n - 1) : At(k) \in Inert, character = "%", InSql(Engine, "%"), Keep(n)
             PROVE  /\ Texts' /\ index' \in 1..(Len(query) + 1)
                    /\ Engine'.mode = "sql" /\ Engine'.last \in Inert /\ Engine'.markers = Engine.markers
                    /\ NoName(Engine) => Engine'.names = Engine.names
  OBVIOUS
<1>8. t \in Seq(Inert) /\ t # <<>> /\ t[1] = "%"
  BY <1>5, <1>6
<1>9. /\ converted \in Seq(Char) /\ ReadAll(converted) \in EngineState /\ InSql(ReadAll(converted), "%")
      /\ converted \o t \in Seq(Char)
  BY <1>2, EngineIs DEF Texts
<1>10. LET e == ReadAll(converted)
           r == ReadAll(converted \o t)
       IN /\ r \in EngineState /\ r.mode = "sql" /\ r.last \in Inert
          /\ r.markers = e.markers
          /\ NoName(e) => r.names = e.names
  BY <1>8, <1>9, InertRun
<1>11. Engine = ReadAll(converted) /\ Engine' = ReadAll(converted \o t)
  BY <1>7, EngineIs
<1>12. Texts'
  BY <1>7, <1>9, <1>10, <1>11 DEF Texts
<1>13. index' \in 1..(Len(query) + 1)
  BY <1>1, <1>7
<1> QED
  BY <1>10, <1>11, <1>12, <1>13

\* The text between a placeholder's parenthesis and its end.
LEMMA PlainName ==
  ASSUME ScanTypeOK, Texts, HasPlainNames
  PROVE  index <= Len(query) /\ named /\ character = "%" /\ following = "(" =>
           \A k \in index..(PlaceholderEnd(index) - 1) : At(k) \in Inert
<1> SUFFICES ASSUME index <= Len(query), named, character = "%", following = "("
             PROVE  \A k \in index..(PlaceholderEnd(index) - 1) : At(k) \in Inert
  OBVIOUS
<1> DEFINE last == PlaceholderEnd(index) - 1
<1>1. index \in DOMAIN query
  BY InText DEF character
<1>2. \A k \in (index + 2)..last : At(k) \in {"n", "s", "%"}
  BY <1>1 DEF HasPlainNames, character, following
<1> HIDE DEF last
<1>3. index \in Nat
  BY InText
<1>4. \A k \in index..last : k = index \/ k = index + 1 \/ k \in (index + 2)..last
  <2>1. ASSUME NEW a \in Nat, NEW b, NEW k \in a..b, k # a, k # a + 1 PROVE k \in (a + 2)..b
    BY <2>1
  <2> QED
    BY <1>3, <2>1
<1>5. At(index) = "%" /\ At(index + 1) = "("
  BY DEF character, following
<1> QED
  BY <1>2, <1>4, <1>5 DEF Inert, last

\* A turn of the loop that keeps what only looks like a placeholder.
LEMMA KeepPlaceholder ==
  ASSUME ScanInv, outcome = "scanning", state = "sql", character = "%", NEW n, Keep(n),
         Texts' /\ index' \in 1..(Len(query) + 1),
         Engine'.mode = "sql" /\ Engine'.last \in Inert /\ Engine'.markers = Engine.markers,
         NoName(Engine) => Engine'.names = Engine.names,
         UNCHANGED <<state, closing_quote, bindings>>
  PROVE  ScanInv'
<1>1. state' = "sql" /\ closing_quote' = closing_quote /\ UNCHANGED bindings /\ UNCHANGED <<source, outcome>>
  BY DEF Keep
<1>2. Agrees' /\ NoName(Engine')
  BY <1>1 DEF Agrees, InSql, NoName, Inert
<1>3. state' \in States
  BY <1>1 DEF States
<1>4. closing_quote' \in {"", "]"} \union IdentifierQuotes
  BY <1>1 DEF ScanInv, ScanTypeOK
<1> QED
  BY <1>1, <1>2, <1>3, <1>4, SameCounts

\* A name of one character.
LEMMA NameIs ==
  ASSUME ScanTypeOK, Texts, index <= Len(query), NEW end \in (index + 2)..(Len(query) + 1),
         NEW n, SubSeq(query, index + 2, end - 1) = <<n>>
  PROVE  end - 1 \in index..(end - 1) /\ n = At(end - 1)
<1>1. index \in Nat /\ Len(query) \in Nat
  BY InText
<1>2. end \in Nat /\ index + 2 <= end /\ end <= Len(query) + 1
  BY <1>1
<1> DEFINE t == SubSeq(query, index + 2, end - 1)
<1>3. index + 2 \in Int /\ end - 1 \in Int /\ \A i \in (index + 2)..(end - 1) : i \in 1..Len(query)
  BY <1>1, <1>2
<1>4. Len(t) = (IF index + 2 <= end - 1 THEN (end - 1) - (index + 2) + 1 ELSE 0)
  <2>1. \A i \in (index + 2)..(end - 1) : query[i] \in Char
    BY <1>3 DEF Texts
  <2> QED
    BY <1>3, <2>1, SubSeqProperties
<1>5. Len(t) = 1
  <2>1. t = <<n>>
    OBVIOUS
  <2> HIDE DEF t
  <2> QED
    BY ONLY <2>1
<1>6. end - 1 = index + 2
  BY <1>1, <1>2, <1>4, <1>5
<1>7. index + 2 \in 1..Len(query)
  BY <1>1, <1>2, <1>6
<1>8. t = <<query[index + 2]>>
  BY <1>6, <1>7, Pieces DEF Texts
<1>9. n = query[index + 2]
  BY <1>8
<1>10. query[index + 2] = At(end - 1)
  BY <1>6, <1>7, InText
<1> QED
  BY <1>1, <1>2, <1>9, <1>10

\* The numbers of characters that are stepped over.
LEMMA StepsOver ==
  ASSUME ScanTypeOK, Texts, index <= Len(query), NEW end \in (index + 2)..(Len(query) + 1)
  PROVE  /\ index \in Nat /\ end \in Nat /\ Len(query) \in Nat
         /\ end - index \in Nat \ {0} /\ index + (end - index) = end
         /\ end + 1 - index \in Nat \ {0} /\ index + (end + 1 - index) = end + 1
         /\ index + (end + 2 - index) = end + 2
         /\ \A k \in index..end : k \in index..(end - 1) \/ k = end
         /\ end + 1 - 1 = end
<1>1. index \in Nat /\ Len(query) \in Nat
  BY InText
<1> QED
  BY <1>1

LEMMA NamedStep ==
  ASSUME ScanInv, NamedPlaceholder
  PROVE  ScanInv'
<1> DEFINE end == PlaceholderEnd(index)
           name == SubSeq(query, index + 2, end - 1)
<1>1. outcome = "scanning" /\ index <= Len(query) /\ state = "sql" /\ named /\ character = "%" /\ following = "("
  BY DEF NamedPlaceholder, Reads, IsNamed
<1>2. \/ end = Len(query) + 1 /\ Keep(end - index) /\ UNCHANGED <<state, closing_quote, bindings>>
      \/ At(end) = "%" /\ Keep(end - index) /\ UNCHANGED <<state, closing_quote, bindings>>
      \/ At(end) = ")" /\ Keep(end + 1 - index) /\ UNCHANGED <<state, closing_quote>> /\ UNCHANGED bindings
      \/ /\ At(end) = ")" /\ At(end + 1) = "s" /\ \E n \in param_names : name = <<n>>
         /\ Replace(end + 2 - index, <<":">> \o name)
         /\ required_names' = required_names \union {name[1]}
         /\ UNCHANGED <<positional_count, native_bindings>>
      \/ outcome' = "KeyError" /\ UNCHANGED <<source, index, state, closing_quote, converted, bindings>>
  BY DEF NamedPlaceholder, Malformed
<1>3. ScanTypeOK /\ Texts /\ Agrees /\ HasPlainNames
  BY <1>1 DEF ScanInv
<1>4. end \in (index + 2)..(Len(query) + 1)
  BY <1>1, <1>3, EndIs
<1>5. \A k \in index..(end - 1) : At(k) \in Inert
  BY <1>1, <1>3, PlainName
<1>6. InSql(Engine, "%") /\ Engine \in EngineState
  BY <1>1, <1>3 DEF Agrees, Texts
<1> HIDE DEF end
<1>7. /\ index \in Nat /\ end \in Nat /\ Len(query) \in Nat
      /\ end - index \in Nat \ {0} /\ index + (end - index) = end
      /\ end + 1 - index \in Nat \ {0} /\ index + (end + 1 - index) = end + 1
      /\ index + (end + 2 - index) = end + 2
      /\ \A k \in index..end : k \in index..(end - 1) \/ k = end
      /\ end + 1 - 1 = end
  BY <1>1, <1>3, <1>4, StepsOver
<1>8. end <= Len(query) + 1
  BY <1>4, <1>7
<1>9. CASE Keep(end - index) /\ UNCHANGED <<state, closing_quote, bindings>>
  <2>1. end - index \in Nat \ {0} /\ index + (end - index) <= Len(query) + 1
    BY <1>7, <1>8
  <2>2. \A k \in index..(index + (end - index) - 1) : At(k) \in Inert
    BY <1>5, <1>7
  <2>3. /\ Texts' /\ index' \in 1..(Len(query) + 1)
        /\ Engine'.mode = "sql" /\ Engine'.last \in Inert /\ Engine'.markers = Engine.markers
        /\ NoName(Engine) => Engine'.names = Engine.names
    BY <1>1, <1>3, <1>6, <1>9, <2>1, <2>2, KeepInert
  <2> QED
    BY <1>1, <1>9, <2>3, KeepPlaceholder
<1>10. ASSUME At(end) = ")", Keep(end + 1 - index), UNCHANGED <<state, closing_quote>>, UNCHANGED bindings
       PROVE  ScanInv'
  <2>1. end \in 1..Len(query)
    BY <1>3, <1>10, InText
  <2>2. end + 1 - index \in Nat \ {0} /\ index + (end + 1 - index) <= Len(query) + 1
    <3> HIDE <1>10
    <3> QED
      BY <1>7, <2>1
  <2>3. \A k \in index..(index + (end + 1 - index) - 1) : At(k) \in Inert
    BY <1>5, <1>7, <1>10 DEF Inert
  <2>4. /\ Texts' /\ index' \in 1..(Len(query) + 1)
        /\ Engine'.mode = "sql" /\ Engine'.last \in Inert /\ Engine'.markers = Engine.markers
        /\ NoName(Engine) => Engine'.names = Engine.names
    BY <1>1, <1>3, <1>6, <1>10, <2>2, <2>3, KeepInert
  <2> QED
    BY <1>1, <1>10, <2>4, KeepPlaceholder
<1>11. ASSUME At(end) = ")", At(end + 1) = "s", NEW n \in param_names, name = <<n>>,
              Replace(end + 2 - index, <<":">> \o name),
              required_names' = required_names \union {name[1]},
              UNCHANGED <<positional_count, native_bindings>>
       PROVE  ScanInv'
  <2>1. end - 1 \in index..(end - 1) /\ n = At(end - 1)
    BY <1>1, <1>3, <1>4, <1>11, NameIs
  <2>2. n \in Inert
    BY <1>5, <2>1
  <2>3. end + 1 \in 1..Len(query)
    BY <1>3, <1>11, InText
  <2>4. /\ converted' = converted \o (<<":">> \o <<n>>) /\ index' = index + (end + 2 - index)
        /\ UNCHANGED source /\ state' = "sql" /\ closing_quote' = closing_quote /\ outcome' = outcome
        /\ required_names' = required_names \union {n}
        /\ positional_count' = positional_count /\ native_bindings' = native_bindings
    <3> HIDE DEF name
    <3>1. name = <<n>> /\ name[1] = n
      BY <1>11
    <3>2. converted' = converted \o (<<":">> \o <<n>>) /\ index' = index + (end + 2 - index)
      BY <1>11, <3>1 DEF Replace
    <3>3. /\ UNCHANGED source /\ state' = state /\ closing_quote' = closing_quote /\ outcome' = outcome
      BY <1>11 DEF Replace
    <3>4. required_names' = required_names \union {n}
      BY <1>11, <3>1
    <3>5. positional_count' = positional_count /\ native_bindings' = native_bindings
      BY <1>11
    <3> QED
      BY <1>1, <3>2, <3>3, <3>4, <3>5
  <2>5. index' \in 1..(Len(query) + 1)
    <3>1. index' = end + 2
      BY <1>7, <2>4
    <3>2. end + 2 \in 1..(Len(query) + 1)
      <4> HIDE <1>11
      <4>1. end \in Nat /\ Len(query) \in Nat
        BY <1>7
      <4> QED
        BY <2>3, <4>1
    <3> QED
      BY <3>1, <3>2
  <2>6. n \in Char /\ ":" \in Char /\ n \notin {"'", "quot", "[", "?", ":", "-", "/"}
    BY <2>2 DEF Inert, Char
  <2>7. Texts' /\ Engine' = Read(Read(Engine, ":"), n)
    <3>1. query' = query
      BY <2>4 DEF source
    <3> QED
      BY <1>3, <2>4, <2>6, <3>1, TwoReads
  <2> DEFINE d == Read(Engine, ":")
  <2>8. /\ d \in EngineState /\ d.mode = "sql" /\ d.last = ":" /\ d.markers = Engine.markers
        /\ NoName(Engine) => d.names = Engine.names
    <3>1. InSql(Engine, ":")
      BY <1>6 DEF InSql
    <3> QED
      BY <1>6, <2>6, <3>1, ReadInSql, ReadType
  <2>9. Engine' = Read(d, n)
    BY <2>7
  <2> HIDE DEF d
  <2>10. /\ Engine'.mode = "sql" /\ Engine'.last = n /\ Engine'.markers = d.markers
         /\ Engine'.names = d.names \union {n}
    <3>1. InSql(d, n) /\ ~NoName(d)
      BY <2>6, <2>8 DEF InSql, NoName
    <3> QED
      BY <2>6, <2>8, <2>9, <3>1, ReadInSql
  <2>11. Agrees' /\ NoName(Engine')
    BY <2>4, <2>6, <2>10 DEF Agrees, InSql, NoName
  <2>12. ScanTypeOK'
    <3>1. /\ state' \in States /\ closing_quote' \in {"", "]"} \union IdentifierQuotes
          /\ required_names' \subseteq Names /\ native_bindings' \in BOOLEAN /\ positional_count' \in Nat
      BY <1>3, <2>4 DEF ScanTypeOK, States
    <3>2. UNCHANGED <<source, outcome>>
      BY <2>4
    <3> QED
      BY <1>3, <2>5, <3>1, <3>2, ScanTypeKept
  <2>13. HasPlainNames' /\ named' = named
    BY <1>3, <2>4, PlainNamesKept DEF source
  <2>14. Counts'
    <3>1. ASSUME ~native_bindings'
          PROVE  Engine'.markers = positional_count' /\ Engine'.names \subseteq required_names'
      <4>1. ~native_bindings /\ Counts
        BY <2>4, <3>1 DEF ScanInv
      <4>2. Engine.markers = positional_count /\ Engine.names \subseteq required_names /\ NoName(Engine)
        BY <1>1, <4>1 DEF Counts
      <4> QED
        BY <2>4, <2>8, <2>10, <4>2
    <3> QED
      BY <2>11, <3>1 DEF Counts
  <2>15. positional_count' = 0
    BY <1>1, <2>4 DEF ScanInv
  <2> QED
    BY <1>1, <2>4, <2>7, <2>11, <2>12, <2>13, <2>14, <2>15 DEF ScanInv, IdleScan
<1>12. CASE outcome' = "KeyError" /\ UNCHANGED <<source, index, state, closing_quote, converted, bindings>>
  <2>1. /\ UNCHANGED source /\ named' = named /\ param_names' = param_names /\ query' = query
        /\ index' = index /\ state' = state /\ closing_quote' = closing_quote /\ converted' = converted
        /\ positional_count' = positional_count /\ required_names' = required_names
        /\ native_bindings' = native_bindings /\ outcome' = "KeyError"
    BY <1>12 DEF source, bindings
  <2>2. ScanTypeOK'
    BY <1>3, <2>1 DEF ScanTypeOK, Outcomes
  <2>3. Texts'
    BY <1>3, <2>1 DEF Texts, Engine
  <2> QED
    BY <2>1, <2>2, <2>3 DEF ScanInv, IdleScan, Counts
<1> QED
  BY <1>2, <1>9, <1>10, <1>11, <1>12

LEMMA NoText ==
  /\ Len(<<>>) = 0 /\ 1 \in 1..(Len(<<>>) + 1) /\ <<>> \in Seq(Char)
  /\ EngineStart \in EngineState
<1>1. EngineStart \in EngineState
  BY DEF EngineStart, EngineState, Modes, Char
<1> QED
  BY <1>1

LEMMA ScanStepKeeps ==
  ASSUME ScanInv, ScanStep
  PROVE  ScanInv'
BY LineCommentStep, BlockCommentStep, IdentifierStep, LiteralStep, EscapedPercentStep, OpenCommentStep,
   OpenQuoteStep, PositionalStep, NamedStep, PlainCharacterStep DEF ScanStep

LEMMA EmptyScan ==
  ASSUME InitScan
  PROVE  ScanInv
<1>1. /\ named = FALSE /\ param_names = {} /\ query = <<>> /\ index = 1 /\ state = "sql" /\ closing_quote = ""
      /\ converted = <<>> /\ positional_count = 0 /\ required_names = {} /\ native_bindings = FALSE
      /\ outcome = "idle"
  BY DEF InitScan
<1>2. ScanTypeOK
  <2>1. index \in 1..(Len(query) + 1)
    BY ONLY <1>1, NoText
  <2>2. positional_count \in Nat /\ required_names \subseteq Names
    BY <1>1
  <2> QED
    BY <1>1, <2>1, <2>2 DEF ScanTypeOK, States, Outcomes
<1>3. Texts
  <2>1. Engine = EngineStart
    BY <1>1, EngineIs, ReadAppend
  <2>2. query \in Seq(Char) /\ converted \in Seq(Char)
    BY ONLY <1>1, NoText
  <2> QED
    BY <2>1, <2>2, NoText DEF Texts
<1> QED
  BY <1>1, <1>2, <1>3 DEF ScanInv, IdleScan, Counts

LEMMA EmptyScanAfter == InitScan' => ScanInv'
BY EmptyScan, PTL

LEMMA BeginScanKeeps ==
  ASSUME InitScan, NEW texts, texts \subseteq Seq(Char), NEW mapping \in BOOLEAN, NEW names \in SUBSET Names,
         BeginScan(texts, mapping, names)
  PROVE  ScanInv'
<1>1. /\ named = FALSE /\ param_names = {} /\ query = <<>> /\ index = 1 /\ state = "sql" /\ closing_quote = ""
      /\ converted = <<>> /\ positional_count = 0 /\ required_names = {} /\ native_bindings = FALSE
      /\ outcome = "idle"
  BY DEF InitScan
<1>2. /\ named' = mapping /\ param_names' = names /\ query' \in Seq(Char) /\ outcome' = "scanning" /\ HasPlainNames'
      /\ index' = index /\ state' = state /\ closing_quote' = closing_quote /\ converted' = converted
      /\ UNCHANGED bindings
  BY DEF BeginScan
<1>3. positional_count' = 0 /\ required_names' = {} /\ native_bindings' = FALSE
  BY <1>1, <1>2 DEF bindings
<1>4. ScanTypeOK'
  <2>1. index' \in 1..(Len(query') + 1)
    <3>1. query' \in Seq(Char) /\ index' = 1
      BY <1>1, <1>2
    <3>2. Len(query') \in Nat
      BY <3>1
    <3> QED
      BY <3>1, <3>2
  <2>2. positional_count' \in Nat
    BY <1>3
  <2> QED
    BY <1>1, <1>2, <1>3, <2>1, <2>2 DEF ScanTypeOK, States, Outcomes
<1>5. Engine' = EngineStart
  BY <1>1, <1>2, EngineIs, ReadAppend
<1>6. Texts'
  <2>1. query' \in Seq(Char) /\ converted' = <<>>
    BY <1>1, <1>2
  <2> QED
    BY <1>5, <2>1, NoText DEF Texts
<1>7. Agrees' /\ NoName(Engine')
  BY <1>1, <1>2, <1>5 DEF Agrees, InSql, NoName, EngineStart
<1>8. Counts'
  <2>1. Engine'.markers = 0 /\ Engine'.names = {}
    BY <1>5 DEF EngineStart
  <2> QED
    BY <1>3, <1>7, <2>1 DEF Counts
<1> QED
  BY <1>2, <1>3, <1>4, <1>6, <1>7, <1>8 DEF ScanInv, IdleScan

LEMMA EndScanKeeps ==
  ASSUME ScanInv, EndScan
  PROVE  ScanInv'
<1>1. /\ outcome = "scanning" /\ outcome' = "converted" /\ query' = <<>> /\ index' = 1 /\ state' = "sql"
      /\ closing_quote' = "" /\ named' = named /\ param_names' = param_names /\ converted' = converted
      /\ UNCHANGED bindings
  BY DEF EndScan
<1>2. /\ positional_count' = positional_count /\ required_names' = required_names
      /\ native_bindings' = native_bindings
  BY <1>1 DEF bindings
<1>3. Engine' = Engine
  BY <1>1 DEF Engine
<1>4. ScanTypeOK'
  <2>1. index' \in 1..(Len(query') + 1)
    BY ONLY <1>1, NoText
  <2>2. ScanTypeOK
    BY DEF ScanInv
  <2> QED
    BY <1>1, <1>2, <2>1, <2>2 DEF ScanTypeOK, States, Outcomes
<1>5. Texts'
  <2>1. query' \in Seq(Char)
    BY ONLY <1>1, NoText
  <2> QED
    BY <1>1, <1>3, <2>1 DEF ScanInv, Texts
<1>6. Counts'
  BY <1>1, <1>2, <1>3 DEF ScanInv, Counts, NoName
<1> QED
  BY <1>1, <1>2, <1>4, <1>5, <1>6 DEF ScanInv, IdleScan

LEMMA ForgetScanKeeps ==
  ASSUME ForgetScan
  PROVE  ScanInv' /\ InitScan'
<1>1. InitScan'
  BY DEF ForgetScan, InitScan
<1> QED
  BY <1>1, EmptyScanAfter

LEMMA SameScanKeeps ==
  ASSUME ScanInv, UNCHANGED scan
  PROVE  ScanInv'
<1>1. /\ named' = named /\ param_names' = param_names /\ query' = query /\ UNCHANGED source
      /\ index' = index /\ state' = state /\ closing_quote' = closing_quote /\ converted' = converted
      /\ positional_count' = positional_count /\ required_names' = required_names
      /\ native_bindings' = native_bindings /\ outcome' = outcome
  BY DEF scan, source, bindings
<1>2. Engine' = Engine /\ character' = character
  BY <1>1 DEF Engine, character, At
<1>3. ScanTypeOK' /\ Texts'
  BY <1>1, <1>2 DEF ScanInv, ScanTypeOK, Texts
<1>4. IdleScan'
  BY <1>1 DEF ScanInv, IdleScan, InitScan
<1>5. outcome = "scanning" => HasPlainNames' /\ Agrees'
  BY <1>1, <1>2, PlainNamesKept DEF ScanInv, Agrees, InSql
<1>6. Counts'
  BY <1>1, <1>2 DEF ScanInv, Counts, NoName
<1> QED
  BY <1>1, <1>3, <1>4, <1>5, <1>6 DEF ScanInv
--------------------------------------------------------------------------------
(* Recognising statements that write.  A part of a statement moves the reader *)
(* of WriteStatement from one state to another, whatever came before it; what *)
(* stands in the parentheses of a common table expression brings it back to   *)
(* where it was because its own parentheses match.                            *)

\* What statements are made of.
Tokens ==
  STRING \union Verbs
  \union {"name", "AS", "MATERIALIZED", "comment", "(", ")", "WITH", "RECURSIVE", ",", ";", "SELECT", "REPLACE", "MERGE"}

ReadTokens(s) == FoldLeft(ReadToken, Unread, s)

TokenReading(s, f, n) ==
  f = [t \in SUBSET (1..n) |-> IF t = {} THEN Unread ELSE ReadToken(f[t \ {Max(t)}], s[Max(t)])]

LEMMA ReadTokensIs ==
  ASSUME NEW s \in Seq(Tokens)
  PROVE  ReadTokens(s) = (CHOOSE f : TokenReading(s, f, Len(s)))[1..Len(s)]
<1>1. DOMAIN s = 1..Len(s)
  OBVIOUS
<1> QED
  BY <1>1 DEF ReadTokens, FoldLeft, MapThenFoldSet, TokenReading

LEMMA TokenReadingExists ==
  ASSUME NEW s \in Seq(Tokens)
  PROVE  \E f : TokenReading(s, f, Len(s))
<1> DEFINE S == {k \in Nat : \E f : TokenReading(s, f, k)}
<1>1. 0 \in S
  <2> DEFINE g == [t \in SUBSET (1..0) |-> Unread]
  <2>1. TokenReading(s, g, 0)
    <3>1. \A t \in SUBSET (1..0) : t = {}
      OBVIOUS
    <3> QED
      BY <3>1 DEF TokenReading
  <2> QED
    BY <2>1
<1>2. ASSUME NEW k \in Nat, k \in S PROVE k + 1 \in S
  <2>1. PICK f : TokenReading(s, f, k)
    BY <1>2
  <2> DEFINE g == [t \in SUBSET (1..(k + 1)) |-> IF k + 1 \in t THEN ReadToken(f[t \ {k + 1}], s[k + 1]) ELSE f[t]]
  <2>2. ASSUME NEW t \in SUBSET (1..(k + 1)) 
        PROVE  g[t] = IF t = {} THEN Unread ELSE ReadToken(g[t \ {Max(t)}], s[Max(t)])
    <3>1. CASE k + 1 \in t
      <4>1. Max(t) = k + 1 /\ t \ {k + 1} \in SUBSET (1..k)
        BY <3>1, LargestOf
      <4>2. g[t \ {k + 1}] = f[t \ {k + 1}]
        BY <4>1
      <4> QED
        BY <3>1, <4>1, <4>2
    <3>2. CASE k + 1 \notin t
      <4>1. t \in SUBSET (1..k) /\ t \ {Max(t)} \in SUBSET (1..k)
        BY <3>2, LargestOf
      <4>2. f[t] = IF t = {} THEN Unread ELSE ReadToken(f[t \ {Max(t)}], s[Max(t)])
        BY <2>1, <4>1 DEF TokenReading
      <4>3. g[t] = f[t] /\ g[t \ {Max(t)}] = f[t \ {Max(t)}]
        BY <3>2, <4>1
      <4> QED
        BY <4>2, <4>3
    <3> QED
      BY <3>1, <3>2
  <2>3. TokenReading(s, g, k + 1)
    BY <2>2 DEF TokenReading
  <2> QED
    BY <2>3
<1> HIDE DEF S
<1>3. \A k \in 0..Len(s) : k \in S
  BY <1>1, <1>2, Induction
<1> QED
  BY <1>3 DEF S

\* A statement is read one token after the other.
LEMMA NextToken ==
  /\ ReadTokens(<<>>) = Unread
  /\ \A s \in Seq(Tokens), c \in Tokens : ReadTokens(s \o <<c>>) = ReadToken(ReadTokens(s), c)
<1> DEFINE F(s) == CHOOSE f : TokenReading(s, f, Len(s))
<1>1. ASSUME NEW s \in Seq(Tokens)
      PROVE  /\ ReadTokens(s) = F(s)[1..Len(s)]
             /\ F(s)[{}] = Unread
             /\ \A k \in 0..(Len(s) - 1) : F(s)[1..(k + 1)] = ReadToken(F(s)[1..k], s[k + 1])
  <2>0. Len(s) \in Nat
    OBVIOUS
  <2>1. TokenReading(s, F(s), Len(s))
    BY TokenReadingExists
  <2> HIDE DEF F
  <2>2. \A t \in SUBSET (1..Len(s)) : F(s)[t] = IF t = {} THEN Unread ELSE ReadToken(F(s)[t \ {Max(t)}], s[Max(t)])
    BY <2>1 DEF TokenReading
  <2>3. ASSUME NEW k \in 0..(Len(s) - 1) PROVE F(s)[1..(k + 1)] = ReadToken(F(s)[1..k], s[k + 1])
    <3>0. k \in Nat /\ k + 1 <= Len(s)
      BY <2>0
    <3>1. k \in Nat /\ 1..(k + 1) \in SUBSET (1..Len(s)) /\ 1..(k + 1) # {}
      <4>1. 1 \in 1..(k + 1)
        BY <3>0
      <4>2. \A i \in 1..(k + 1) : i \in 1..Len(s)
        BY <2>0, <3>0
      <4> QED
        BY <3>0, <4>1, <4>2
    <3>2. Max(1..(k + 1)) = k + 1 /\ (1..(k + 1)) \ {k + 1} = 1..k
      BY <3>1, LargestOf
    <3> QED
      BY <2>2, <3>1, <3>2
  <2>4. {} \in SUBSET (1..Len(s))
    OBVIOUS
  <2>5. ReadTokens(s) = F(s)[1..Len(s)]
    BY ReadTokensIs DEF F
  <2> QED
    BY <2>2, <2>3, <2>4, <2>5
<1> HIDE DEF F
<1>2. ReadTokens(<<>>) = Unread
  <2>1. <<>> \in Seq(Tokens) /\ Len(<<>>) = 0 /\ 1..0 = {}
    OBVIOUS
  <2> QED
    BY <1>1, <2>1
<1>3. ASSUME NEW s \in Seq(Tokens), NEW c \in Tokens PROVE ReadTokens(s \o <<c>>) = ReadToken(ReadTokens(s), c)
  <2> DEFINE u == s \o <<c>>
             S == {k \in Nat : F(u)[1..k] = F(s)[1..k]}
  <2>1. u \in Seq(Tokens) /\ Len(u) = Len(s) + 1 /\ u[Len(s) + 1] = c /\ \A k \in 1..Len(s) : u[k] = s[k]
    OBVIOUS
  <2>2. Len(s) \in Nat /\ 1..0 = {}
    OBVIOUS
  <2> HIDE DEF u
  <2>3. 0 \in S
    BY <1>1, <2>1, <2>2
  <2>4. ASSUME NEW k \in 0..(Len(s) - 1), k \in S PROVE k + 1 \in S
    <3>1. F(u)[1..(k + 1)] = ReadToken(F(u)[1..k], u[k + 1])
      BY <1>1, <2>1, <2>2
    <3>2. F(s)[1..(k + 1)] = ReadToken(F(s)[1..k], s[k + 1])
      BY <1>1, <2>2
    <3>3. u[k + 1] = s[k + 1] /\ F(u)[1..k] = F(s)[1..k]
      BY <2>1, <2>2, <2>4
    <3> QED
      BY <3>1, <3>2, <3>3
  <2> HIDE DEF S
  <2>5. \A k \in 0..Len(s) : k \in S
    BY <2>2, <2>3, <2>4, Induction
  <2>6. F(u)[1..(Len(s) + 1)] = ReadToken(F(s)[1..Len(s)], c)
    <3>1. F(u)[1..(Len(s) + 1)] = ReadToken(F(u)[1..Len(s)], u[Len(s) + 1])
      <4>1. Len(s) \in 0..(Len(u) - 1)
        BY <2>1, <2>2
      <4> QED
        BY <1>1, <2>1, <4>1
    <3>2. Len(s) \in S
      BY <2>2, <2>5
    <3> QED
      BY <2>1, <3>1, <3>2 DEF S
  <2> QED
    BY <1>1, <2>1, <2>6 DEF u
<1> QED
  BY <1>2, <1>3

\* The tokens u take the reader from the state s to the state t, whatever was read before.
Moves(s, u, t) ==
  /\ u \in Seq(Tokens)
  /\ \A p \in Seq(Tokens) : ReadTokens(p) = s => ReadTokens(p \o u) = t

LEMMA NoMove ==
  ASSUME NEW s
  PROVE  Moves(s, <<>>, s)
BY ConcatEmptySeq DEF Moves

LEMMA OneMove ==
  ASSUME NEW s, NEW c \in Tokens
  PROVE  Moves(s, <<c>>, ReadToken(s, c))
BY NextToken DEF Moves

LEMMA ThenMove ==
  ASSUME NEW s, NEW t, NEW w, NEW u, NEW v, Moves(s, u, t), Moves(t, v, w)
  PROVE  Moves(s, u \o v, w)
<1>1. u \in Seq(Tokens) /\ v \in Seq(Tokens) /\ u \o v \in Seq(Tokens)
  BY DEF Moves
<1>2. ASSUME NEW p \in Seq(Tokens), ReadTokens(p) = s PROVE ReadTokens(p \o (u \o v)) = w
  <2>1. p \o u \in Seq(Tokens) /\ ReadTokens(p \o u) = t
    BY <1>1, <1>2 DEF Moves
  <2>2. ReadTokens((p \o u) \o v) = w
    BY <2>1 DEF Moves
  <2>3. (p \o u) \o v = p \o (u \o v)
    BY <1>1, ConcatAssociative
  <2> QED
    BY <2>2, <2>3
<1> QED
  BY <1>1, <1>2 DEF Moves

ReaderAt(part, depth) == [state |-> part, depth |-> depth, result |-> "unknown"]
Header    == ReaderAt("cte-header", 0)
Body(n)   == ReaderAt("cte-body", n)
AfterCte  == ReaderAt("after-cte", 0)

\* What a token in a common table expression does.
NextDepth(n, c) == CASE c = "(" -> n + 1 [] c = ")" -> n - 1 [] OTHER -> n

LEMMA CteReads ==
  ASSUME NEW part \in {"cte-header", "cte-body"}, NEW n, NEW c, c # "comment",
         NEW d, d = NextDepth(n, c), part = "cte-header" => c # "AS"
  PROVE  ReadToken(ReaderAt(part, n), c) =
           ReaderAt(IF part = "cte-body" /\ c = ")" /\ d = 0 THEN "after-cte" ELSE part, d)
<1>1. ReadToken(ReaderAt(part, n), c) = ReadCte(ReaderAt(part, n), c)
  BY DEF ReadToken, ReaderAt
<1>2. ReadCte(ReaderAt(part, n), c) =
        [ReaderAt(part, n) EXCEPT !.depth = d,
                              !.state = IF part = "cte-body" /\ c = ")" /\ d = 0 THEN "after-cte" ELSE part]
  BY DEF ReadCte, ReaderAt, BodyEnds, NextDepth
<1> QED
  BY <1>1, <1>2 DEF ReaderAt

LEMMA HeaderReads ==
  /\ \A c \in Tokens : c \notin {"comment", "AS", "(", ")"} => ReadToken(Header, c) = Header
  /\ ReadToken(Header, "AS") = Body(0)
  /\ ReadToken(Header, "(") = ReaderAt("cte-header", 1)
  /\ \A c \in Tokens : c \notin {"comment", "AS", "(", ")"} =>
       ReadToken(ReaderAt("cte-header", 1), c) = ReaderAt("cte-header", 1)
  /\ ReadToken(ReaderAt("cte-header", 1), ")") = Header
<1>1. \A n, c : c \notin {"comment", "AS", "(", ")"} => ReadToken(ReaderAt("cte-header", n), c) = ReaderAt("cte-header", n)
  BY CteReads DEF NextDepth
<1>2. ReadToken(Header, "AS") = Body(0)
  BY DEF ReadToken, ReadCte, ReaderAt, Header, Body, BodyEnds
<1>3. ReadToken(Header, "(") = ReaderAt("cte-header", 1)
  <2>1. 1 = NextDepth(0, "(")
    <3>1. 0 + 1 = 1
      OBVIOUS
    <3> QED
      BY <3>1 DEF NextDepth
  <2> QED
    BY <2>1, CteReads DEF Header
<1>5. ReadToken(ReaderAt("cte-header", 1), ")") = Header
  <2>1. 0 = NextDepth(1, ")")
    <3>1. 1 - 1 = 0
      OBVIOUS
    <3> QED
      BY <3>1 DEF NextDepth
  <2> QED
    BY <2>1, CteReads DEF Header
<1> QED
  BY <1>1, <1>2, <1>3, <1>5 DEF Header

LEMMA BodyReads ==
  ASSUME NEW n \in Nat
  PROVE  /\ \A c \in Tokens : c \notin {"(", ")"} => ReadToken(Body(n), c) = Body(n)
         /\ ReadToken(Body(n), "(") = Body(n + 1)
         /\ n - 1 # 0 => ReadToken(Body(n), ")") = Body(n - 1)
         /\ ReadToken(Body(1), ")") = AfterCte
<1>1. \A c \in Tokens : c \notin {"(", ")"} => ReadToken(Body(n), c) = Body(n)
  <2>1. ReadToken(Body(n), "comment") = Body(n)
    BY DEF ReadToken
  <2> QED
    BY <2>1, CteReads DEF NextDepth, Body
<1>2. ReadToken(Body(n), "(") = Body(n + 1)
  <2>1. n + 1 = NextDepth(n, "(")
    BY DEF NextDepth
  <2> QED
    BY <2>1, CteReads DEF Body
<1>3. n - 1 # 0 => ReadToken(Body(n), ")") = Body(n - 1)
  <2>1. n - 1 = NextDepth(n, ")")
    BY DEF NextDepth
  <2> QED
    BY <2>1, CteReads DEF Body
<1>4. ReadToken(Body(1), ")") = AfterCte
  <2>1. 0 = NextDepth(1, ")")
    <3>1. 1 - 1 = 0
      OBVIOUS
    <3> QED
      BY <3>1 DEF NextDepth
  <2> QED
    BY <2>1, CteReads DEF Body, AfterCte
<1> QED
  BY <1>1, <1>2, <1>3, <1>4

\* The parentheses of a body, one token after the other.
LEMMA Levels ==
  ASSUME NEW b \in Seq(STRING), NEW k \in Nat, k + 1 \in 1..Len(b)
  PROVE  /\ Level(b, 0) = 0 /\ Level(b, k) \in Int
         /\ Level(b, k + 1) = NextDepth(Level(b, k), b[k + 1])
<1> DEFINE C(c, n) == Cardinality({i \in 1..n : b[i] = c})
<1>1. ASSUME NEW c, NEW n \in Nat
      PROVE  /\ C(c, n) \in Nat
             /\ C(c, 0) = 0
             /\ b[n + 1] # c => C(c, n + 1) = C(c, n)
             /\ b[n + 1] = c => C(c, n + 1) = C(c, n) + 1
  <2> DEFINE T == {i \in 1..n : b[i] = c}
  <2>1. IsFiniteSet(T) /\ C(c, n) \in Nat
    <3>1. IsFiniteSet(1..n)
      BY FS_Interval
    <3>2. T \subseteq 1..n
      OBVIOUS
    <3>3. IsFiniteSet(T)
      BY <3>1, <3>2, FS_Subset
    <3> QED
      BY <3>3, FS_CardinalityType
  <2>2. C(c, 0) = 0
    <3>1. {i \in 1..0 : b[i] = c} = {}
      OBVIOUS
    <3> QED
      BY <3>1, FS_EmptySet
  <2>3. ASSUME b[n + 1] # c PROVE C(c, n + 1) = C(c, n)
    <3>1. {i \in 1..(n + 1) : b[i] = c} = T
      BY <2>3
    <3> QED
      BY <3>1
  <2>4. ASSUME b[n + 1] = c PROVE C(c, n + 1) = C(c, n) + 1
    <3>1. {i \in 1..(n + 1) : b[i] = c} = T \union {n + 1}
      BY <2>4
    <3>2. n + 1 \notin T
      OBVIOUS
    <3>3. Cardinality(T \union {n + 1}) = Cardinality(T) + 1
      BY <2>1, <3>2, FS_AddElement
    <3> QED
      BY <3>1, <3>3
  <2> QED
    BY <2>1, <2>2, <2>3, <2>4
<1>2. \A n : Level(b, n) = C("(", n) - C(")", n)
  BY DEF Level
<1> HIDE DEF C
<1> DEFINE o == C("(", k)
           e == C(")", k)
<1>3. o \in Nat /\ e \in Nat /\ Level(b, k) = o - e
  BY <1>1, <1>2
<1>4. Level(b, 0) = 0
  <2>1. C("(", 0) = 0 /\ C(")", 0) = 0
    BY <1>1
  <2>2. 0 - 0 = 0
    OBVIOUS
  <2> QED
    BY <1>2, <2>1, <2>2
<1> DEFINE t == b[k + 1]
           o1 == C("(", k + 1)
           e1 == C(")", k + 1)
<1>5. /\ t # "(" => o1 = o
      /\ t = "(" => o1 = o + 1
      /\ t # ")" => e1 = e
      /\ t = ")" => e1 = e + 1
  BY <1>1
<1>6. Level(b, k + 1) = o1 - e1
  BY <1>2
<1> HIDE DEF o, e, t, o1, e1
<1>7. (o + 1) - e = (o - e) + 1 /\ o - (e + 1) = (o - e) - 1 /\ o - e \in Int
  BY <1>3
<1>8. Level(b, k + 1) = NextDepth(Level(b, k), t)
  <2>1. CASE t = "("
    BY <1>3, <1>5, <1>6, <1>7, <2>1 DEF NextDepth
  <2>2. CASE t = ")"
    BY <1>3, <1>5, <1>6, <1>7, <2>2 DEF NextDepth
  <2>3. CASE t \notin {"(", ")"}
    BY <1>3, <1>5, <1>6, <1>7, <2>3 DEF NextDepth
  <2> QED
    BY <2>1, <2>2, <2>3
<1> QED
  BY <1>3, <1>4, <1>7, <1>8 DEF t

LEMMA BodyMoves ==
  ASSUME NEW b \in Bodies
  PROVE  Moves(Body(1), b, Body(1))
<1> DEFINE S == {k \in Nat : Moves(Body(1), SubSeq(b, 1, k), Body(1 + Level(b, k)))}
<1>1. b \in Seq(STRING) /\ Balanced(b) /\ Len(b) \in Nat /\ b \in Seq(Tokens)
  <2>1. b \in Seq(STRING) /\ Balanced(b)
    BY StatementAssumption
  <2>2. STRING \subseteq Tokens
    BY DEF Tokens
  <2>3. b \in Seq(Tokens)
    BY <2>1, <2>2, SeqMonotonic
  <2>4. Len(b) \in Nat
    BY <2>1
  <2> QED
    BY <2>1, <2>3, <2>4
<1>2. 0 \in S
  <2>1. CASE Len(b) = 0
    <3>1. Level(b, 0) = 0
      BY <1>1, <2>1 DEF Balanced
    <3>2. SubSeq(b, 1, 0) = <<>> /\ 1 + 0 = 1
      BY SubSeqEmpty
    <3> QED
      BY <3>1, <3>2, NoMove
  <2>2. CASE Len(b) # 0
    <3>1. 0 + 1 \in 1..Len(b)
      BY <1>1, <2>2
    <3>2. Level(b, 0) = 0
      BY <1>1, <3>1, Levels
    <3>3. SubSeq(b, 1, 0) = <<>> /\ 1 + 0 = 1
      BY SubSeqEmpty
    <3> QED
      BY <3>2, <3>3, NoMove
  <2> QED
    BY <2>1, <2>2
<1>3. ASSUME NEW k \in 0..(Len(b) - 1), k \in S PROVE k + 1 \in S
  <2> DEFINE c == b[k + 1]
             l == Level(b, k)
             m == Level(b, k + 1)
  <2>1. k \in Nat /\ k + 1 \in 1..Len(b) /\ c \in Tokens
    BY <1>1
  <2>2. l \in Int /\ m = NextDepth(l, c)
    BY <1>1, <2>1, Levels
  <2>3. l >= 0
    <3>1. CASE k = 0
      BY <1>1, <2>1, <3>1, Levels
    <3>2. CASE k # 0
      <4>1. k \in 1..Len(b)
        BY <1>1, <2>1, <3>2
      <4> QED
        BY <1>1, <4>1 DEF Balanced
    <3> QED
      BY <3>1, <3>2
  <2>4. m >= 0
    BY <1>1, <2>1 DEF Balanced
  <2>5. SubSeq(b, 1, k + 1) = SubSeq(b, 1, k) \o <<c>>
    <3>1. k + 1 \in 1..Len(b) /\ 1 \in 1..Len(b) /\ (k + 1) - 1 = k
      BY <1>1, <2>1
    <3> QED
      BY <1>1, <3>1, SubSeqRecursiveSecond
  <2>6. Moves(Body(1), SubSeq(b, 1, k), Body(1 + l))
    BY <1>3
  <2> HIDE DEF c, l, m
  <2>7. 1 + l \in Nat /\ (1 + l) + 1 = 1 + (l + 1) /\ (1 + l) - 1 = 1 + (l - 1) /\ (l - 1 >= 0 => (1 + l) - 1 # 0)
    BY <2>2, <2>3
  <2>8. ReadToken(Body(1 + l), c) = Body(1 + m)
    <3>1. CASE c = "("
      <4>1. m = l + 1
        BY <2>2, <3>1 DEF NextDepth
      <4> QED
        BY <2>7, <3>1, <4>1, BodyReads
    <3>2. CASE c = ")"
      <4>1. m = l - 1
        BY <2>2, <3>2 DEF NextDepth
      <4>2. (1 + l) - 1 # 0
        BY <2>4, <2>7, <4>1
      <4>3. ReadToken(Body(1 + l), ")") = Body((1 + l) - 1)
        BY <2>7, <4>2, BodyReads
      <4> QED
        BY <2>7, <3>2, <4>1, <4>3
    <3>3. CASE c \notin {"(", ")"}
      <4>1. m = l
        BY <2>2, <3>3 DEF NextDepth
      <4> QED
        BY <2>1, <2>7, <3>3, <4>1, BodyReads
    <3> QED
      BY <3>1, <3>2, <3>3
  <2>9. Moves(Body(1 + l), <<c>>, Body(1 + m))
    BY <2>1, <2>8, OneMove
  <2>10. Moves(Body(1), SubSeq(b, 1, k) \o <<c>>, Body(1 + m))
    BY <2>6, <2>9, ThenMove
  <2>11. Moves(Body(1), SubSeq(b, 1, k + 1), Body(1 + Level(b, k + 1)))
    BY <2>5, <2>10 DEF m, c
  <2> QED
    BY <2>1, <2>11
<1> HIDE DEF S
<1>4. Len(b) \in S
  <2>1. \A k \in 0..Len(b) : k \in S
    BY <1>1, <1>2, <1>3, Induction
  <2> QED
    BY <1>1, <2>1
<1>5. Moves(Body(1), SubSeq(b, 1, Len(b)), Body(1 + Level(b, Len(b))))
  BY <1>4 DEF S
<1>6. Level(b, Len(b)) = 0 /\ 1 + 0 = 1 /\ SubSeq(b, 1, Len(b)) = b
  BY <1>1, SubSeqFull DEF Balanced
<1> QED
  BY <1>5, <1>6

\* A longer run of tokens.
LEMMA AppendMove ==
  ASSUME NEW s, NEW t, NEW u, NEW c \in Tokens, Moves(s, u, t)
  PROVE  Moves(s, Append(u, c), ReadToken(t, c))
<1>1. u \in Seq(Tokens)
  BY DEF Moves
<1>2. Append(u, c) = u \o <<c>>
  BY <1>1, AppendIsConcat
<1>3. Moves(t, <<c>>, ReadToken(t, c))
  BY OneMove
<1> QED
  BY <1>2, <1>3, ThenMove

\* Tuples are built from their elements.
LEMMA Four  == \A a, b, c, d : <<a, b, c, d>> = Append(<<a, b, c>>, d)
OBVIOUS

LEMMA Five  == \A a, b, c, d, e : <<a, b, c, d, e>> = Append(<<a, b, c, d>>, e)
OBVIOUS

LEMMA Six   == \A a, b, c, d, e, f : <<a, b, c, d, e, f>> = Append(<<a, b, c, d, e>>, f)
OBVIOUS

\* The parts of a common table expression.
LEMMA NameMoves ==
  ASSUME NEW name \in CteNames
  PROVE  Moves(Header, name, Header)
<1> DEFINE inner == ReaderAt("cte-header", 1)
<1>1. {"name", "REPLACE", "MERGE", "(", ",", ")"} \subseteq Tokens
  BY DEF Tokens
<1>2. \A c \in {"name", "REPLACE", "MERGE"} : ReadToken(Header, c) = Header
  BY <1>1, HeaderReads
<1>3. \A c \in {"name", ","} : ReadToken(inner, c) = inner
  BY <1>1, HeaderReads
<1>4. ReadToken(Header, "(") = inner /\ ReadToken(inner, ")") = Header
  BY HeaderReads
<1> HIDE DEF inner
<1>5. \A c \in {"name", "REPLACE", "MERGE"} : Moves(Header, <<c>>, Header)
  <2>1. \A c \in {"name", "REPLACE", "MERGE"} : Moves(Header, <<c>>, ReadToken(Header, c))
    BY <1>1, OneMove
  <2> QED
    BY <1>2, <2>1
<1>6. Moves(Header, <<"MERGE", "(", "name", ",", "name", ")">>, Header)
  <2>1. Moves(Header, <<"MERGE">>, Header)
    BY <1>5
  <2>2. Moves(Header, <<"MERGE", "(">>, inner)
    <3>1. <<"MERGE", "(">> = Append(<<"MERGE">>, "(")
      OBVIOUS
    <3>2. Moves(Header, Append(<<"MERGE">>, "("), inner)
      BY <1>1, <1>3, <1>4, <2>1, AppendMove
    <3> QED
      BY <3>1, <3>2
  <2>3. Moves(Header, <<"MERGE", "(", "name">>, inner)
    <3>1. <<"MERGE", "(", "name">> = Append(<<"MERGE", "(">>, "name")
      OBVIOUS
    <3>2. Moves(Header, Append(<<"MERGE", "(">>, "name"), inner)
      BY <1>1, <1>3, <1>4, <2>2, AppendMove
    <3> QED
      BY <3>1, <3>2
  <2>4. Moves(Header, <<"MERGE", "(", "name", ",">>, inner)
    <3>1. <<"MERGE", "(", "name", ",">> = Append(<<"MERGE", "(", "name">>, ",")
      BY Four, Zenon
    <3>2. Moves(Header, Append(<<"MERGE", "(", "name">>, ","), inner)
      BY <1>1, <1>3, <1>4, <2>3, AppendMove
    <3> QED
      BY <3>1, <3>2
  <2>5. Moves(Header, <<"MERGE", "(", "name", ",", "name">>, inner)
    <3>1. <<"MERGE", "(", "name", ",", "name">> = Append(<<"MERGE", "(", "name", ",">>, "name")
      <4>1. \A c, d, e : <<"MERGE", "(", c, d, e>> = Append(<<"MERGE", "(", c, d>>, e)
        BY Five, Zenon
      <4> QED
        BY <4>1, Zenon
    <3>2. Moves(Header, Append(<<"MERGE", "(", "name", ",">>, "name"), inner)
      BY <1>1, <1>3, <1>4, <2>4, AppendMove
    <3> QED
      BY <3>1, <3>2
  <2>6. Moves(Header, <<"MERGE", "(", "name", ",", "name", ")">>, Header)
    <3>1. <<"MERGE", "(", "name", ",", "name", ")">> = Append(<<"MERGE", "(", "name", ",", "name">>, ")")
      <4>1. \A d, e, f : <<"MERGE", "(", "name", d, e, f>> = Append(<<"MERGE", "(", "name", d, e>>, f)
        BY Six, Zenon
      <4> QED
        BY <4>1, Zenon
    <3>2. Moves(Header, Append(<<"MERGE", "(", "name", ",", "name">>, ")"), Header)
      BY <1>1, <1>3, <1>4, <2>5, AppendMove
    <3> QED
      BY <3>1, <3>2
  <2> QED
    BY <2>6
<1> QED
  BY <1>5, <1>6 DEF CteNames

LEMMA Two == \A a, b : <<a, b>> = Append(<<a>>, b)
OBVIOUS

\* A common table expression is read to its end.
LEMMA CteMoves ==
  ASSUME NEW name \in CteNames, NEW hint \in CteHints, NEW b \in Bodies
  PROVE  Moves(Header, name \o <<"AS">> \o hint \o <<"comment", "(">> \o b \o <<")">>, AfterCte)
<1>1. {"AS", "MATERIALIZED", "comment", "(", ")"} \subseteq Tokens
  BY DEF Tokens
<1>2. Moves(Header, name, Header)
  BY NameMoves
<1>3. Moves(Header, <<"AS">>, Body(0))
  BY <1>1, OneMove, HeaderReads
<1>4. Moves(Header, name \o <<"AS">>, Body(0))
  BY <1>2, <1>3, ThenMove
<1>5. Moves(Body(0), hint, Body(0))
  <2>1. ReadToken(Body(0), "MATERIALIZED") = Body(0)
    BY <1>1, BodyReads
  <2>2. Moves(Body(0), <<"MATERIALIZED">>, Body(0))
    <3>1. Moves(Body(0), <<"MATERIALIZED">>, ReadToken(Body(0), "MATERIALIZED"))
      BY <1>1, OneMove
    <3> QED
      BY <2>1, <3>1
  <2> QED
    BY <2>2, NoMove DEF CteHints
<1>6. Moves(Header, name \o <<"AS">> \o hint, Body(0))
  BY <1>4, <1>5, ThenMove
<1>7. Moves(Body(0), <<"comment", "(">>, Body(1))
  <2>1. ReadToken(Body(0), "comment") = Body(0) /\ ReadToken(Body(0), "(") = Body(0 + 1)
    BY <1>1, BodyReads
  <2>2. 0 + 1 = 1
    OBVIOUS
  <2>3. Moves(Body(0), <<"comment">>, Body(0))
    <3>1. Moves(Body(0), <<"comment">>, ReadToken(Body(0), "comment"))
      BY <1>1, OneMove
    <3> QED
      BY <2>1, <3>1
  <2>4. Moves(Body(0), Append(<<"comment">>, "("), ReadToken(Body(0), "("))
    BY <1>1, <2>3, AppendMove
  <2>5. <<"comment", "(">> = Append(<<"comment">>, "(")
    BY Two, Zenon
  <2> QED
    BY <2>1, <2>2, <2>4, <2>5
<1>8. Moves(Header, name \o <<"AS">> \o hint \o <<"comment", "(">>, Body(1))
  BY <1>6, <1>7, ThenMove
<1>9. Moves(Header, name \o <<"AS">> \o hint \o <<"comment", "(">> \o b, Body(1))
  BY <1>8, BodyMoves, ThenMove
<1>10. Moves(Body(1), <<")">>, AfterCte)
  <2>1. Moves(Body(1), <<")">>, ReadToken(Body(1), ")"))
    BY <1>1, OneMove
  <2>2. ReadToken(Body(1), ")") = AfterCte
    BY BodyReads
  <2> QED
    BY <2>1, <2>2
<1> QED
  BY <1>9, <1>10, ThenMove

LEMMA WithMoves ==
  ASSUME NEW with \in WithClause
  PROVE  Moves(Unread, with, Unread) \/ Moves(Unread, with, AfterCte)
<1>1. {"WITH", "RECURSIVE", ","} \subseteq Tokens
  BY DEF Tokens
<1>2. ASSUME NEW a \in Cte PROVE Moves(Header, a, AfterCte)
  <2>1. PICK name \in CteNames, hint \in CteHints, b \in Bodies :
          a = CteText(name, hint, b)
    BY DEF Cte
  <2>2. Moves(Header, CteText(name, hint, b), AfterCte)
    BY CteMoves DEF CteText
  <2> QED
    BY <2>1, <2>2
<1>3. Moves(Unread, <<"WITH">>, Header)
  <2>1. ReadToken(Unread, "WITH") = Header
    BY DEF ReadToken, ReadStart, Unread, Header, ReaderAt
  <2>2. Moves(Unread, <<"WITH">>, ReadToken(Unread, "WITH"))
    BY <1>1, OneMove
  <2> QED
    BY <2>1, <2>2
<1>4. Moves(Unread, <<"WITH", "RECURSIVE">>, Header)
  <2>1. ReadToken(Header, "RECURSIVE") = Header
    BY <1>1, HeaderReads
  <2>2. Moves(Unread, Append(<<"WITH">>, "RECURSIVE"), ReadToken(Header, "RECURSIVE"))
    BY <1>1, <1>3, AppendMove
  <2>3. <<"WITH", "RECURSIVE">> = Append(<<"WITH">>, "RECURSIVE")
    BY Two, Zenon
  <2> QED
    BY <2>1, <2>2, <2>3
<1>5. Moves(AfterCte, <<",">>, Header)
  <2>1. ReadToken(AfterCte, ",") = Header
    BY DEF ReadToken, AfterCte, Header, ReaderAt
  <2>2. Moves(AfterCte, <<",">>, ReadToken(AfterCte, ","))
    BY <1>1, OneMove
  <2> QED
    BY <2>1, <2>2
<1>6. ASSUME NEW a \in Cte PROVE Moves(Unread, <<"WITH">> \o a, AfterCte)
  <2>1. Moves(Header, a, AfterCte)
    BY <1>2
  <2> QED
    BY <1>3, <2>1, ThenMove
<1>7. ASSUME NEW a \in Cte, NEW b \in Cte PROVE Moves(Unread, <<"WITH", "RECURSIVE">> \o a \o <<",">> \o b, AfterCte)
  <2>1. Moves(Header, a, AfterCte) /\ Moves(Header, b, AfterCte)
    BY <1>2
  <2>2. Moves(Unread, <<"WITH", "RECURSIVE">> \o a, AfterCte)
    BY <1>4, <2>1, ThenMove
  <2>3. Moves(Unread, <<"WITH", "RECURSIVE">> \o a \o <<",">>, Header)
    BY <1>5, <2>2, ThenMove
  <2> QED
    BY <2>1, <2>3, ThenMove
<1>8. Moves(Unread, <<>>, Unread)
  BY NoMove
<1>9. with = <<>> \/ (\E a \in Ctes(1) : with = OneCte(a)) \/ \E a \in Ctes(2), b \in Cte : with = TwoCtes(a, b)
  BY DEF WithClause
<1>10. \A n : Ctes(n) \subseteq Cte
  BY DEF Ctes
<1>11. ASSUME NEW a \in Ctes(1), with = OneCte(a) PROVE Moves(Unread, with, AfterCte)
  BY <1>6, <1>10, <1>11 DEF OneCte
<1>12. ASSUME NEW a \in Ctes(2), NEW b \in Cte, with = TwoCtes(a, b) PROVE Moves(Unread, with, AfterCte)
  BY <1>7, <1>10, <1>12 DEF TwoCtes
<1> QED
  BY <1>8, <1>9, <1>11, <1>12

\* The verb decides, and what follows it does not change that.
LEMMA VerbDecides ==
  ASSUME NEW s \in {Unread, AfterCte}, NEW verb \in Verbs
  PROVE  \E t : /\ Moves(s, <<verb, "name", "(", "SELECT", ")", "name">>, t)
                /\ t.result = IF verb \in Writing THEN "write" ELSE "read"
<1>1. {"name", "(", "SELECT", ")"} \subseteq Tokens /\ verb \in Tokens /\ verb \notin {";", "WITH", "comment", ","}
  <2>1. {"name", "(", "SELECT", ")"} \subseteq Tokens
    BY DEF Tokens
  <2>2. verb \in Tokens
    BY DEF Tokens
  <2>3. verb \notin {";", "WITH", "comment", ","}
    BY StatementAssumption
  <2> QED
    BY <2>1, <2>2, <2>3
<1> DEFINE t == ReadToken(s, verb)
<1>2. t.result = IF verb \in Writing THEN "write" ELSE "read"
  <2>1. t = ReadStart(s, verb)
    <3>1. s.result = "unknown" /\ s.state \in {"statement", "after-cte"}
      BY DEF Unread, AfterCte, ReaderAt
    <3>2. verb # "comment" /\ ~(s.state = "after-cte" /\ verb = ",") /\ s.state \notin {"cte-header", "cte-body"}
      BY <1>1, <3>1
    <3> QED
      BY <3>1, <3>2 DEF ReadToken
  <2>2. ReadStart(s, verb) = [s EXCEPT !.result = IF verb \in Writing THEN "write" ELSE "read"]
    BY <1>1 DEF ReadStart
  <2>3. "result" \in DOMAIN s
    BY DEF Unread, AfterCte, ReaderAt
  <2> QED
    BY <2>1, <2>2, <2>3
<1>3. Moves(s, <<verb>>, t)
  BY <1>1, OneMove
<1> HIDE DEF t
<1>4. \A c : ReadToken(t, c) = t
  BY <1>2 DEF ReadToken
<1>5. \A u : \A c \in Tokens : Moves(s, u, t) => Moves(s, Append(u, c), t)
  BY <1>4, AppendMove
<1>6. Moves(s, <<verb, "name">>, t)
  <2>1. <<verb, "name">> = Append(<<verb>>, "name")
    OBVIOUS
  <2> QED
    BY <1>1, <1>3, <1>5, <2>1
<1>7. Moves(s, <<verb, "name", "(">>, t)
  <2>1. <<verb, "name", "(">> = Append(<<verb, "name">>, "(")
    OBVIOUS
  <2> QED
    BY <1>1, <1>5, <1>6, <2>1
<1>8. Moves(s, <<verb, "name", "(", "SELECT">>, t)
  <2>1. <<verb, "name", "(", "SELECT">> = Append(<<verb, "name", "(">>, "SELECT")
    BY Four, Zenon
  <2> QED
    BY <1>1, <1>5, <1>7, <2>1
<1>9. Moves(s, <<verb, "name", "(", "SELECT", ")">>, t)
  <2>1. <<verb, "name", "(", "SELECT", ")">> = Append(<<verb, "name", "(", "SELECT">>, ")")
    <3>1. \A c, d, e : <<verb, "name", c, d, e>> = Append(<<verb, "name", c, d>>, e)
      BY Five, Zenon
    <3> QED
      BY <3>1, Zenon
  <2> QED
    BY <1>1, <1>5, <1>8, <2>1
<1>10. Moves(s, <<verb, "name", "(", "SELECT", ")", "name">>, t)
  <2>1. <<verb, "name", "(", "SELECT", ")", "name">> = Append(<<verb, "name", "(", "SELECT", ")">>, "name")
    <3>1. \A d, e, f : <<verb, "name", "(", d, e, f>> = Append(<<verb, "name", "(", d, e>>, f)
      BY Six, Zenon
    <3> QED
      BY <3>1, Zenon
  <2> QED
    BY <1>1, <1>5, <1>9, <2>1
<1> QED
  BY <1>2, <1>10

LEMMA LeadMoves ==
  ASSUME NEW lead \in Lead
  PROVE  Moves(Unread, lead, Unread)
<1>1. {";", "comment"} \subseteq Tokens
  BY DEF Tokens
<1>2. ReadToken(Unread, ";") = Unread /\ ReadToken(Unread, "comment") = Unread
  BY DEF ReadToken, ReadStart, Unread
<1>3. Moves(Unread, <<";">>, Unread)
  <2>1. Moves(Unread, <<";">>, ReadToken(Unread, ";"))
    BY <1>1, OneMove
  <2> QED
    BY <1>2, <2>1
<1>4. Moves(Unread, Append(<<";">>, "comment"), Unread)
  <2>1. Moves(Unread, Append(<<";">>, "comment"), ReadToken(Unread, "comment"))
    BY <1>1, <1>3, AppendMove
  <2> QED
    BY <1>2, <2>1
<1>5. <<";", "comment">> = Append(<<";">>, "comment")
  BY Two, Zenon
<1> QED
  BY <1>4, <1>5, NoMove DEF Lead

\* From the beginning of a statement.
LEMMA ReadsTo ==
  ASSUME NEW u, NEW t, Moves(Unread, u, t)
  PROVE  ReadTokens(u) = t
<1>1. <<>> \in Seq(Tokens) /\ ReadTokens(<<>>) = Unread /\ u \in Seq(Tokens)
  BY NextToken DEF Moves
<1>2. ReadTokens(<<>> \o u) = t
  BY <1>1 DEF Moves
<1> QED
  BY <1>1, <1>2, ConcatEmptySeq

\* _is_write_statement() is right about every statement of the grammar, which has up to two
\* common table expressions with any balanced text in their parentheses: it takes INSERT,
\* UPDATE, DELETE and REPLACE, and nothing else, for a write, whatever stands in front.
THEOREM StatementsAreClassified ==
  ASSUME NEW s \in Statements
  PROVE  IsWriteStatement(s.tokens) <=> s.verb \in Writing
<1>1. ASSUME NEW verb \in Verbs, NEW lead \in Lead, NEW with \in WithClause
      PROVE  IsWriteStatement(lead \o with \o <<verb, "name", "(", "SELECT", ")", "name">>) <=> verb \in Writing
  <2>1. PICK m \in {Unread, AfterCte} : Moves(Unread, with, m)
    BY WithMoves
  <2>2. PICK t : /\ Moves(m, <<verb, "name", "(", "SELECT", ")", "name">>, t)
                 /\ t.result = IF verb \in Writing THEN "write" ELSE "read"
    BY VerbDecides
  <2>3. Moves(Unread, lead \o with, m)
    BY <2>1, LeadMoves, ThenMove
  <2>4. Moves(Unread, lead \o with \o <<verb, "name", "(", "SELECT", ")", "name">>, t)
    BY <2>2, <2>3, ThenMove
  <2>5. ReadTokens(lead \o with \o <<verb, "name", "(", "SELECT", ")", "name">>) = t
    BY <2>4, ReadsTo
  <2> QED
    BY <2>2, <2>5 DEF IsWriteStatement, ReadTokens
<1>2. ASSUME NEW lead \in Lead PROVE ~IsWriteStatement(lead)
  <2>1. ReadTokens(lead) = Unread
    BY LeadMoves, ReadsTo
  <2> QED
    BY <2>1 DEF IsWriteStatement, ReadTokens, Unread
<1>3. "none" \notin Writing
  BY DEF Writing
<1>4. \/ \E verb \in Verbs, lead \in Lead, with \in WithClause : s = Statement(verb, lead, with)
      \/ \E lead \in Lead : s = [verb |-> "none", tokens |-> lead]
  BY DEF Statements
<1>5. ASSUME NEW verb \in Verbs, NEW lead \in Lead, NEW with \in WithClause, s = Statement(verb, lead, with)
      PROVE  IsWriteStatement(s.tokens) <=> s.verb \in Writing
  BY <1>1, <1>5 DEF Statement
<1>6. ASSUME NEW lead \in Lead, s = [verb |-> "none", tokens |-> lead]
      PROVE  IsWriteStatement(s.tokens) <=> s.verb \in Writing
  BY <1>2, <1>3, <1>6
<1> QED
  BY <1>4, <1>5, <1>6

LEMMA KindsAreRight == \A kind \in Kinds : kind.taken = kind.writes
<1> SUFFICES ASSUME NEW kind \in Kinds PROVE kind.taken = kind.writes
  OBVIOUS
<1>1. PICK s \in Statements : kind = [writes |-> s.verb \in Writing, taken |-> IsWriteStatement(s.tokens)]
  BY DEF Kinds
<1>2. kind.writes = (s.verb \in Writing) /\ kind.taken = IsWriteStatement(s.tokens)
  BY <1>1
<1>3. IsWriteStatement(s.tokens) = (s.verb \in Writing)
  BY StatementsAreClassified DEF IsWriteStatement
<1> QED
  BY <1>2, <1>3

--------------------------------------------------------------------------------
(* The cursor.                                                                 *)

Pairs     == Nat \X Nat
Sequences == Seq(Pairs)

ResultInv ==
  /\ returning_rows \in Sequences /\ stream \in Sequences /\ due \in Sequences /\ given \in Sequences
  /\ ~stored => returning_rows = <<>>
  /\ step \in {"preparing", "running"} => ~stored /\ due = <<>> /\ given = <<>>
  /\ step = "preparing" /\ call = "executemany" /\ batch # <<>> => stream = <<>>

StepInv ==
  /\ step \in {"ready", "closed"} => outcome = "idle" /\ row = NoParameters
  /\ step = "preparing" => outcome # "idle"
  /\ step = "running" =>
       \/ outcome = "converted" /\ Accepts(row)
       \/ outcome = "idle" /\ row = NoParameters /\ call = "execute"

BatchInv ==
  /\ step = "preparing" /\ call = "execute" => batch = <<>>
  /\ step = "preparing" /\ call = "executemany" => ran = Len(batch)
  /\ BatchIsStreamed

CursorTypeOK ==
  /\ step \in {"ready", "preparing", "running", "closed"}
  /\ call \in {"execute", "executemany"}
  /\ row \in Rows
  /\ stored \in BOOLEAN /\ writes \in BOOLEAN /\ raised \in BOOLEAN
  /\ calls \in 0..MaxCalls
  /\ batch \in Seq(Rows) /\ ran \in 0..Len(batch)

CursorInv == CursorTypeOK /\ ScanInv /\ StepInv /\ BatchInv /\ ResultInv

LEMMA TypesAre == TypeOK <=> CursorTypeOK /\ ScanTypeOK
BY DEF TypeOK, CursorTypeOK

LEMMA NoParametersIsARow == NoParameters \in Rows
<1>1. MaxParameters \in Nat
  BY CursorAssumption
<1>2. 0 \in 0..MaxParameters
  BY <1>1
<1> QED
  BY <1>2 DEF NoParameters, Rows

LEMMA NoRows == <<>> \in Sequences /\ <<>> \in Seq(Rows) /\ Len(<<>>) = 0 /\ 0 \in 0..Len(<<>>)
BY DEF Sequences

LEMMA CursorStarts == Init => CursorInv
<1> SUFFICES ASSUME Init PROVE CursorInv
  OBVIOUS
<1>1. /\ step = "ready" /\ call = "execute" /\ row = NoParameters /\ stored = FALSE /\ returning_rows = <<>>
      /\ stream = <<>> /\ writes = FALSE /\ raised = FALSE /\ batch = <<>> /\ due = <<>> /\ given = <<>>
  BY DEF Init
<1>2. ran = 0 /\ calls = 0 /\ batch = <<>>
  BY DEF Init
<1>3. ScanInv /\ outcome = "idle"
  BY EmptyScan DEF Init, InitScan
<1>4. ran \in 0..Len(batch) /\ ran = Len(batch)
  BY ONLY <1>2, NoRows
<1>5. calls \in 0..MaxCalls
  <2>1. MaxCalls \in Nat
    BY CursorAssumption
  <2> QED
    BY <1>2, <2>1
<1>6. CursorTypeOK
  BY <1>1, <1>4, <1>5, NoParametersIsARow, NoRows DEF CursorTypeOK
<1>7. StepInv
  BY <1>1, <1>3 DEF StepInv
<1>8. BatchInv
  BY <1>1 DEF BatchInv, BatchIsStreamed
<1>9. ResultInv
  BY <1>1, NoRows DEF ResultInv
<1> QED
  BY <1>3, <1>6, <1>7, <1>8, <1>9 DEF CursorInv

\* Steps that leave the batch alone, and keep or lower what the step says of it.
LEMMA BeginKeeps ==
  ASSUME CursorInv, NEW method \in {"execute", "executemany"}, Begin(method)
  PROVE  /\ step' \in {"preparing", "running"} => CursorTypeOK' /\ ResultInv'
         /\ step' = "preparing" \/ (step' = "running" /\ method = "execute") => BatchInv'
         /\ outcome = "idle" /\ row' = NoParameters /\ call' = method /\ InitScan
<1>1. /\ step = "ready" /\ call' = method /\ stored' = FALSE /\ returning_rows' = <<>> /\ batch' = <<>>
      /\ due' = <<>> /\ given' = <<>>
      /\ stream' = stream /\ writes' = writes /\ raised' = raised /\ row' = row
  BY DEF Begin, DropStored
<1>2. calls' = calls + 1 /\ calls < MaxCalls /\ ran' = 0 /\ batch' = <<>>
  BY DEF Begin
<1>3. outcome = "idle" /\ row = NoParameters
  BY <1>1 DEF CursorInv, StepInv
<1>4. InitScan
  BY <1>3 DEF CursorInv, ScanInv, IdleScan
<1>5. calls' \in 0..MaxCalls
  <2>1. MaxCalls \in Nat /\ calls \in 0..MaxCalls
    BY CursorAssumption DEF CursorInv, CursorTypeOK
  <2> QED
    BY <1>2, <2>1
<1>6. ran' \in 0..Len(batch') /\ ran' = Len(batch')
  BY ONLY <1>2, NoRows
<1>7. CursorTypeOK
  BY DEF CursorInv
<1>8. step' \in {"preparing", "running"} => CursorTypeOK'
  BY <1>1, <1>5, <1>6, <1>7, NoRows DEF CursorTypeOK
<1>9. stream \in Sequences
  BY DEF CursorInv, ResultInv
<1>10. ResultInv'
  BY <1>1, <1>9, NoRows DEF ResultInv
<1>11. step' = "preparing" \/ (step' = "running" /\ method = "execute") => BatchInv'
  BY <1>1, <1>6 DEF BatchInv, BatchIsStreamed
<1> QED
  BY <1>1, <1>3, <1>4, <1>8, <1>10, <1>11

\* Texts of a call are made of the characters above.
LEMMA QueriesAreTexts ==
  ASSUME NEW mapping \in BOOLEAN
  PROVE  Queries(mapping) \subseteq Seq(Char) /\ FewQueries[mapping] \subseteq Seq(Char)
<1>1. Characters[mapping] \subseteq Char
  BY DEF Char
<1>2. ASSUME NEW q \in Queries(mapping) PROVE q \in Seq(Char)
  <2>1. MaxLength[mapping] \in Nat
    BY ConversionAssumption
  <2>2. PICK length \in 0..MaxLength[mapping] : q \in [1..length -> Characters[mapping]]
    BY <1>2 DEF Queries
  <2>3. length \in Nat
    BY <2>1
  <2> QED
    BY <1>1, <2>2, <2>3
<1>3. ASSUME NEW q \in FewQueries[mapping] PROVE q \in Seq(Char)
  <2>1. q \in Seq(Characters[TRUE] \union Characters[FALSE] \union NativeMarkers)
    BY <1>3, CursorAssumption
  <2>2. Characters[TRUE] \union Characters[FALSE] \union NativeMarkers \subseteq Char
    BY DEF NativeMarkers, Char
  <2> QED
    BY <2>1, <2>2, SeqMonotonic
<1> QED
  BY <1>2, <1>3

LEMMA BeginWithParametersKeeps ==
  ASSUME CursorInv, NEW method \in {"execute", "executemany"}, NEW mapping \in BOOLEAN, NEW names \in SUBSET Names,
         BeginWithParameters(method, mapping, names)
  PROVE  CursorInv'
<1> DEFINE texts == IF calls = 0 /\ method = "execute" /\ (mapping => names # {})
                    THEN Queries(mapping) ELSE FewQueries[mapping]
<1>1. Begin(method) /\ step' = "preparing" /\ BeginScan(texts, mapping, names)
  BY DEF BeginWithParameters
<1>2. texts \subseteq Seq(Char)
  BY QueriesAreTexts
<1> HIDE DEF texts
<1>3. CursorTypeOK' /\ ResultInv' /\ BatchInv' /\ InitScan
  BY <1>1, BeginKeeps
<1>4. ScanInv'
  BY <1>1, <1>2, <1>3, BeginScanKeeps
<1>5. outcome' = "scanning"
  BY <1>1 DEF BeginScan
<1>6. StepInv'
  BY <1>1, <1>5 DEF StepInv
<1> QED
  BY <1>3, <1>4, <1>6 DEF CursorInv

LEMMA BeginWithoutParametersKeeps ==
  ASSUME CursorInv, BeginWithoutParameters
  PROVE  CursorInv'
<1>1. Begin("execute") /\ step' = "running" /\ UNCHANGED scan
  BY DEF BeginWithoutParameters
<1>2. CursorTypeOK' /\ ResultInv' /\ BatchInv' /\ outcome = "idle" /\ row' = NoParameters /\ call' = "execute"
  BY <1>1, BeginKeeps
<1>3. ScanInv' /\ outcome' = outcome
  BY <1>1, SameScanKeeps DEF CursorInv, scan
<1>4. StepInv'
  BY <1>1, <1>2, <1>3 DEF StepInv
<1> QED
  BY <1>2, <1>3, <1>4 DEF CursorInv

LEMMA EmptyBatchKeeps ==
  ASSUME CursorInv, EmptyBatch
  PROVE  CursorInv'
<1>1. /\ step' = step /\ call' = call /\ row' = row /\ UNCHANGED scan
      /\ stored' = stored /\ returning_rows' = returning_rows /\ stream' = stream /\ writes' = writes
      /\ raised' = raised /\ batch' = batch /\ ran' = ran /\ due' = due /\ given' = given
  BY DEF EmptyBatch, results, history
<1>2. calls' \in 0..MaxCalls
  <2>1. calls' = calls + 1 /\ calls < MaxCalls
    BY DEF EmptyBatch
  <2>2. MaxCalls \in Nat /\ calls \in 0..MaxCalls
    BY CursorAssumption DEF CursorInv, CursorTypeOK
  <2> QED
    BY <2>1, <2>2
<1>3. ScanInv'
  BY <1>1, SameScanKeeps DEF CursorInv
<1>4. outcome' = outcome /\ positional_count' = positional_count /\ required_names' = required_names /\ native_bindings' = native_bindings
  BY <1>1 DEF scan, bindings
<1>5. CursorTypeOK'
  BY <1>1, <1>2 DEF CursorInv, CursorTypeOK
<1>6. StepInv'
  BY <1>1, <1>4 DEF CursorInv, StepInv, Accepts, MatchingCount
<1>7. BatchInv'
  BY <1>1 DEF CursorInv, BatchInv, BatchIsStreamed
<1>8. ResultInv'
  BY <1>1 DEF CursorInv, ResultInv
<1> QED
  BY <1>3, <1>5, <1>6, <1>7, <1>8 DEF CursorInv

\* Only a call that is being prepared scans.
LEMMA ScanKeepsCursor ==
  ASSUME CursorInv, Scan
  PROVE  CursorInv'
<1>1. /\ step' = step /\ call' = call /\ row' = row
      /\ stored' = stored /\ returning_rows' = returning_rows /\ stream' = stream /\ writes' = writes
      /\ calls' = calls
      /\ raised' = raised /\ batch' = batch /\ ran' = ran /\ due' = due /\ given' = given
  BY DEF Scan, results, history
<1>2. outcome = "scanning" /\ outcome' \in {"scanning", "converted", "KeyError"}
  <2>1. ASSUME ScanStep PROVE outcome = "scanning" /\ outcome' \in {"scanning", "KeyError"}
    <3>1. InLineComment \/ InBlockComment \/ InIdentifier \/ InLiteral => outcome = "scanning" /\ outcome' = outcome
      BY DEF InLineComment, InBlockComment, InIdentifier, InLiteral, Reads, Keep
    <3>2. EscapedPercent \/ OpenComment \/ OpenQuote => outcome = "scanning" /\ outcome' = outcome
      BY DEF EscapedPercent, OpenComment, OpenQuote, Reads, Keep, Replace
    <3>3. Positional \/ PlainCharacter => outcome = "scanning" /\ outcome' = outcome
      BY DEF Positional, PlainCharacter, Reads, Keep, Replace
    <3>4. NamedPlaceholder => outcome = "scanning" /\ outcome' \in {"scanning", "KeyError"}
      BY DEF NamedPlaceholder, Malformed, Reads, Keep, Replace
    <3> QED
      BY <2>1, <3>1, <3>2, <3>3, <3>4 DEF ScanStep
  <2>2. ASSUME EndScan PROVE outcome = "scanning" /\ outcome' = "converted"
    BY <2>2 DEF EndScan
  <2> QED
    BY <2>1, <2>2 DEF Scan
<1>3. ScanInv'
  BY ScanStepKeeps, EndScanKeeps DEF Scan, CursorInv
<1>4. step = "preparing"
  BY <1>2 DEF CursorInv, CursorTypeOK, StepInv
<1>5. CursorTypeOK'
  BY <1>1 DEF CursorInv, CursorTypeOK
<1>6. StepInv'
  BY <1>1, <1>2, <1>4 DEF StepInv
<1>7. BatchInv'
  BY <1>1 DEF CursorInv, BatchInv, BatchIsStreamed
<1>8. ResultInv'
  BY <1>1 DEF CursorInv, ResultInv
<1> QED
  BY <1>3, <1>5, <1>6, <1>7, <1>8 DEF CursorInv

\* A call that returns or raises.
LEMMA LeaveKeeps ==
  ASSUME CursorInv, NEW raises \in BOOLEAN, Leave(raises), call' = call, calls' = calls,
         writes' \in BOOLEAN, stored' \in BOOLEAN, {returning_rows', stream', due', given'} \subseteq Sequences,
         ~stored' => returning_rows' = <<>>, batch' \in Seq(Rows), ran' \in 0..Len(batch'), BatchIsStreamed'
  PROVE  CursorInv'
<1>1. step' = "ready" /\ raised' = raises /\ row' = NoParameters /\ ScanInv' /\ InitScan'
  BY ForgetScanKeeps DEF Leave
<1>2. outcome' = "idle"
  BY <1>1 DEF InitScan
<1>3. CursorTypeOK'
  BY <1>1, NoParametersIsARow DEF CursorInv, CursorTypeOK
<1>4. StepInv'
  BY <1>1, <1>2 DEF StepInv
<1>5. BatchInv'
  BY <1>1 DEF BatchInv
<1>6. ResultInv'
  BY <1>1 DEF ResultInv
<1> QED
  BY <1>1, <1>3, <1>4, <1>5, <1>6 DEF CursorInv

\* What calls leave of the results.
LEMMA ResultTypes ==
  ASSUME CursorInv
  PROVE  /\ {returning_rows, stream, due, given} \subseteq Sequences /\ <<>> \in Sequences
         /\ stored \in BOOLEAN /\ writes \in BOOLEAN /\ raised \in BOOLEAN
         /\ ~stored => returning_rows = <<>>
         /\ batch \in Seq(Rows) /\ ran \in 0..Len(batch)
BY NoRows DEF CursorInv, CursorTypeOK, ResultInv

LEMMA UnknownNameKeeps ==
  ASSUME CursorInv, UnknownName
  PROVE  CursorInv'
<1>1. /\ step = "preparing" /\ Leave(TRUE) /\ raised' = TRUE /\ step' = "ready" /\ call' = call /\ calls' = calls
      /\ stored' = stored /\ returning_rows' = returning_rows /\ stream' = stream /\ writes' = writes
      /\ batch' = batch /\ ran' = ran /\ due' = due /\ given' = given
  BY DEF UnknownName, results, Leave
<1>2. BatchIsStreamed'
  BY <1>1 DEF CursorInv, BatchInv, BatchIsStreamed
<1> QED
  BY <1>1, <1>2, ResultTypes, LeaveKeeps

LEMMA RefuseKeeps ==
  ASSUME CursorInv, Refuse, step = "preparing", batch' \in Seq(Rows), ran' \in 0..Len(batch'),
         call = "executemany" => ran \in {Len(batch') - 1, Len(batch')}
  PROVE  CursorInv'
<1>1. /\ Leave(TRUE) /\ raised' = TRUE /\ step' = "ready" /\ call' = call /\ calls' = calls
      /\ stored' = stored /\ returning_rows' = returning_rows /\ stream' \in {stream, <<>>} /\ writes' = writes
      /\ ran' = ran /\ due' = due /\ given' = given
  BY DEF Refuse, Leave
<1>2. BatchIsStreamed'
  BY <1>1 DEF BatchIsStreamed
<1>3. stream' \in Sequences
  BY <1>1, ResultTypes
<1> QED
  BY <1>1, <1>2, <1>3, ResultTypes, LeaveKeeps

LEMMA PrepareKeeps ==
  ASSUME CursorInv, NEW r \in Rows, Prepare(r)
  PROVE  CursorInv'
<1>1. /\ step = "preparing" /\ outcome = "converted" /\ (call = "execute" => Len(batch) = 0)
      /\ batch' = Append(batch, r)
  BY DEF Prepare, First
<1>2. /\ batch' \in Seq(Rows) /\ Len(batch') = Len(batch) + 1 /\ ran \in 0..Len(batch') /\ batch' # <<>>
  <2>1. batch \in Seq(Rows) /\ batch' = Append(batch, r) /\ ran \in 0..Len(batch)
    BY <1>1, ResultTypes
  <2> QED
    BY <2>1
<1>3. ASSUME call = "executemany" PROVE ran = Len(batch') - 1
  <2>1. ran = Len(batch)
    BY <1>1, <1>3 DEF CursorInv, BatchInv
  <2>2. Len(batch) \in Nat
    BY ResultTypes
  <2> QED
    BY <1>2, <2>1, <2>2
<1>4. ASSUME ~Accepts(r), Refuse PROVE CursorInv'
  <2>1. ran' = ran
    BY <1>4 DEF Refuse
  <2> QED
    BY <1>1, <1>2, <1>3, <1>4, <2>1, RefuseKeeps
<1>5. ASSUME Accepts(r), row' = r, step' = AfterCheck,
             UNCHANGED <<scan, call, results, calls, raised, ran, due, given>>
      PROVE  CursorInv'
  <2>1. /\ step' = "running" /\ call' = call /\ row' = r /\ UNCHANGED scan
        /\ stored' = stored /\ returning_rows' = returning_rows /\ stream' = stream /\ writes' = writes
        /\ calls' = calls /\ raised' = raised /\ ran' = ran /\ due' = due /\ given' = given
    BY <1>5 DEF results, AfterCheck
  <2>2. ScanInv'
    BY <2>1, SameScanKeeps DEF CursorInv
  <2>3. /\ outcome' = outcome /\ positional_count' = positional_count /\ required_names' = required_names
        /\ native_bindings' = native_bindings
    BY <2>1 DEF scan, bindings
  <2>4. CursorTypeOK'
    BY <1>2, <2>1 DEF CursorInv, CursorTypeOK
  <2>5. StepInv'
    <3>1. Accepts(row)'
      BY <1>5, <2>1, <2>3 DEF Accepts, MatchingCount
    <3> QED
      BY <1>1, <2>1, <2>3, <3>1 DEF StepInv
  <2>6. BatchInv'
    BY <1>3, <2>1 DEF BatchInv, BatchIsStreamed
  <2>7. ResultInv'
    BY <1>1, <2>1 DEF CursorInv, ResultInv
  <2> QED
    BY <2>2, <2>4, <2>5, <2>6, <2>7 DEF CursorInv
<1> QED
  BY <1>4, <1>5 DEF Prepare

LEMMA IteratorRaisesKeeps ==
  ASSUME CursorInv, IteratorRaises
  PROVE  CursorInv'
<1>1. step = "preparing" /\ call = "executemany" /\ Refuse /\ batch' = batch
  BY DEF IteratorRaises
<1>2. ran = Len(batch) /\ ran' = ran
  BY <1>1 DEF CursorInv, BatchInv, Refuse
<1> QED
  BY <1>1, <1>2, ResultTypes, RefuseKeeps

LEMMA RunRowKeeps ==
  ASSUME CursorInv, RunRow
  PROVE  CursorInv'
<1>1. /\ step = "running" /\ call = "executemany" /\ step' = "preparing" /\ stream' = <<>>
      /\ UNCHANGED scan /\ call' = call /\ row' = row /\ stored' = stored /\ returning_rows' = returning_rows
      /\ writes' = writes /\ calls' = calls /\ raised' = raised /\ due' = due /\ given' = given
  BY DEF RunRow
<1>2. ran' = ran + 1 /\ batch' = batch
  BY DEF RunRow
<1>3. ran = Len(batch) - 1
  BY <1>1 DEF CursorInv, BatchInv, BatchIsStreamed
<1>4. ran' = Len(batch') /\ ran' \in 0..Len(batch') /\ batch' \in Seq(Rows)
  <2>1. Len(batch) \in Nat /\ ran \in 0..Len(batch) /\ batch \in Seq(Rows)
    BY ResultTypes
  <2> QED
    BY <1>2, <1>3, <2>1
<1>5. ScanInv'
  BY <1>1, SameScanKeeps DEF CursorInv
<1>6. outcome' = "converted"
  <2>1. outcome' = outcome
    BY <1>1 DEF scan
  <2> QED
    BY <1>1, <2>1 DEF CursorInv, StepInv
<1>7. CursorTypeOK'
  BY <1>1, <1>4 DEF CursorInv, CursorTypeOK
<1>8. StepInv'
  BY <1>1, <1>6 DEF StepInv
<1>9. BatchInv'
  BY <1>1, <1>4 DEF BatchInv, BatchIsStreamed
<1>10. ResultInv'
  BY <1>1, NoRows DEF CursorInv, ResultInv
<1> QED
  BY <1>5, <1>7, <1>8, <1>9, <1>10 DEF CursorInv

LEMMA EndBatchKeeps ==
  ASSUME CursorInv, EndBatch
  PROVE  CursorInv'
<1>1. /\ step = "preparing" /\ call = "executemany" /\ Leave(FALSE) /\ raised' = FALSE /\ step' = "ready"
      /\ writes' = TRUE /\ call' = call /\ calls' = calls
      /\ stored' = stored /\ returning_rows' = returning_rows /\ stream' = stream
      /\ batch' = batch /\ ran' = ran /\ due' = due /\ given' = given
  BY DEF EndBatch, Leave
<1>2. BatchIsStreamed'
  BY <1>1 DEF CursorInv, BatchInv, BatchIsStreamed
<1> QED
  BY <1>1, <1>2, ResultTypes, LeaveKeeps

LEMMA DriverFailsKeeps ==
  ASSUME CursorInv, DriverFails
  PROVE  CursorInv'
<1>1. /\ step = "running" /\ Leave(TRUE) /\ raised' = TRUE /\ step' = "ready"
      /\ writes' = writes /\ call' = call /\ calls' = calls
      /\ stored' = stored /\ returning_rows' = returning_rows /\ stream' = <<>>
      /\ batch' = batch /\ ran' = ran /\ due' = due /\ given' = given
  BY DEF DriverFails, Leave
<1>2. BatchIsStreamed'
  BY <1>1 DEF CursorInv, BatchInv, BatchIsStreamed
<1> QED
  BY <1>1, <1>2, ResultTypes, LeaveKeeps

LEMMA RowsOfStatement ==
  ASSUME CursorInv, NEW size \in Nat
  PROVE  [i \in 1..size |-> <<calls, i>>] \in Sequences
<1>1. calls \in Nat
  <2>1. MaxCalls \in Nat /\ calls \in 0..MaxCalls
    BY CursorAssumption DEF CursorInv, CursorTypeOK
  <2> QED
    BY <2>1
<1> QED
  BY <1>1 DEF Sequences, Pairs

LEMMA RunStatementKeeps ==
  ASSUME CursorInv, NEW kind \in Kinds, NEW columns \in BOOLEAN, NEW size \in 0..MaxResult,
         RunStatement(kind, columns, size)
  PROVE  CursorInv'
<1> DEFINE rows == [i \in 1..size |-> <<calls, i>>]
<1>1. /\ step = "running" /\ call = "execute" /\ Leave(FALSE) /\ raised' = FALSE /\ step' = "ready"
      /\ due' = rows /\ writes' = kind.writes /\ call' = call /\ calls' = calls
      /\ batch' = batch /\ ran' = ran /\ given' = given
      /\ IF Drains(kind, columns)
         THEN stored' = TRUE /\ returning_rows' = rows /\ stream' = <<>>
         ELSE stream' = rows /\ stored' = stored /\ returning_rows' = returning_rows
  BY DEF RunStatement, Leave
<1>2. rows \in Sequences
  <2>1. size \in Nat
    BY CursorAssumption
  <2> QED
    BY <2>1, RowsOfStatement
<1> HIDE DEF rows
<1>3. writes' \in BOOLEAN
  <2>1. PICK s \in Statements : kind = [writes |-> s.verb \in Writing, taken |-> IsWriteStatement(s.tokens)]
    BY DEF Kinds
  <2>2. kind.writes = (s.verb \in Writing)
    BY <2>1
  <2>3. (s.verb \in Writing) = TRUE \/ (s.verb \in Writing) = FALSE
    OBVIOUS
  <2>4. kind.writes \in BOOLEAN
    BY <2>2, <2>3
  <2> QED
    BY <1>1, <2>4
<1>4. BatchIsStreamed'
  BY <1>1 DEF BatchIsStreamed
<1>5. /\ {returning_rows', stream', due', given'} \subseteq Sequences
      /\ stored' \in BOOLEAN /\ (~stored' => returning_rows' = <<>>)
  BY <1>1, <1>2, ResultTypes
<1> QED
  BY <1>1, <1>3, <1>4, <1>5, ResultTypes, LeaveKeeps

\* A fetch takes the first rows that are there.
LEMMA Taking ==
  ASSUME NEW s \in Sequences, NEW size \in Nat
  PROVE  LET n == IF size < Len(s) THEN size ELSE Len(s)
             a == SubSeq(s, 1, n)
             b == SubSeq(s, n + 1, Len(s))
         IN a \in Sequences /\ b \in Sequences /\ a \o b = s /\ (s = <<>> => b = <<>>)
<1> DEFINE n == IF size < Len(s) THEN size ELSE Len(s)
<1>1. n \in 0..Len(s) /\ Len(s) \in Nat
  BY DEF Sequences
<1> HIDE DEF n
<1>2. SubSeq(s, 1, n) \in Sequences /\ SubSeq(s, n + 1, Len(s)) \in Sequences
  <2>1. ASSUME NEW i \in 1..n PROVE s[i] \in Pairs
    BY <1>1 DEF Sequences
  <2>2. ASSUME NEW i \in (n + 1)..Len(s) PROVE s[i] \in Pairs
    BY <1>1 DEF Sequences
  <2>3. n \in Int /\ n + 1 \in Int /\ Len(s) \in Int /\ 1 \in Int
    BY <1>1
  <2>4. SubSeq(s, 1, n) \in Seq(Pairs)
    BY <2>1, <2>3, SubSeqProperties
  <2>5. SubSeq(s, n + 1, Len(s)) \in Seq(Pairs)
    BY <2>2, <2>3, SubSeqProperties
  <2> QED
    BY <2>4, <2>5 DEF Sequences
<1>3. SubSeq(s, 1, n) \o SubSeq(s, n + 1, Len(s)) = s
  <2>1. s \in Seq(Pairs) /\ 1 \in 1..(Len(s) + 1) /\ n \in (1 - 1)..Len(s) /\ Len(s) \in n..Len(s)
    BY <1>1 DEF Sequences
  <2>2. SubSeq(s, 1, n) \o SubSeq(s, n + 1, Len(s)) = SubSeq(s, 1, Len(s))
    BY <2>1, ConcatAdjacentSubSeq
  <2> QED
    BY <2>1, <2>2, SubSeqFull
<1>4. s = <<>> => SubSeq(s, n + 1, Len(s)) = <<>>
  <2>1. Len(s) < n + 1 /\ n + 1 \in Int /\ Len(s) \in Int => SubSeq(s, n + 1, Len(s)) = <<>>
    BY SubSeqEmpty
  <2>2. s = <<>> => Len(s) = 0
    OBVIOUS
  <2> QED
    BY <1>1, <2>1, <2>2
<1> QED
  BY <1>2, <1>3, <1>4 DEF n

\* What a fetch does to the rows that are there and those that it has given.
LEMMA Fetched ==
  ASSUME CursorInv, NEW size \in 0..MaxResult, Fetch(size)
  PROVE  /\ step = "ready" /\ step' = step /\ call' = call /\ row' = row /\ UNCHANGED scan /\ stored' = stored
         /\ writes' = writes /\ calls' = calls /\ raised' = raised /\ batch' = batch /\ ran' = ran /\ due' = due
         /\ {returning_rows', stream', given', given, Available} \subseteq Sequences
         /\ given' \o Available' = given \o Available
         /\ (stored /\ stream' = stream) \/ (~stored /\ returning_rows' = returning_rows)
         /\ ~stored /\ stream = <<>> => stream' = <<>>
<1> DEFINE n == IF size < Len(Available) THEN size ELSE Len(Available)
           a == SubSeq(Available, 1, n)
           b == SubSeq(Available, n + 1, Len(Available))
<1>1. /\ step = "ready" /\ step' = step /\ call' = call /\ row' = row /\ UNCHANGED scan /\ stored' = stored
      /\ writes' = writes /\ calls' = calls /\ raised' = raised /\ batch' = batch /\ ran' = ran /\ due' = due
  BY DEF Fetch
<1>2. stored \in BOOLEAN /\ {Available, given, returning_rows, stream} \subseteq Sequences
  BY ResultTypes DEF Available
<1>3. a \in Sequences /\ b \in Sequences /\ a \o b = Available /\ (Available = <<>> => b = <<>>)
  <2>1. size \in Nat
    BY CursorAssumption
  <2> QED
    BY <1>2, <2>1, Taking
<1>4. \/ /\ stored /\ stream' = stream /\ returning_rows' = b
      \/ /\ ~stored /\ stream' = b /\ returning_rows' = returning_rows
  <2>1. CASE stored
    <3>1. Available = returning_rows
      BY <2>1 DEF Available
    <3>2. returning_rows' = SubSeq(returning_rows, n + 1, Len(returning_rows))
      BY <2>1 DEF Fetch, Take, AtMost
    <3>3. stream' = stream
      BY <2>1 DEF Fetch
    <3> QED
      BY <2>1, <3>1, <3>2, <3>3
  <2>2. CASE ~stored
    <3>1. Available = stream
      BY <2>2 DEF Available
    <3>2. stream' = SubSeq(stream, n + 1, Len(stream)) /\ returning_rows' = returning_rows
      BY <2>2 DEF Fetch, AtMost
    <3> QED
      BY <2>2, <3>1, <3>2
  <2> QED
    BY <2>1, <2>2
<1>5. given' = given \o a /\ Available' = b
  <2>1. given' = given \o a
    <3>1. CASE stored
      BY <3>1 DEF Fetch, Take, AtMost, Available
    <3>2. CASE ~stored
      BY <3>2 DEF Fetch, AtMost, Available
    <3> QED
      BY <3>1, <3>2
  <2> HIDE DEF b
  <2> QED
    BY <1>1, <1>4, <2>1 DEF Available
<1> HIDE DEF a, b
<1>6. given' \o Available' = given \o Available /\ given' \in Sequences
  <2>1. given \in Seq(Pairs) /\ a \in Seq(Pairs) /\ b \in Seq(Pairs)
    BY <1>2, <1>3 DEF Sequences
  <2>2. (given \o a) \o b = given \o (a \o b)
    BY ONLY <2>1, ConcatAssociative
  <2>3. given \o a \in Seq(Pairs)
    BY <2>1
  <2> QED
    BY <1>3, <1>5, <2>2, <2>3 DEF Sequences
<1>7. ~stored /\ stream = <<>> => stream' = <<>>
  BY <1>3, <1>4 DEF Available
<1> QED
  BY <1>1, <1>2, <1>3, <1>4, <1>6, <1>7

LEMMA FetchKeeps ==
  ASSUME CursorInv, NEW size \in 0..MaxResult, Fetch(size)
  PROVE  CursorInv'
<1>1. /\ step = "ready" /\ step' = step /\ call' = call /\ row' = row /\ UNCHANGED scan /\ stored' = stored
      /\ writes' = writes /\ calls' = calls /\ raised' = raised /\ batch' = batch /\ ran' = ran /\ due' = due
      /\ {returning_rows', stream', given'} \subseteq Sequences
      /\ stored \/ returning_rows' = returning_rows
  BY Fetched
<1>2. ScanInv' /\ outcome' = outcome
  BY <1>1, SameScanKeeps DEF CursorInv, scan
<1>3. CursorTypeOK'
  BY <1>1 DEF CursorInv, CursorTypeOK
<1>4. StepInv'
  BY <1>1, <1>2 DEF CursorInv, StepInv
<1>5. BatchInv'
  BY <1>1 DEF CursorInv, BatchInv, BatchIsStreamed
<1>6. ResultInv'
  BY <1>1 DEF CursorInv, ResultInv
<1> QED
  BY <1>2, <1>3, <1>4, <1>5, <1>6 DEF CursorInv

LEMMA FetchFailsKeeps ==
  ASSUME CursorInv, FetchFails
  PROVE  CursorInv'
<1>1. /\ step = "ready" /\ step' = step /\ call' = call /\ row' = row /\ UNCHANGED scan /\ stored' = stored
      /\ returning_rows' = returning_rows /\ stream' = <<>> /\ given' = given
      /\ writes' = writes /\ calls' = calls /\ raised' = TRUE /\ batch' = batch /\ ran' = ran /\ due' = due
  BY DEF FetchFails
<1>2. ScanInv' /\ outcome' = outcome
  BY <1>1, SameScanKeeps DEF CursorInv, scan
<1>3. CursorTypeOK'
  BY <1>1 DEF CursorInv, CursorTypeOK
<1>4. StepInv'
  BY <1>1, <1>2 DEF CursorInv, StepInv
<1>5. BatchInv'
  BY <1>1 DEF CursorInv, BatchInv, BatchIsStreamed
<1>6. ResultInv'
  BY <1>1, NoRows DEF CursorInv, ResultInv
<1> QED
  BY <1>2, <1>3, <1>4, <1>5, <1>6 DEF CursorInv

LEMMA CloseKeeps ==
  ASSUME CursorInv, Close
  PROVE  CursorInv'
<1>1. /\ step = "ready" /\ step' = "closed" /\ call' = call /\ row' = row /\ UNCHANGED scan /\ stored' = FALSE
      /\ returning_rows' = <<>> /\ stream' = <<>> /\ given' = given
      /\ writes' = writes /\ calls' = calls /\ raised' = raised /\ batch' = batch /\ ran' = ran /\ due' = due
  BY DEF Close, DropStored, history
<1>2. ScanInv' /\ outcome' = outcome
  BY <1>1, SameScanKeeps DEF CursorInv, scan
<1>3. CursorTypeOK'
  BY <1>1 DEF CursorInv, CursorTypeOK
<1>4. StepInv'
  BY <1>1, <1>2 DEF CursorInv, StepInv
<1>5. BatchInv'
  BY <1>1 DEF CursorInv, BatchInv, BatchIsStreamed
<1>6. ResultInv'
  BY <1>1, NoRows DEF CursorInv, ResultInv
<1> QED
  BY <1>2, <1>3, <1>4, <1>5, <1>6 DEF CursorInv

LEMMA StutterKeeps ==
  ASSUME CursorInv, UNCHANGED vars
  PROVE  CursorInv'
<1>1. /\ step' = step /\ call' = call /\ row' = row /\ UNCHANGED scan /\ stored' = stored
      /\ returning_rows' = returning_rows /\ stream' = stream /\ given' = given
      /\ writes' = writes /\ calls' = calls /\ raised' = raised /\ batch' = batch /\ ran' = ran /\ due' = due
  BY DEF vars, results, history
<1>2. ScanInv'
  BY <1>1, SameScanKeeps DEF CursorInv
<1>3. /\ outcome' = outcome /\ positional_count' = positional_count /\ required_names' = required_names
      /\ native_bindings' = native_bindings
  BY <1>1 DEF scan, bindings
<1>4. CursorTypeOK'
  BY <1>1 DEF CursorInv, CursorTypeOK
<1>5. StepInv'
  BY <1>1, <1>3 DEF CursorInv, StepInv, Accepts, MatchingCount
<1>6. BatchInv'
  BY <1>1 DEF CursorInv, BatchInv, BatchIsStreamed
<1>7. ResultInv'
  BY <1>1 DEF CursorInv, ResultInv
<1> QED
  BY <1>2, <1>4, <1>5, <1>6, <1>7 DEF CursorInv

LEMMA CursorStep == CursorInv /\ [Next]_vars => CursorInv'
<1> SUFFICES ASSUME CursorInv, [Next]_vars PROVE CursorInv'
  OBVIOUS
<1>1. ASSUME NEW method \in {"execute", "executemany"}, BeginWithParameters(method, FALSE, {}) PROVE CursorInv'
  BY <1>1, BeginWithParametersKeeps
<1>2. ASSUME NEW method \in {"execute", "executemany"}, NEW names \in SUBSET Names,
             BeginWithParameters(method, TRUE, names)
      PROVE  CursorInv'
  BY <1>2, BeginWithParametersKeeps
<1>3. CASE BeginWithoutParameters
  BY <1>3, BeginWithoutParametersKeeps
<1>4. CASE EmptyBatch
  BY <1>4, EmptyBatchKeeps
<1>5. CASE InCall
  <2>1. ASSUME NEW r \in Rows, Prepare(r) PROVE CursorInv'
    BY <2>1, PrepareKeeps
  <2>2. ASSUME NEW kind \in Kinds, NEW columns \in BOOLEAN, NEW size \in 0..MaxResult,
               RunStatement(kind, columns, size)
        PROVE  CursorInv'
    BY <2>2, RunStatementKeeps
  <2> QED
    BY <1>5, <2>1, <2>2, ScanKeepsCursor, UnknownNameKeeps, IteratorRaisesKeeps, RunRowKeeps, EndBatchKeeps,
       DriverFailsKeeps DEF InCall
<1>6. ASSUME NEW size \in 0..MaxResult, Fetch(size) PROVE CursorInv'
  BY <1>6, FetchKeeps
<1>7. CASE FetchFails
  BY <1>7, FetchFailsKeeps
<1>8. CASE Close
  BY <1>8, CloseKeeps
<1>9. CASE UNCHANGED vars
  BY <1>9, StutterKeeps
<1> QED
  BY <1>1, <1>2, <1>3, <1>4, <1>5, <1>6, <1>7, <1>8, <1>9 DEF Next

LEMMA CursorInvariant == Spec => []CursorInv
<1>1. Init => CursorInv
  BY CursorStarts
<1>2. CursorInv /\ [Next]_vars => CursorInv'
  BY CursorStep
<1> QED
  BY <1>1, <1>2, PTL DEF Spec

LEMMA InvQuoting == CursorInv => QuotingIsKept
<1> SUFFICES ASSUME CursorInv, outcome = "scanning" PROVE QuotingIsKept
  BY DEF QuotingIsKept
<1>1. Agrees /\ state \in States
  BY DEF CursorInv, ScanInv, ScanTypeOK
<1>2. CASE state = "sql"
  BY <1>1, <1>2 DEF QuotingIsKept, Agrees, InSql
<1>3. CASE state = "line-comment"
  BY <1>1, <1>3 DEF QuotingIsKept, Agrees
<1>4. CASE state = "block-comment"
  BY <1>1, <1>4 DEF QuotingIsKept, Agrees
<1>5. CASE state = "literal"
  BY <1>1, <1>5 DEF QuotingIsKept, Agrees
<1>6. CASE state = "identifier"
  BY <1>1, <1>6 DEF QuotingIsKept, Agrees
<1> QED
  BY <1>1, <1>2, <1>3, <1>4, <1>5, <1>6 DEF States

LEMMA InvMarkers == CursorInv => RowsMatchMarkers
<1> SUFFICES ASSUME CursorInv, step = "running", ~native_bindings
             PROVE  Engine.markers = row.count /\ Engine.names \subseteq row.names
  BY DEF RowsMatchMarkers
<1>1. /\ row.mapping \in BOOLEAN
      /\ row.mapping => row.count = 0
      /\ ~row.mapping => row.names = {}
  <2>1. row \in Rows
    BY DEF CursorInv, CursorTypeOK
  <2> QED
    BY <2>1 DEF Rows
<1>2. CASE outcome = "converted" /\ Accepts(row)
  <2>1. Engine.markers = positional_count /\ Engine.names \subseteq required_names
    BY <1>2 DEF CursorInv, ScanInv, Counts
  <2>2. required_names # {} => positional_count = 0
    BY DEF CursorInv, ScanInv
  <2> QED
    BY <1>1, <1>2, <2>1, <2>2 DEF Accepts, MatchingCount
<1>3. CASE outcome = "idle" /\ row = NoParameters
  <2>1. converted = <<>>
    BY <1>3 DEF CursorInv, ScanInv, IdleScan, InitScan
  <2>2. Engine = EngineStart
    BY <2>1, EngineIs, ReadAppend
  <2> QED
    BY <1>3, <2>2 DEF EngineStart, NoParameters
<1> QED
  BY <1>2, <1>3 DEF CursorInv, StepInv

\* How a cursor gets to be between two calls when nothing raised: it was, or an
\* executemany() or an execute() has returned.
Nothing == stored' = FALSE /\ stream' = <<>> /\ due' = <<>> /\ given' = <<>>

LEMMA ReadyStep ==
  ASSUME CursorInv, [Next]_vars, step' = "ready", ~raised'
  PROVE  \/ /\ step = "ready" /\ ~raised
            /\ stored' = stored /\ writes' = writes /\ due' = due
            /\ given' \o Available' = given \o Available
            /\ ~stored => (stream = <<>> => stream' = <<>>)
            /\ stored => stream' = stream
         \/ Nothing
         \/ /\ \E kind \in Kinds, columns \in BOOLEAN, size \in 0..MaxResult : RunStatement(kind, columns, size)
            /\ ~stored /\ given = <<>>
<1>1. ASSUME stored' = stored, writes' = writes, due' = due, given' = given, step' = step, raised' = raised,
             returning_rows' = returning_rows, stream' = stream
      PROVE  /\ step = "ready" /\ ~raised
             /\ stored' = stored /\ writes' = writes /\ due' = due
             /\ given' \o Available' = given \o Available
             /\ ~stored => (stream = <<>> => stream' = <<>>)
             /\ stored => stream' = stream
  BY <1>1 DEF Available
<1>2. CASE UNCHANGED vars \/ EmptyBatch \/ Scan
  <2>1. /\ stored' = stored /\ writes' = writes /\ due' = due /\ given' = given /\ step' = step /\ raised' = raised
        /\ returning_rows' = returning_rows /\ stream' = stream
    BY <1>2 DEF vars, EmptyBatch, Scan, results, history
  <2> QED
    BY <1>1, <2>1
<1>3. ASSUME NEW size \in 0..MaxResult, Fetch(size)
      PROVE  /\ step = "ready" /\ ~raised
             /\ stored' = stored /\ writes' = writes /\ due' = due
             /\ given' \o Available' = given \o Available
             /\ ~stored => (stream = <<>> => stream' = <<>>)
             /\ stored => stream' = stream
  BY <1>3, Fetched
<1>4. ASSUME EndBatch PROVE Nothing
  <2>1. /\ step = "preparing" /\ call = "executemany" /\ Len(batch) # 0
        /\ stored' = stored /\ stream' = stream /\ due' = due /\ given' = given
    BY <1>4 DEF EndBatch, First
  <2>2. batch # <<>>
    BY <2>1, NoRows
  <2>3. stored \in BOOLEAN
    BY ResultTypes
  <2> QED
    BY <2>1, <2>2, <2>3 DEF CursorInv, ResultInv, Nothing
<1>5. ASSUME NEW kind \in Kinds, NEW columns \in BOOLEAN, NEW size \in 0..MaxResult,
             RunStatement(kind, columns, size)
      PROVE  ~stored /\ given = <<>>
  BY <1>5 DEF RunStatement, CursorInv, ResultInv
<1>6. ASSUME NEW method \in {"execute", "executemany"}, NEW mapping \in BOOLEAN, NEW names \in SUBSET Names,
             BeginWithParameters(method, mapping, names)
      PROVE  FALSE
  BY <1>6 DEF BeginWithParameters
<1>7. ~BeginWithoutParameters
  BY DEF BeginWithoutParameters
<1>8. ~UnknownName /\ ~IteratorRaises /\ ~DriverFails
  BY DEF UnknownName, IteratorRaises, Refuse, DriverFails, Leave
<1>9. ~RunRow /\ ~FetchFails /\ ~Close
  BY DEF RunRow, FetchFails, Close
<1>10. \A r \in Rows : ~Prepare(r)
  BY DEF Prepare, Refuse, Leave, AfterCheck
<1> QED
  BY <1>2, <1>3, <1>4, <1>5, <1>6, <1>7, <1>8, <1>9, <1>10 DEF Next, InCall

\* What execute() leaves.
LEMMA Executed ==
  ASSUME CursorInv, NEW kind \in Kinds, NEW columns \in BOOLEAN, NEW size \in 0..MaxResult,
         RunStatement(kind, columns, size), ~stored, given = <<>>
  PROVE  /\ given' \o Available' = due'
         /\ kind.taken = kind.writes => (stream' # <<>> => ~writes') /\ (stored' => writes')
<1> DEFINE rows == [i \in 1..size |-> <<calls, i>>]
<1>1. /\ due' = rows /\ writes' = kind.writes /\ given' = given /\ (~columns => size = 0)
      /\ IF Drains(kind, columns)
         THEN stored' = TRUE /\ returning_rows' = rows /\ stream' = <<>>
         ELSE stream' = rows /\ stored' = stored /\ returning_rows' = returning_rows
  BY DEF RunStatement
<1>2. rows \in Sequences /\ (size = 0 => rows = <<>>)
  <2>1. size \in Nat
    BY CursorAssumption
  <2>2. size = 0 => rows = <<>>
    OBVIOUS
  <2> QED
    BY <2>1, <2>2, RowsOfStatement
<1> HIDE DEF rows
<1>3. <<>> \o rows = rows
  BY <1>2, ConcatEmptySeq DEF Sequences
<1>4. Available' = rows
  BY <1>1 DEF Available
<1>5. ASSUME kind.taken = kind.writes PROVE (stream' # <<>> => ~writes') /\ (stored' => writes')
  <2>1. CASE Drains(kind, columns)
    BY <1>1, <1>5, <2>1 DEF Drains
  <2>2. CASE ~Drains(kind, columns)
    BY <1>1, <1>2, <1>5, <2>2 DEF Drains
  <2> QED
    BY <2>1, <2>2
<1> QED
  BY <1>1, <1>3, <1>4, <1>5

LEMMA OrderStep == CursorInv /\ ResultsInOrder /\ [Next]_vars => ResultsInOrder'
<1> SUFFICES ASSUME CursorInv, ResultsInOrder, [Next]_vars, step' = "ready", ~raised'
             PROVE  given' \o Available' = due'
  BY DEF ResultsInOrder
<1>1. CASE /\ step = "ready" /\ ~raised /\ due' = due
           /\ given' \o Available' = given \o Available
  BY <1>1 DEF ResultsInOrder
<1>2. CASE Nothing
  <2>1. Available' = <<>>
    BY <1>2 DEF Nothing, Available
  <2>2. <<>> \o <<>> = <<>>
    OBVIOUS
  <2> QED
    BY <1>2, <2>1, <2>2 DEF Nothing
<1>3. ASSUME NEW kind \in Kinds, NEW columns \in BOOLEAN, NEW size \in 0..MaxResult,
             RunStatement(kind, columns, size), ~stored, given = <<>>
      PROVE  given' \o Available' = due'
  BY <1>3, Executed
<1> QED
  BY <1>1, <1>2, <1>3, ReadyStep

LEMMA DrainStep ==
  ASSUME \A kind \in Kinds : kind.taken = kind.writes
  PROVE  CursorInv /\ WritesEndWithExecute /\ [Next]_vars => WritesEndWithExecute'
<1> SUFFICES ASSUME CursorInv, WritesEndWithExecute, [Next]_vars, step' = "ready", ~raised'
             PROVE  (stream' # <<>> => ~writes') /\ (stored' => writes')
  BY DEF WritesEndWithExecute
<1>1. CASE /\ step = "ready" /\ ~raised /\ stored' = stored /\ writes' = writes
           /\ ~stored => (stream = <<>> => stream' = <<>>)
           /\ stored => stream' = stream
  BY <1>1 DEF WritesEndWithExecute
<1>2. CASE Nothing
  BY <1>2 DEF Nothing
<1>3. ASSUME NEW kind \in Kinds, NEW columns \in BOOLEAN, NEW size \in 0..MaxResult,
             RunStatement(kind, columns, size), ~stored, given = <<>>
      PROVE  (stream' # <<>> => ~writes') /\ (stored' => writes')
  BY <1>3, Executed
<1> QED
  BY <1>1, <1>2, <1>3, ReadyStep

--------------------------------------------------------------------------------
\* Whatever the calls and the failures, the cursor's attributes and the scanner's locals
\* keep their types, and a batch has not run more rows than it took.
THEOREM CursorTypes == Spec => []TypeOK
<1>1. CursorInv => TypeOK
  BY TypesAre DEF CursorInv, ScanInv
<1> QED
  BY <1>1, CursorInvariant, PTL

\* _convert_placeholders() is in a comment, a literal, an identifier or plain SQL exactly
\* where the engine is that reads what it has written so far.
THEOREM ConversionKeepsQuoting == Spec => []QuotingIsKept
BY CursorInvariant, InvQuoting, PTL

\* What prepare_params() lets through to the driver, of execute() or of a batch, has a
\* value for every marker of the converted statement.
THEOREM MarkersGetValues == Spec => []RowsMatchMarkers
BY CursorInvariant, InvMarkers, PTL

\* executemany() takes a row from its iterator when the rows before it have run.
THEOREM BatchesAreStreamed == Spec => []BatchIsStreamed
<1>1. CursorInv => BatchIsStreamed
  BY DEF CursorInv, BatchInv
<1> QED
  BY <1>1, CursorInvariant, PTL

\* The fetches return the rows of the last statement, of the store or of the driver, each
\* of them once and in order.
THEOREM FetchesKeepOrder == Spec => []ResultsInOrder
<1>1. Init => ResultsInOrder
  <2>1. <<>> \o <<>> = <<>>
    OBVIOUS
  <2> QED
    BY <2>1 DEF Init, ResultsInOrder, Available
<1> QED
  BY <1>1, OrderStep, CursorInvariant, PTL DEF Spec

\* execute() drains exactly the statements that write: when it has returned no fetch, commit
\* or rollback has a write left to do, and no row of a SELECT was stored.
THEOREM WritesAreDrained == Spec => []WritesEndWithExecute
<1>1. Init => WritesEndWithExecute
  BY DEF Init, WritesEndWithExecute
<1>2. CursorInv /\ WritesEndWithExecute /\ [Next]_vars => WritesEndWithExecute'
  BY KindsAreRight, DrainStep
<1> QED
  BY <1>1, <1>2, CursorInvariant, PTL DEF Spec
================================================================================
