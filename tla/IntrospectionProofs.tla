-------------------------- MODULE IntrospectionProofs -------------------------
(******************************************************************************)
(* Theorems of TableIntrospection: what its scanner reads of a CHECK, for     *)
(* expressions of any depth, over any tokens and for any columns.  A text     *)
(* Leads the scanner from one state to another; a text of an expression Reads *)
(* some columns, from where an operand is asked for to where one has been     *)
(* read, in any parentheses and whatever came before it.  The texts that read *)
(* the columns they use are closed under the constructors of TableText, so    *)
(* they have among them the least set that is: the expressions of its         *)
(* grammar.  Nothing is recursive, and induction over texts is not needed.    *)
(******************************************************************************)
EXTENDS TableIntrospection, SequenceTheorems, TLAPS

(* Lists, of whatever.                                                         *)

List(x) == \E V : x \in Seq(V)

LEMMA ListsAreLists ==
  /\ List(<<>>)
  /\ \A x : List(<<x>>)
  /\ \A x, y : List(x) /\ List(y) => List(x \o y)
  /\ \A x, y : List(x) => List(Append(x, y))
<1>1. List(<<>>)
  <2>1. <<>> \in Seq({})
    OBVIOUS
  <2> QED
    BY <2>1 DEF List
<1>2. ASSUME NEW x PROVE List(<<x>>)
  <2>1. <<x>> \in Seq({x})
    OBVIOUS
  <2> QED
    BY <2>1 DEF List
<1>3. ASSUME NEW x, NEW y, List(x), List(y) PROVE List(x \o y)
  <2>1. PICK V : x \in Seq(V)
    BY <1>3 DEF List
  <2>2. PICK W : y \in Seq(W)
    BY <1>3 DEF List
  <2>3. x \in Seq(V \union W) /\ y \in Seq(V \union W)
    BY <2>1, <2>2
  <2>4. x \o y \in Seq(V \union W)
    BY <2>3
  <2> QED
    BY <2>4 DEF List
<1>4. ASSUME NEW x, NEW y, List(x) PROVE List(Append(x, y))
  <2>1. PICK V : x \in Seq(V)
    BY <1>4 DEF List
  <2>2. x \in Seq(V \union {y})
    BY <2>1
  <2>3. Append(x, y) \in Seq(V \union {y})
    BY <2>2
  <2> QED
    BY <2>3 DEF List
<1> QED
  BY <1>1, <1>2, <1>3, <1>4

\* What is said of two sequences over one set holds of two lists.
LEMMA OneSet ==
  ASSUME NEW x, NEW y, List(x), List(y)
  PROVE  \E V : x \in Seq(V) /\ y \in Seq(V)
<1>1. PICK V : x \in Seq(V)
  BY DEF List
<1>2. PICK W : y \in Seq(W)
  BY DEF List
<1>3. x \in Seq(V \union W) /\ y \in Seq(V \union W)
  BY <1>1, <1>2
<1> QED
  BY <1>3

LEMMA Associative ==
  ASSUME NEW x, NEW y, NEW z, List(x), List(y), List(z)
  PROVE  /\ (x \o y) \o z = x \o (y \o z)
         /\ x \o <<>> = x /\ <<>> \o x = x
         /\ \A v : Append(x, v) = x \o <<v>>
<1>1. PICK V : x \in Seq(V) /\ y \in Seq(V)
  BY OneSet
<1>2. PICK W : z \in Seq(W)
  BY DEF List
<1> DEFINE U == V \union W
<1>3. x \in Seq(U) /\ y \in Seq(U) /\ z \in Seq(U)
  BY <1>1, <1>2
<1> HIDE DEF U
<1>4. (x \o y) \o z = x \o (y \o z) /\ x \o <<>> = x /\ <<>> \o x = x
  BY <1>3
<1>5. ASSUME NEW v PROVE Append(x, v) = x \o <<v>>
  <2>1. x \in Seq(U \union {v})
    BY <1>3
  <2> QED
    BY <2>1
<1> QED
  BY <1>4, <1>5

LEMMA PutBefore ==
  ASSUME NEW W, NEW h \in Seq(W), NEW r \in Seq(W), Len(h) = 1
  PROVE  /\ h \o r \in Seq(W) /\ Len(h \o r) = Len(r) + 1 /\ (h \o r)[1] = h[1]
         /\ \A i \in 1..Len(r) : (h \o r)[i + 1] = r[i]
<1>1. /\ h \o r \in Seq(W) /\ Len(h \o r) = Len(h) + Len(r)
      /\ \A i \in 1 .. Len(h) + Len(r) : (h \o r)[i] = IF i <= Len(h) THEN h[i] ELSE r[i - Len(h)]
  BY ConcatProperties, Zenon
<1> PICK p : p = h \o r
  OBVIOUS
<1>2. p \in Seq(W) /\ Len(p) = Len(h) + Len(r) /\ Len(r) \in Nat
  BY <1>1
<1>3. \A i \in 1 .. Len(h) + Len(r) : p[i] = IF i <= Len(h) THEN h[i] ELSE r[i - Len(h)]
  BY <1>1
<1>4. p[1] = h[1]
  BY <1>2, <1>3
<1>5. \A i \in 1..Len(r) : p[i + 1] = r[i]
  <2> SUFFICES ASSUME NEW i \in 1..Len(r) PROVE p[i + 1] = r[i]
    OBVIOUS
  <2>1. i + 1 \in 1 .. Len(h) + Len(r) /\ ~(i + 1 <= Len(h)) /\ (i + 1) - Len(h) = i
    BY <1>2
  <2> QED
    BY <1>3, <2>1
<1> QED
  BY <1>2, <1>4, <1>5

LEMMA Prepended ==
  ASSUME NEW W, NEW h \in Seq(W), NEW r \in Seq(W), NEW q \in Seq(W), Len(h) = 1,
         Len(q) = Len(r) + 1, q[1] = h[1], \A i \in 1..Len(r) : q[i + 1] = r[i]
  PROVE  h \o r = q
<1>1. PICK p : p = h \o r
  OBVIOUS
<1>2. p \in Seq(W) /\ Len(p) = Len(r) + 1 /\ p[1] = h[1] /\ \A i \in 1..Len(r) : p[i + 1] = r[i]
  BY <1>1, PutBefore
<1>3. Len(p) = Len(q) /\ Len(r) \in Nat
  BY <1>2
<1>4. ASSUME NEW i \in 1..Len(p) PROVE p[i] = q[i]
  <2>1. CASE i = 1
    BY <1>2, <2>1
  <2>2. CASE i # 1
    <3>1. i - 1 \in 1..Len(r) /\ (i - 1) + 1 = i
      BY <1>2, <1>3, <2>2
    <3> QED
      BY <1>2, <3>1
  <2> QED
    BY <2>1, <2>2
<1>5. p = q
  BY <1>2, <1>3, <1>4, SeqEqual
<1> QED
  BY <1>1, <1>5

LEMMA Tuples ==
  /\ \A w, x : <<w>> \o <<x>> = <<w, x>>
  /\ \A w, x, y : <<w>> \o <<x, y>> = <<w, x, y>>
  /\ \A w, x, y, z : <<w>> \o <<x, y, z>> = <<w, x, y, z>>
<1>2. ASSUME NEW w, NEW x
      PROVE  <<w>> \o <<x>> = <<w, x>>
  <2>1. PICK W : W = {w, x}
    OBVIOUS
  <2>h. PICK h : h = <<w>>
    OBVIOUS
  <2>r. PICK r : r = <<x>>
    OBVIOUS
  <2>q. PICK q : q = <<w, x>>
    OBVIOUS
  <2>2. h \in Seq(W) /\ Len(h) = 1 /\ h[1] = w
    BY <2>1, <2>h
  <2>3. r \in Seq(W) /\ Len(r) = 1 /\ r[1] = x
    BY <2>1, <2>r
  <2>4. q \in Seq(W) /\ Len(q) = 2 /\ q[1] = w /\ q[2] = x
    BY <2>1, <2>q
  <2>5. \A i \in 1..1 : q[i + 1] = r[i]
    <3> SUFFICES ASSUME NEW i \in 1..1 PROVE q[i + 1] = r[i]
      OBVIOUS
    <3>1. i = 1
      OBVIOUS
    <3> QED
      BY <2>3, <2>4, <3>1
  <2>6. Len(q) = Len(r) + 1 /\ q[1] = h[1] /\ \A i \in 1..Len(r) : q[i + 1] = r[i]
    BY <2>2, <2>3, <2>4, <2>5
  <2>7. h \o r = q
    BY <2>2, <2>3, <2>4, <2>6, Prepended
  <2> QED
    BY <2>h, <2>r, <2>q, <2>7
<1>3. ASSUME NEW w, NEW x, NEW y
      PROVE  <<w>> \o <<x, y>> = <<w, x, y>>
  <2>1. PICK W : W = {w, x, y}
    OBVIOUS
  <2>h. PICK h : h = <<w>>
    OBVIOUS
  <2>r. PICK r : r = <<x, y>>
    OBVIOUS
  <2>q. PICK q : q = <<w, x, y>>
    OBVIOUS
  <2>2. h \in Seq(W) /\ Len(h) = 1 /\ h[1] = w
    BY <2>1, <2>h
  <2>3. r \in Seq(W) /\ Len(r) = 2 /\ r[1] = x /\ r[2] = y
    BY <2>1, <2>r
  <2>4. q \in Seq(W) /\ Len(q) = 3 /\ q[1] = w /\ q[2] = x /\ q[3] = y
    BY <2>1, <2>q
  <2>5. \A i \in 1..2 : q[i + 1] = r[i]
    <3> SUFFICES ASSUME NEW i \in 1..2 PROVE q[i + 1] = r[i]
      OBVIOUS
    <3>1. i = 1 \/ i = 2
      OBVIOUS
    <3> QED
      BY <2>3, <2>4, <3>1
  <2>6. Len(q) = Len(r) + 1 /\ q[1] = h[1] /\ \A i \in 1..Len(r) : q[i + 1] = r[i]
    BY <2>2, <2>3, <2>4, <2>5
  <2>7. h \o r = q
    BY <2>2, <2>3, <2>4, <2>6, Prepended
  <2> QED
    BY <2>h, <2>r, <2>q, <2>7
<1>4. ASSUME NEW w, NEW x, NEW y, NEW z
      PROVE  <<w>> \o <<x, y, z>> = <<w, x, y, z>>
  <2>1. PICK W : W = {w, x, y, z}
    OBVIOUS
  <2>h. PICK h : h = <<w>>
    OBVIOUS
  <2>r. PICK r : r = <<x, y, z>>
    OBVIOUS
  <2>q. PICK q : q = <<w, x, y, z>>
    OBVIOUS
  <2>2. h \in Seq(W) /\ Len(h) = 1 /\ h[1] = w
    BY <2>1, <2>h
  <2>3. r \in Seq(W) /\ Len(r) = 3 /\ r[1] = x /\ r[2] = y /\ r[3] = z
    BY <2>1, <2>r
  <2>4. q \in Seq(W) /\ Len(q) = 4 /\ q[1] = w /\ q[2] = x /\ q[3] = y /\ q[4] = z
    BY <2>1, <2>q
  <2>5. \A i \in 1..3 : q[i + 1] = r[i]
    <3> SUFFICES ASSUME NEW i \in 1..3 PROVE q[i + 1] = r[i]
      OBVIOUS
    <3>1. i = 1 \/ i = 2 \/ i = 3
      OBVIOUS
    <3> QED
      BY <2>3, <2>4, <3>1
  <2>6. Len(q) = Len(r) + 1 /\ q[1] = h[1] /\ \A i \in 1..Len(r) : q[i + 1] = r[i]
    BY <2>2, <2>3, <2>4, <2>5
  <2>7. h \o r = q
    BY <2>2, <2>3, <2>4, <2>6, Prepended
  <2> QED
    BY <2>h, <2>r, <2>q, <2>7
<1> QED
  BY <1>2, <1>3, <1>4

LEMMA Regrouped ==
  ASSUME NEW x, NEW y, NEW z, List(x), List(y), List(z)
  PROVE  (x \o y) \o z = x \o (y \o z)
  BY Associative

(* Turns of the scanner's loop.                                                *)

\* What a scanner keeps.
IsScan(s) ==
  /\ DOMAIN s = {"kind", "braces_deep", "field_name", "constraint_name", "unique", "unique_needs_column",
                 "unique_braces_deep", "unique_columns", "check", "check_braces_deep",
                 "check_needs_collation", "check_pending_column", "check_expects_operand", "check_columns"}
  /\ s = [x \in DOMAIN s |-> s[x]]
  /\ s.braces_deep \in Nat /\ s.check_braces_deep \in Nat /\ s.unique_braces_deep \in Nat
  /\ s.unique \in BOOLEAN /\ s.unique_needs_column \in BOOLEAN /\ s.check \in BOOLEAN
  /\ s.check_needs_collation \in BOOLEAN /\ s.check_expects_operand \in BOOLEAN
  /\ List(s.check_columns) /\ List(s.unique_columns)

\* The scanner gets from s to u over a text, turn by turn, without ending the definition.
Path(p, text) ==
  /\ DOMAIN p = 0..Len(text)
  /\ \A k \in 1..Len(text) : ~EndsDefinition(p[k - 1], text[k]) /\ p[k] = Read(p[k - 1], text[k])

Leads(s, text, u) == \E p : Path(p, text) /\ p[0] = s /\ p[Len(text)] = u

LEMMA LeadsNowhere ==
  ASSUME NEW s
  PROVE  Leads(s, <<>>, s)
<1> DEFINE p == [k \in 0..0 |-> s]
<1>1. DOMAIN p = 0..Len(<<>>) /\ p[0] = s /\ p[Len(<<>>)] = s /\ 1..Len(<<>>) = {}
  OBVIOUS
<1> QED
  BY <1>1 DEF Leads, Path

LEMMA LeadsOne ==
  ASSUME NEW s, NEW t, ~EndsDefinition(s, t)
  PROVE  Leads(s, <<t>>, Read(s, t))
<1> DEFINE p == [k \in 0..1 |-> IF k = 0 THEN s ELSE Read(s, t)]
<1>1. DOMAIN p = 0..Len(<<t>>) /\ p[0] = s /\ p[1] = Read(s, t) /\ Len(<<t>>) = 1 /\ <<t>>[1] = t
  OBVIOUS
<1> HIDE DEF p
<1>2. \A k \in 1..1 : k = 1 /\ k - 1 = 0
  OBVIOUS
<1>3. Path(p, <<t>>)
  BY <1>1, <1>2 DEF Path
<1> QED
  BY <1>1, <1>3 DEF Leads

LEMMA LeadsOn ==
  ASSUME NEW a, NEW b, List(a), List(b), NEW s, NEW u, NEW v, Leads(s, a, u), Leads(u, b, v)
  PROVE  Leads(s, a \o b, v)
<1>1. PICK p : Path(p, a) /\ p[0] = s /\ p[Len(a)] = u
  BY DEF Leads
<1>2. PICK q : Path(q, b) /\ q[0] = u /\ q[Len(b)] = v
  BY DEF Leads
<1> DEFINE c == a \o b
           r == [k \in 0..Len(c) |-> IF k <= Len(a) THEN p[k] ELSE q[k - Len(a)]]
<1>0. PICK V : a \in Seq(V) /\ b \in Seq(V)
  BY OneSet
<1>3. Len(a) \in Nat /\ Len(b) \in Nat /\ Len(c) = Len(a) + Len(b)
  BY <1>0
<1>4. \A k \in 1..Len(a) : c[k] = a[k]
  BY <1>0
<1>5. \A k \in (Len(a) + 1)..Len(c) : c[k] = b[k - Len(a)] /\ k - Len(a) \in 1..Len(b)
  BY <1>0
<1>6. \A k \in 0..Len(a) : r[k] = p[k]
  BY <1>3
<1>7. \A k \in Len(a)..Len(c) : r[k] = q[k - Len(a)]
  BY <1>1, <1>2, <1>3
<1>8. DOMAIN r = 0..Len(c) /\ r[0] = s /\ r[Len(c)] = v
  BY <1>1, <1>2, <1>3, <1>6, <1>7
<1> HIDE DEF r, c
<1>9. Path(r, c)
  <2> SUFFICES ASSUME NEW k \in 1..Len(c)
               PROVE  ~EndsDefinition(r[k - 1], c[k]) /\ r[k] = Read(r[k - 1], c[k])
    BY <1>8 DEF Path
  <2>1. CASE k \in 1..Len(a)
    <3>1. k \in 0..Len(a) /\ k - 1 \in 0..Len(a)
      BY <2>1, <1>3
    <3>2. r[k] = p[k] /\ r[k - 1] = p[k - 1] /\ c[k] = a[k]
      BY <2>1, <3>1, <1>4, <1>6
    <3>3. ~EndsDefinition(p[k - 1], a[k]) /\ p[k] = Read(p[k - 1], a[k])
      BY <1>1, <2>1 DEF Path
    <3> QED
      BY <3>2, <3>3
  <2>2. CASE k \in (Len(a) + 1)..Len(c)
    <3> DEFINE j == k - Len(a)
    <3>1. k \in Len(a)..Len(c) /\ k - 1 \in Len(a)..Len(c) /\ (k - 1) - Len(a) = j - 1
      BY <2>2, <1>3
    <3>2. r[k] = q[j] /\ r[k - 1] = q[j - 1] /\ c[k] = b[j] /\ j \in 1..Len(b)
      BY <2>2, <3>1, <1>5, <1>7
    <3> HIDE DEF j
    <3>3. ~EndsDefinition(q[j - 1], b[j]) /\ q[j] = Read(q[j - 1], b[j])
      BY <1>2, <3>2 DEF Path
    <3> QED
      BY <3>2, <3>3
  <2> QED
    BY <1>3, <2>1, <2>2
<1> QED
  BY <1>8, <1>9 DEF Leads, c

(* One token of an expression.                                                 *)

\* The scanner is past the head of a definition, and in the parentheses of a CHECK.
Heads(s) ==
  /\ IsScan(s) /\ s.unique = FALSE
  /\ \/ s.kind = "column" /\ s.field_name # None
     \/ s.kind = "named" /\ s.constraint_name # None
Inside(s) == Heads(s) /\ s.check = TRUE /\ s.check_braces_deep < s.braces_deep

\* It is there, and the next token is not the name of a collation.
InCheck(s) == Inside(s) /\ s.check_needs_collation = FALSE

\* What an expression leaves alone.
Same(s, u) ==
  /\ u.kind = s.kind /\ u.field_name = s.field_name /\ u.constraint_name = s.constraint_name
  /\ u.unique_columns = s.unique_columns /\ u.check_braces_deep = s.check_braces_deep

\* The columns so far, with the one that a parenthesis would make a function.
Gathered(s) ==
  s.check_columns \o (IF s.check_pending_column = None THEN <<>> ELSE <<s.check_pending_column>>)

\* An operand may follow, or has just been read.
Ready(s) == InCheck(s) /\ s.check_expects_operand = TRUE /\ s.check_pending_column = None
Read1(s) == InCheck(s) /\ s.check_expects_operand = FALSE

\* No word that the scanner takes for the beginning of a constraint.
Plain(t) == ~IsKeyword(t, {"CHECK", "UNIQUE"})

LEMMA Punctuations ==
  /\ Open # Close /\ Open # Comma /\ Close # Comma
  /\ Plain(Open) /\ Plain(Close) /\ Plain(Comma)
<1>1. /\ Open = [ttype |-> "Punctuation", value |-> "("]
      /\ Close = [ttype |-> "Punctuation", value |-> ")"]
      /\ Comma = [ttype |-> "Punctuation", value |-> ","]
  BY DEF Open, Close, Comma, Token
<1>2. Open.value = "(" /\ Close.value = ")" /\ Comma.value = ","
  BY <1>1
<1>4. Open # Close /\ Open # Comma /\ Close # Comma
  BY <1>2
<1>5. Open.ttype = "Punctuation" /\ Close.ttype = "Punctuation" /\ Comma.ttype = "Punctuation"
  BY <1>1
<1> QED
  BY <1>4, <1>5 DEF Plain, IsKeyword

LEMMA PunctuationWords ==
  /\ Open.ttype = "Punctuation" /\ Close.ttype = "Punctuation" /\ Comma.ttype = "Punctuation"
  /\ Open.value = "(" /\ Close.value = ")" /\ Comma.value = ","
  BY DEF Open, Close, Comma, Token

LEMMA UnturnedHere ==
  ASSUME NEW v, IsScan(v)
  PROVE  [v EXCEPT !.field_name = v.field_name, !.unique_columns = v.unique_columns] = v
  BY DEF IsScan

\* Behind the head of a definition a token has nothing to do with its name.
LEMMA ReadBehind ==
  ASSUME NEW s, Heads(s), NEW t, ~IsKeyword(t, {"UNIQUE"}), t = Close => s.braces_deep # 0,
         NEW c, c = Counted(s, t)
  PROVE  /\ Read(s, t) = ReadCheck(c, t)
         /\ Heads(c) /\ c = [s EXCEPT !.braces_deep = c.braces_deep]
         /\ c.braces_deep = s.braces_deep + (CASE t = Open -> 1 [] t = Close -> -1 [] OTHER -> 0)
<1>1. /\ c = [s EXCEPT !.braces_deep = c.braces_deep]
      /\ c.braces_deep = s.braces_deep + (CASE t = Open -> 1 [] t = Close -> -1 [] OTHER -> 0)
      /\ c.braces_deep \in Nat
  BY Punctuations DEF Counted, Heads, IsScan
<1>2. IsScan(c) /\ c.kind = s.kind /\ c.field_name = s.field_name /\ c.constraint_name = s.constraint_name
      /\ c.unique = FALSE
  BY <1>1 DEF Heads, IsScan
<1>3. ~SkipsCheck(s, t)
  BY DEF SkipsCheck, Heads
<1>4. Classified(c, t) = c
  BY <1>2 DEF Classified, Heads
<1>5. ReadHead(s, t) = c
  <2>1. CASE s.kind = "column" /\ s.field_name # None
    <3>1. ReadHead(s, t) = ReadColumn(c, t)
      BY <2>1, <1>2, <1>4 DEF ReadHead
    <3>2. ReadColumn(c, t) = [c EXCEPT !.field_name = c.field_name, !.unique_columns = c.unique_columns]
      BY <2>1, <1>2 DEF ReadColumn
    <3>3. [c EXCEPT !.field_name = c.field_name, !.unique_columns = c.unique_columns] = c
      BY <1>2, UnturnedHere
    <3> QED
      BY <3>1, <3>2, <3>3
  <2>2. CASE s.kind = "named" /\ s.constraint_name # None
    <3>1. ReadHead(s, t) = ReadUnique(c, t)
      BY <2>2, <1>2, <1>4 DEF ReadHead
    <3>2. ReadUnique(c, t) = c
      BY <2>2, <1>2 DEF ReadUnique
    <3> QED
      BY <3>1, <3>2
  <2> QED
    BY <2>1, <2>2 DEF Heads
<1> QED
  BY <1>1, <1>2, <1>3, <1>5 DEF Read, Heads

LEMMA ReadInside ==
  ASSUME NEW s, Inside(s), NEW t, Plain(t),
         t = Close => s.check_braces_deep < s.braces_deep - 1
  PROVE  /\ ~EndsDefinition(s, t)
         /\ Read(s, t) = ReadExpression(SettlePending(Counted(s, t), t), t)
         /\ IsScan(Counted(s, t))
<1>1. ~EndsDefinition(s, t)
  BY DEF Inside, Heads, IsScan, EndsDefinition
<1>2. PICK c : c = Counted(s, t)
  OBVIOUS
<1>3. Heads(s) /\ s.braces_deep \in Nat /\ s.check_braces_deep \in Nat /\ s.check_braces_deep < s.braces_deep
  BY DEF Inside, Heads, IsScan
<1>4. t = Close => s.braces_deep # 0
  BY <1>3
<1>0. ~IsKeyword(t, {"UNIQUE"})
  BY DEF Plain, IsKeyword
<1>5. /\ Read(s, t) = ReadCheck(c, t)
      /\ Heads(c) /\ c = [s EXCEPT !.braces_deep = c.braces_deep]
      /\ c.braces_deep = s.braces_deep + (CASE t = Open -> 1 [] t = Close -> -1 [] OTHER -> 0)
  BY <1>0, <1>2, <1>3, <1>4, ReadBehind
<1>6. c.check = TRUE /\ c.check_braces_deep = s.check_braces_deep
  BY <1>5 DEF Inside, Heads, IsScan
<1>7. c.check_braces_deep # c.braces_deep
  BY <1>3, <1>5, <1>6, Punctuations
<1>8. ~IsKeyword(t, {"CHECK"})
  BY DEF Plain, IsKeyword
<1>9. ReadCheck(c, t) = ReadExpression(SettlePending(c, t), t)
  BY <1>6, <1>7, <1>8 DEF ReadCheck
<1> QED
  BY <1>1, <1>2, <1>5, <1>9 DEF Heads

\* Settling a pending name keeps the columns, unless a parenthesis follows it.
LEMMA Settling ==
  ASSUME NEW s, Inside(s), NEW t, IsScan(Counted(s, t)), NEW v, v = SettlePending(Counted(s, t), t)
  PROVE  /\ IsScan(v) /\ Same(s, v) /\ v.check_pending_column = None
         /\ v.check = TRUE /\ v.unique = FALSE /\ v.check_needs_collation = s.check_needs_collation
         /\ v.check_expects_operand = s.check_expects_operand
         /\ v.braces_deep = Counted(s, t).braces_deep
         /\ t # Open => v.check_columns = Gathered(s)
         /\ t = Open => v.check_columns = s.check_columns
<1> DEFINE c == Counted(s, t)
<1>1. c = [s EXCEPT !.braces_deep = c.braces_deep]
  BY DEF Counted, Inside, Heads, IsScan
<1>0. IsScan(c)
  OBVIOUS
<1> HIDE DEF c
<1>2. /\ Same(s, c) /\ c.check = TRUE /\ c.unique = FALSE /\ c.check_needs_collation = s.check_needs_collation
      /\ c.check_expects_operand = s.check_expects_operand
      /\ c.check_columns = s.check_columns /\ c.check_pending_column = s.check_pending_column
  BY <1>1 DEF Inside, Heads, IsScan, Same
<1> DEFINE w == IF PendingCounts(c, t) THEN Append(c.check_columns, c.check_pending_column) ELSE c.check_columns
<1>3. /\ List(w) /\ (t # Open => w = Gathered(s)) /\ (t = Open => w = s.check_columns)
  <2>1. List(s.check_columns) /\ List(<<s.check_pending_column>>)
    BY ListsAreLists DEF Inside, Heads, IsScan
  <2>2. PendingCounts(c, t) <=> s.check_pending_column # None /\ t # Open
    BY <1>2 DEF PendingCounts
  <2>3. Append(s.check_columns, s.check_pending_column) = s.check_columns \o <<s.check_pending_column>>
        /\ List(Append(s.check_columns, s.check_pending_column))
        /\ s.check_columns \o <<>> = s.check_columns
    BY <2>1, ListsAreLists, Associative
  <2> QED
    BY <1>2, <2>1, <2>2, <2>3 DEF Gathered
<1>4. v = [c EXCEPT !.check_columns = w, !.check_pending_column = None]
  BY <1>0 DEF SettlePending, c, IsScan
<1> HIDE DEF w
<1>5. IsScan(v)
  <2>1. v.check_columns = w
    BY <1>4, <1>0 DEF IsScan
  <2> QED
    BY <1>4, <1>0, <1>3, <2>1 DEF IsScan
<1> QED
  BY <1>0, <1>2, <1>3, <1>4, <1>5 DEF IsScan, Same, c

\* The words of an expression, as the scanner tells them apart.
Wordlike(t)   == Plain(t) /\ t.ttype # "Punctuation" /\ ~IsKeyword(t, {"COLLATE", "NOT"})
Connective(t) ==
  /\ Wordlike(t) /\ ~IsKeyword(t, Literals)
  /\ \/ IsKeyword(t, SyntaxWords)
     \/ t.ttype # "Symbol" /\ identifier_key(t.value) \in {"like", "glob"}
     \/ t.ttype = "Operator" /\ identifier_key(t.value) # "end"
IsColumn(t) ==
  /\ Wordlike(t) /\ ~IsKeyword(t, Literals) /\ ~IsKeyword(t, SyntaxWords)
  /\ \/ t.ttype \in {"Name", "Keyword", "Symbol"}
     \/ t.ttype = "Operator" /\ identifier_key(t.value) = "like"
IsLiteral(t) ==
  \/ IsKeyword(t, Literals)
  \/ t.ttype \notin {"Punctuation", "Name", "Keyword", "Symbol", "Operator"}

\* What reading a token leaves, however it is read: the pending name is settled.
Settled(s, t, v) ==
  /\ IsScan(v) /\ Same(s, v) /\ v.check_pending_column = None
  /\ v.check = TRUE /\ v.unique = FALSE /\ v.check_needs_collation = s.check_needs_collation
  /\ v.check_expects_operand = s.check_expects_operand
  /\ s.check_braces_deep < v.braces_deep
  /\ v.braces_deep = s.braces_deep + (CASE t = Open -> 1 [] t = Close -> -1 [] OTHER -> 0)
  /\ v.check_columns = IF t = Open THEN s.check_columns ELSE Gathered(s)

LEMMA ReadSettled ==
  ASSUME NEW s, Inside(s), NEW t, Plain(t),
         t = Close => s.check_braces_deep < s.braces_deep - 1
  PROVE  /\ ~EndsDefinition(s, t)
         /\ \E v : Settled(s, t, v) /\ Read(s, t) = ReadExpression(v, t)
<1> DEFINE v == SettlePending(Counted(s, t), t)
<1>1. ~EndsDefinition(s, t) /\ Read(s, t) = ReadExpression(v, t) /\ IsScan(Counted(s, t))
  BY ReadInside
<1>2. /\ IsScan(v) /\ Same(s, v) /\ v.check_pending_column = None
      /\ v.check = TRUE /\ v.unique = FALSE /\ v.check_needs_collation = s.check_needs_collation
      /\ v.check_expects_operand = s.check_expects_operand
      /\ v.braces_deep = Counted(s, t).braces_deep
      /\ t # Open => v.check_columns = Gathered(s)
      /\ t = Open => v.check_columns = s.check_columns
  BY <1>1, Settling
<1>3. Counted(s, t).braces_deep = s.braces_deep + (CASE t = Open -> 1 [] t = Close -> -1 [] OTHER -> 0)
  BY Punctuations DEF Counted, Inside, Heads, IsScan
<1>4. s.check_braces_deep < Counted(s, t).braces_deep
  BY <1>3, Punctuations DEF Inside, Heads, IsScan
<1> HIDE DEF v
<1>5. Settled(s, t, v)
  BY <1>2, <1>3, <1>4 DEF Settled
<1> QED
  BY <1>1, <1>5

\* Reading then sets what is pending, and whether an operand is expected.
Asks(v, u, c) == u = [v EXCEPT !.check_expects_operand = TRUE, !.check_pending_column = c]
Has(v, u, c)  == u = [v EXCEPT !.check_expects_operand = FALSE, !.check_pending_column = c]
Wants(u)  == u.check_expects_operand = TRUE
HasOne(u) == u.check_expects_operand = FALSE
After(s, v, u, c) ==
  /\ InCheck(u) /\ Same(s, u) /\ u.check_pending_column = c
  /\ u.braces_deep = v.braces_deep /\ u.check_columns = v.check_columns

LEMMA Asked ==
  ASSUME NEW s, InCheck(s), NEW t, NEW v, Settled(s, t, v), NEW c, NEW u, Asks(v, u, c)
  PROVE  After(s, v, u, c) /\ Wants(u)
<1>1. /\ u.kind = v.kind /\ u.field_name = v.field_name /\ u.constraint_name = v.constraint_name
      /\ u.unique_columns = v.unique_columns /\ u.check_braces_deep = v.check_braces_deep
      /\ u.check = TRUE /\ u.unique = FALSE /\ u.check_needs_collation = FALSE
      /\ u.braces_deep = v.braces_deep /\ u.check_columns = v.check_columns
      /\ u.check_expects_operand = TRUE /\ u.check_pending_column = c
  BY DEF Settled, IsScan, Asks, InCheck
<1>2. IsScan(u)
  BY DEF Settled, IsScan, Asks, InCheck
<1>3. Same(s, u)
  BY <1>1 DEF Settled, Same
<1>4. u.check_braces_deep < u.braces_deep
  BY <1>1 DEF Settled, Same
<1> QED
  BY <1>1, <1>2, <1>3, <1>4 DEF Inside, Heads, InCheck, Same, After, Wants

LEMMA Had ==
  ASSUME NEW s, InCheck(s), NEW t, NEW v, Settled(s, t, v), NEW c, NEW u, Has(v, u, c)
  PROVE  After(s, v, u, c) /\ HasOne(u)
<1>1. /\ u.kind = v.kind /\ u.field_name = v.field_name /\ u.constraint_name = v.constraint_name
      /\ u.unique_columns = v.unique_columns /\ u.check_braces_deep = v.check_braces_deep
      /\ u.check = TRUE /\ u.unique = FALSE /\ u.check_needs_collation = FALSE
      /\ u.braces_deep = v.braces_deep /\ u.check_columns = v.check_columns
      /\ u.check_expects_operand = FALSE /\ u.check_pending_column = c
  BY DEF Settled, IsScan, Has, InCheck
<1>2. IsScan(u)
  BY DEF Settled, IsScan, Has, InCheck
<1>3. Same(s, u)
  BY <1>1 DEF Settled, Same
<1>4. u.check_braces_deep < u.braces_deep
  BY <1>1 DEF Settled, Same
<1> QED
  BY <1>1, <1>2, <1>3, <1>4 DEF Inside, Heads, InCheck, Same, After, HasOne

LEMMA Unturned ==
  ASSUME NEW v, IsScan(v), NEW b
  PROVE  /\ [v EXCEPT !.check_expects_operand = b]
              = [v EXCEPT !.check_expects_operand = b, !.check_pending_column = v.check_pending_column]
         /\ v = [v EXCEPT !.check_expects_operand = v.check_expects_operand,
                          !.check_pending_column = v.check_pending_column]
  BY DEF IsScan

LEMMA TruthValues ==
  ASSUME NEW x, NEW S
  PROVE  (x \in S => (x \in S) = TRUE) /\ (x \notin S => (x \in S) = FALSE)
  OBVIOUS

\* One turn within a CHECK.
Turn(s, t, u) == ~EndsDefinition(s, t) /\ u = Read(s, t) /\ InCheck(u) /\ Same(s, u)

\* An open parenthesis makes what is pending a function.
LEMMA OpenRead ==
  ASSUME NEW s, InCheck(s)
  PROVE  \E u : Turn(s, Open, u) /\ Ready(u) /\ u.braces_deep = s.braces_deep + 1 /\ Gathered(u) = s.check_columns
<1>0. InCheck(s)
  BY DEF Ready, Read1
<1>1. Plain(Open) /\ (Open = Close => s.check_braces_deep < s.braces_deep - 1) /\ Inside(s)
  BY <1>0, Punctuations DEF InCheck, Open
<1>2. PICK v : Settled(s, Open, v) /\ Read(s, Open) = ReadExpression(v, Open)
  BY <1>1, ReadSettled
<1>u. PICK u : u = Read(s, Open)
  OBVIOUS
<1>3. ~EndsDefinition(s, Open)
  BY <1>1, ReadSettled
<1>4. IsScan(v) /\ v.check_needs_collation = FALSE /\ v.check_expects_operand = s.check_expects_operand
      /\ v.check_pending_column = None
  BY <1>0, <1>2 DEF Settled, InCheck
<1>5. ReadExpression(v, Open) = [v EXCEPT !.check_expects_operand = TRUE]
  <2>1. [v EXCEPT !.check_expects_operand = Open.value \in {"(", ","}] = [v EXCEPT !.check_expects_operand = TRUE]
    <3>0. Open.value \in {"(", ","}
      BY PunctuationWords
    <3> DEFINE b == Open.value \in {"(", ","}
    <3>1. b = TRUE
      BY <3>0, TruthValues DEF b
    <3> HIDE DEF b
    <3>2. [v EXCEPT !.check_expects_operand = b] = [v EXCEPT !.check_expects_operand = TRUE]
      BY <3>1
    <3> QED
      BY <3>2 DEF b
  <2> QED
    BY <1>4, <2>1, PunctuationWords DEF ReadExpression
<1>6. Asks(v, u, None)
  BY <1>u, <1>2, <1>4, <1>5, Unturned DEF Asks, Ready
<1>a. After(s, v, u, None) /\ Wants(u)
  BY <1>0, <1>2, <1>6, Asked
<1>7. /\ InCheck(u) /\ Same(s, u) /\ u.check_expects_operand = TRUE /\ u.check_pending_column = None
      /\ u.braces_deep = v.braces_deep /\ u.check_columns = v.check_columns
  BY <1>a DEF After, Wants
<1>8. Turn(s, Open, u)
  BY <1>u, <1>3, <1>7 DEF Turn
<1> QED
  <2>1. List(s.check_columns) /\ List(Gathered(s))
    BY <1>1, ListsAreLists DEF Inside, Heads, IsScan, Gathered
  <2>2. v.check_columns = IF Open = Open THEN s.check_columns ELSE Gathered(s)
    BY <1>2 DEF Settled
  <2>3. v.braces_deep = s.braces_deep + (CASE Open = Open -> 1 [] Open = Close -> -1 [] OTHER -> 0)
    BY <1>2 DEF Settled
  <2>4. s.check_columns \o <<>> = s.check_columns /\ Gathered(s) \o <<>> = Gathered(s)
    BY <2>1, Associative
  <2>5. s.braces_deep \in Nat
    BY <1>1 DEF Inside, Heads, IsScan
  <2>6. u.check_pending_column = None => Gathered(u) = v.check_columns
    BY <1>7, <2>2, <2>4 DEF Gathered
  <2> QED
    BY <1>7, <1>8, <2>2, <2>3, <2>5, <2>6, Punctuations DEF Ready


LEMMA CloseRead ==
  ASSUME NEW s, Read1(s), s.check_braces_deep < s.braces_deep - 1
  PROVE  \E u : Turn(s, Close, u) /\ Read1(u) /\ u.braces_deep = s.braces_deep - 1 /\ Gathered(u) = Gathered(s)
<1>0. InCheck(s)
  BY DEF Ready, Read1
<1>1. Plain(Close) /\ (Close = Close => s.check_braces_deep < s.braces_deep - 1) /\ Inside(s)
  BY <1>0, Punctuations DEF InCheck, Read1
<1>2. PICK v : Settled(s, Close, v) /\ Read(s, Close) = ReadExpression(v, Close)
  BY <1>1, ReadSettled
<1>u. PICK u : u = Read(s, Close)
  OBVIOUS
<1>3. ~EndsDefinition(s, Close)
  BY <1>1, ReadSettled
<1>4. IsScan(v) /\ v.check_needs_collation = FALSE /\ v.check_expects_operand = s.check_expects_operand
      /\ v.check_pending_column = None
  BY <1>0, <1>2 DEF Settled, InCheck
<1>5. ReadExpression(v, Close) = [v EXCEPT !.check_expects_operand = FALSE]
  <2>1. [v EXCEPT !.check_expects_operand = Close.value \in {"(", ","}] = [v EXCEPT !.check_expects_operand = FALSE]
    <3>0. Close.value \notin {"(", ","}
      BY PunctuationWords
    <3> DEFINE b == Close.value \in {"(", ","}
    <3>1. b = FALSE
      BY <3>0, TruthValues DEF b
    <3> HIDE DEF b
    <3>2. [v EXCEPT !.check_expects_operand = b] = [v EXCEPT !.check_expects_operand = FALSE]
      BY <3>1
    <3> QED
      BY <3>2 DEF b
  <2> QED
    BY <1>4, <2>1, PunctuationWords DEF ReadExpression
<1>6. Has(v, u, None)
  BY <1>u, <1>2, <1>4, <1>5, Unturned DEF Has, Ready
<1>a. After(s, v, u, None) /\ HasOne(u)
  BY <1>0, <1>2, <1>6, Had
<1>7. /\ InCheck(u) /\ Same(s, u) /\ u.check_expects_operand = FALSE /\ u.check_pending_column = None
      /\ u.braces_deep = v.braces_deep /\ u.check_columns = v.check_columns
  BY <1>a DEF After, HasOne
<1>8. Turn(s, Close, u)
  BY <1>u, <1>3, <1>7 DEF Turn
<1> QED
  <2>1. List(s.check_columns) /\ List(Gathered(s))
    BY <1>1, ListsAreLists DEF Inside, Heads, IsScan, Gathered
  <2>2. v.check_columns = IF Close = Open THEN s.check_columns ELSE Gathered(s)
    BY <1>2 DEF Settled
  <2>3. v.braces_deep = s.braces_deep + (CASE Close = Open -> 1 [] Close = Close -> -1 [] OTHER -> 0)
    BY <1>2 DEF Settled
  <2>4. s.check_columns \o <<>> = s.check_columns /\ Gathered(s) \o <<>> = Gathered(s)
    BY <2>1, Associative
  <2>5. s.braces_deep \in Nat
    BY <1>1 DEF Inside, Heads, IsScan
  <2>6. u.check_pending_column = None => Gathered(u) = v.check_columns
    BY <1>7, <2>2, <2>4 DEF Gathered
  <2> QED
    BY <1>7, <1>8, <2>2, <2>3, <2>5, <2>6, Punctuations DEF Read1


LEMMA CommaRead ==
  ASSUME NEW s, Read1(s)
  PROVE  \E u : Turn(s, Comma, u) /\ Ready(u) /\ u.braces_deep = s.braces_deep /\ Gathered(u) = Gathered(s)
<1>0. InCheck(s)
  BY DEF Ready, Read1
<1>1. Plain(Comma) /\ (Comma = Close => s.check_braces_deep < s.braces_deep - 1) /\ Inside(s)
  BY <1>0, Punctuations DEF InCheck, Read1
<1>2. PICK v : Settled(s, Comma, v) /\ Read(s, Comma) = ReadExpression(v, Comma)
  BY <1>1, ReadSettled
<1>u. PICK u : u = Read(s, Comma)
  OBVIOUS
<1>3. ~EndsDefinition(s, Comma)
  BY <1>1, ReadSettled
<1>4. IsScan(v) /\ v.check_needs_collation = FALSE /\ v.check_expects_operand = s.check_expects_operand
      /\ v.check_pending_column = None
  BY <1>0, <1>2 DEF Settled, InCheck
<1>5. ReadExpression(v, Comma) = [v EXCEPT !.check_expects_operand = TRUE]
  <2>1. [v EXCEPT !.check_expects_operand = Comma.value \in {"(", ","}] = [v EXCEPT !.check_expects_operand = TRUE]
    <3>0. Comma.value \in {"(", ","}
      BY PunctuationWords
    <3> DEFINE b == Comma.value \in {"(", ","}
    <3>1. b = TRUE
      BY <3>0, TruthValues DEF b
    <3> HIDE DEF b
    <3>2. [v EXCEPT !.check_expects_operand = b] = [v EXCEPT !.check_expects_operand = TRUE]
      BY <3>1
    <3> QED
      BY <3>2 DEF b
  <2> QED
    BY <1>4, <2>1, PunctuationWords DEF ReadExpression
<1>6. Asks(v, u, None)
  BY <1>u, <1>2, <1>4, <1>5, Unturned DEF Asks, Ready
<1>a. After(s, v, u, None) /\ Wants(u)
  BY <1>0, <1>2, <1>6, Asked
<1>7. /\ InCheck(u) /\ Same(s, u) /\ u.check_expects_operand = TRUE /\ u.check_pending_column = None
      /\ u.braces_deep = v.braces_deep /\ u.check_columns = v.check_columns
  BY <1>a DEF After, Wants
<1>8. Turn(s, Comma, u)
  BY <1>u, <1>3, <1>7 DEF Turn
<1> QED
  <2>1. List(s.check_columns) /\ List(Gathered(s))
    BY <1>1, ListsAreLists DEF Inside, Heads, IsScan, Gathered
  <2>2. v.check_columns = IF Comma = Open THEN s.check_columns ELSE Gathered(s)
    BY <1>2 DEF Settled
  <2>3. v.braces_deep = s.braces_deep + (CASE Comma = Open -> 1 [] Comma = Close -> -1 [] OTHER -> 0)
    BY <1>2 DEF Settled
  <2>4. s.check_columns \o <<>> = s.check_columns /\ Gathered(s) \o <<>> = Gathered(s)
    BY <2>1, Associative
  <2>5. s.braces_deep \in Nat
    BY <1>1 DEF Inside, Heads, IsScan
  <2>6. u.check_pending_column = None => Gathered(u) = v.check_columns
    BY <1>7, <2>2, <2>4 DEF Gathered
  <2> QED
    BY <1>7, <1>8, <2>2, <2>3, <2>5, <2>6, Punctuations DEF Ready, Read1

\* Behind an operand, words and operators ask for another one, LIKE and GLOB among them.
LEMMA ConnectiveRead ==
  ASSUME NEW s, Read1(s), NEW t, Connective(t)
  PROVE  \E u : Turn(s, t, u) /\ Ready(u) /\ u.braces_deep = s.braces_deep /\ Gathered(u) = Gathered(s)
<1>0. InCheck(s)
  BY DEF Ready, Read1
<1>1. Plain(t) /\ (t = Close => s.check_braces_deep < s.braces_deep - 1) /\ Inside(s)
  BY <1>0, Punctuations DEF InCheck, Read1, Connective, Wordlike, Open, Close, Token
<1>2. PICK v : Settled(s, t, v) /\ Read(s, t) = ReadExpression(v, t)
  BY <1>1, ReadSettled
<1>u. PICK u : u = Read(s, t)
  OBVIOUS
<1>3. ~EndsDefinition(s, t)
  BY <1>1, ReadSettled
<1>4. IsScan(v) /\ v.check_needs_collation = FALSE /\ v.check_expects_operand = s.check_expects_operand
      /\ v.check_pending_column = None
  BY <1>0, <1>2 DEF Settled, InCheck
<1>5. ReadExpression(v, t) = [v EXCEPT !.check_expects_operand = TRUE]
  <2>1. v.check_expects_operand = FALSE
    BY <1>4 DEF Read1
  <2>2. IsKeyword(t, SyntaxWords) => ReadExpression(v, t) = [v EXCEPT !.check_expects_operand = TRUE]
    BY <1>4 DEF ReadExpression, Connective, Wordlike, IsKeyword
  <2>3. CASE ~IsKeyword(t, SyntaxWords) /\ t.ttype # "Symbol" /\ identifier_key(t.value) \in {"like", "glob"}
    <3>1. ActsAsSyntax(v, t) /\ identifier_key(t.value) # "end"
      BY <2>1, <2>3 DEF ActsAsSyntax
    <3> QED
      BY <1>4, <2>3, <3>1 DEF ReadExpression, Connective, Wordlike, IsKeyword
  <2>4. CASE ~IsKeyword(t, SyntaxWords) /\ t.ttype = "Operator" /\ identifier_key(t.value) \notin {"end", "like", "glob"}
    <3>1. ~ActsAsSyntax(v, t) /\ ~MayBeColumn(v, t)
      BY <2>1, <2>4 DEF ActsAsSyntax, MayBeColumn
    <3> QED
      BY <1>4, <2>4, <3>1 DEF ReadExpression, Connective, Wordlike, IsKeyword
  <2> QED
    BY <2>2, <2>3, <2>4 DEF Connective
<1>6. Asks(v, u, None)
  BY <1>u, <1>2, <1>4, <1>5, Unturned DEF Asks, Ready
<1>a. After(s, v, u, None) /\ Wants(u)
  BY <1>0, <1>2, <1>6, Asked
<1>7. /\ InCheck(u) /\ Same(s, u) /\ u.check_expects_operand = TRUE /\ u.check_pending_column = None
      /\ u.braces_deep = v.braces_deep /\ u.check_columns = v.check_columns
  BY <1>a DEF After, Wants
<1>8. Turn(s, t, u)
  BY <1>u, <1>3, <1>7 DEF Turn
<1> QED
  <2>0. t # Open /\ t # Close
    BY DEF Connective, Wordlike, Open, Close, Token
  <2>1. List(s.check_columns) /\ List(Gathered(s))
    BY <1>1, ListsAreLists DEF Inside, Heads, IsScan, Gathered
  <2>2. v.check_columns = IF t = Open THEN s.check_columns ELSE Gathered(s)
    BY <1>2 DEF Settled
  <2>3. v.braces_deep = s.braces_deep + (CASE t = Open -> 1 [] t = Close -> -1 [] OTHER -> 0)
    BY <1>2 DEF Settled
  <2>4. s.check_columns \o <<>> = s.check_columns /\ Gathered(s) \o <<>> = Gathered(s)
    BY <2>1, Associative
  <2>5. s.braces_deep \in Nat
    BY <1>1 DEF Inside, Heads, IsScan
  <2>6. u.check_pending_column = None => Gathered(u) = v.check_columns
    BY <1>7, <2>2, <2>4 DEF Gathered
  <2> QED
    BY <1>7, <1>8, <2>2, <2>3, <2>5, <2>6, <2>0 DEF Ready, Read1


LEMMA SyntaxRead ==
  ASSUME NEW s, InCheck(s), NEW t, IsKeyword(t, SyntaxWords)
  PROVE  \E u : Turn(s, t, u) /\ Ready(u) /\ u.braces_deep = s.braces_deep /\ Gathered(u) = Gathered(s)
<1>0. InCheck(s)
  BY DEF Ready, Read1
<1>1. Plain(t) /\ (t = Close => s.check_braces_deep < s.braces_deep - 1) /\ Inside(s)
  BY <1>0, Punctuations DEF InCheck, IsKeyword, SyntaxWords, Plain, Open, Close, Token
<1>2. PICK v : Settled(s, t, v) /\ Read(s, t) = ReadExpression(v, t)
  BY <1>1, ReadSettled
<1>u. PICK u : u = Read(s, t)
  OBVIOUS
<1>3. ~EndsDefinition(s, t)
  BY <1>1, ReadSettled
<1>4. IsScan(v) /\ v.check_needs_collation = FALSE /\ v.check_expects_operand = s.check_expects_operand
      /\ v.check_pending_column = None
  BY <1>0, <1>2 DEF Settled, InCheck
<1>5. ReadExpression(v, t) = [v EXCEPT !.check_expects_operand = TRUE]
  <2>1. t.ttype = "Keyword" /\ t.value \notin {"COLLATE", "NOT"} \union Literals
    BY DEF IsKeyword, SyntaxWords, Literals
  <2> QED
    BY <1>4, <2>1 DEF ReadExpression, IsKeyword
<1>6. Asks(v, u, None)
  BY <1>u, <1>2, <1>4, <1>5, Unturned DEF Asks, Ready
<1>a. After(s, v, u, None) /\ Wants(u)
  BY <1>0, <1>2, <1>6, Asked
<1>7. /\ InCheck(u) /\ Same(s, u) /\ u.check_expects_operand = TRUE /\ u.check_pending_column = None
      /\ u.braces_deep = v.braces_deep /\ u.check_columns = v.check_columns
  BY <1>a DEF After, Wants
<1>8. Turn(s, t, u)
  BY <1>u, <1>3, <1>7 DEF Turn
<1> QED
  <2>0. t # Open /\ t # Close
    BY DEF IsKeyword, Open, Close, Token
  <2>1. List(s.check_columns) /\ List(Gathered(s))
    BY <1>1, ListsAreLists DEF Inside, Heads, IsScan, Gathered
  <2>2. v.check_columns = IF t = Open THEN s.check_columns ELSE Gathered(s)
    BY <1>2 DEF Settled
  <2>3. v.braces_deep = s.braces_deep + (CASE t = Open -> 1 [] t = Close -> -1 [] OTHER -> 0)
    BY <1>2 DEF Settled
  <2>4. s.check_columns \o <<>> = s.check_columns /\ Gathered(s) \o <<>> = Gathered(s)
    BY <2>1, Associative
  <2>5. s.braces_deep \in Nat
    BY <1>1 DEF Inside, Heads, IsScan
  <2>6. u.check_pending_column = None => Gathered(u) = v.check_columns
    BY <1>7, <2>2, <2>4 DEF Gathered
  <2> QED
    BY <1>7, <1>8, <2>2, <2>3, <2>5, <2>6, <2>0 DEF Ready, Read1


LEMMA NotRead ==
  ASSUME NEW s, Ready(s), NEW t, t = Keyword("NOT")
  PROVE  \E u : Turn(s, t, u) /\ Ready(u) /\ u.braces_deep = s.braces_deep /\ Gathered(u) = Gathered(s)
<1>0. InCheck(s)
  BY DEF Ready, Read1
<1>1. Plain(t) /\ (t = Close => s.check_braces_deep < s.braces_deep - 1) /\ Inside(s)
  BY <1>0, Punctuations DEF InCheck, IsKeyword, Plain, Open, Close, Token, Keyword, Ready
<1>2. PICK v : Settled(s, t, v) /\ Read(s, t) = ReadExpression(v, t)
  BY <1>1, ReadSettled
<1>u. PICK u : u = Read(s, t)
  OBVIOUS
<1>3. ~EndsDefinition(s, t)
  BY <1>1, ReadSettled
<1>4. IsScan(v) /\ v.check_needs_collation = FALSE /\ v.check_expects_operand = s.check_expects_operand
      /\ v.check_pending_column = None
  BY <1>0, <1>2 DEF Settled, InCheck
<1>5. ReadExpression(v, t) = v
  <2>1. t.ttype = "Keyword" /\ t.value = "NOT"
    BY DEF Keyword, Token
  <2> QED
    BY <1>4, <2>1 DEF ReadExpression, IsKeyword, Literals
<1>6. Asks(v, u, None)
  BY <1>u, <1>2, <1>4, <1>5, Unturned DEF Asks, Ready
<1>a. After(s, v, u, None) /\ Wants(u)
  BY <1>0, <1>2, <1>6, Asked
<1>7. /\ InCheck(u) /\ Same(s, u) /\ u.check_expects_operand = TRUE /\ u.check_pending_column = None
      /\ u.braces_deep = v.braces_deep /\ u.check_columns = v.check_columns
  BY <1>a DEF After, Wants
<1>8. Turn(s, t, u)
  BY <1>u, <1>3, <1>7 DEF Turn
<1> QED
  <2>0. t # Open /\ t # Close
    BY DEF Keyword, Open, Close, Token
  <2>1. List(s.check_columns) /\ List(Gathered(s))
    BY <1>1, ListsAreLists DEF Inside, Heads, IsScan, Gathered
  <2>2. v.check_columns = IF t = Open THEN s.check_columns ELSE Gathered(s)
    BY <1>2 DEF Settled
  <2>3. v.braces_deep = s.braces_deep + (CASE t = Open -> 1 [] t = Close -> -1 [] OTHER -> 0)
    BY <1>2 DEF Settled
  <2>4. s.check_columns \o <<>> = s.check_columns /\ Gathered(s) \o <<>> = Gathered(s)
    BY <2>1, Associative
  <2>5. s.braces_deep \in Nat
    BY <1>1 DEF Inside, Heads, IsScan
  <2>6. u.check_pending_column = None => Gathered(u) = v.check_columns
    BY <1>7, <2>2, <2>4 DEF Gathered
  <2> QED
    BY <1>7, <1>8, <2>2, <2>3, <2>5, <2>6, <2>0 DEF Ready, Read1

\* END behind an operand closes a CASE.
LEMMA EndRead ==
  ASSUME NEW s, Read1(s), NEW t, t = Keyword("END")
  PROVE  \E u : Turn(s, t, u) /\ Read1(u) /\ u.braces_deep = s.braces_deep /\ Gathered(u) = Gathered(s)
<1>0. InCheck(s)
  BY DEF Ready, Read1
<1>1. Plain(t) /\ (t = Close => s.check_braces_deep < s.braces_deep - 1) /\ Inside(s)
  BY <1>0, Punctuations DEF InCheck, IsKeyword, Plain, Open, Close, Token, Keyword, Read1
<1>2. PICK v : Settled(s, t, v) /\ Read(s, t) = ReadExpression(v, t)
  BY <1>1, ReadSettled
<1>u. PICK u : u = Read(s, t)
  OBVIOUS
<1>3. ~EndsDefinition(s, t)
  BY <1>1, ReadSettled
<1>4. IsScan(v) /\ v.check_needs_collation = FALSE /\ v.check_expects_operand = s.check_expects_operand
      /\ v.check_pending_column = None
  BY <1>0, <1>2 DEF Settled, InCheck
<1>5. ReadExpression(v, t) = [v EXCEPT !.check_expects_operand = FALSE]
  <2>1. t.ttype = "Keyword" /\ t.value = "END" /\ identifier_key(t.value) = "end"
    BY DEF Keyword, Token, identifier_key
  <2>2. ActsAsSyntax(v, t)
    BY <1>4, <2>1 DEF ActsAsSyntax, Read1
  <2> QED
    BY <1>4, <2>1, <2>2 DEF ReadExpression, IsKeyword, Literals, SyntaxWords
<1>6. Has(v, u, None)
  BY <1>u, <1>2, <1>4, <1>5, Unturned DEF Has, Ready
<1>a. After(s, v, u, None) /\ HasOne(u)
  BY <1>0, <1>2, <1>6, Had
<1>7. /\ InCheck(u) /\ Same(s, u) /\ u.check_expects_operand = FALSE /\ u.check_pending_column = None
      /\ u.braces_deep = v.braces_deep /\ u.check_columns = v.check_columns
  BY <1>a DEF After, HasOne
<1>8. Turn(s, t, u)
  BY <1>u, <1>3, <1>7 DEF Turn
<1> QED
  <2>0. t # Open /\ t # Close
    BY DEF Keyword, Open, Close, Token
  <2>1. List(s.check_columns) /\ List(Gathered(s))
    BY <1>1, ListsAreLists DEF Inside, Heads, IsScan, Gathered
  <2>2. v.check_columns = IF t = Open THEN s.check_columns ELSE Gathered(s)
    BY <1>2 DEF Settled
  <2>3. v.braces_deep = s.braces_deep + (CASE t = Open -> 1 [] t = Close -> -1 [] OTHER -> 0)
    BY <1>2 DEF Settled
  <2>4. s.check_columns \o <<>> = s.check_columns /\ Gathered(s) \o <<>> = Gathered(s)
    BY <2>1, Associative
  <2>5. s.braces_deep \in Nat
    BY <1>1 DEF Inside, Heads, IsScan
  <2>6. u.check_pending_column = None => Gathered(u) = v.check_columns
    BY <1>7, <2>2, <2>4 DEF Gathered
  <2> QED
    BY <1>7, <1>8, <2>2, <2>3, <2>5, <2>6, <2>0 DEF Ready, Read1


LEMMA LiteralRead ==
  ASSUME NEW s, Ready(s), NEW t, IsLiteral(t)
  PROVE  \E u : Turn(s, t, u) /\ Read1(u) /\ u.braces_deep = s.braces_deep /\ Gathered(u) = Gathered(s)
<1>0. InCheck(s)
  BY DEF Ready, Read1
<1>1. Plain(t) /\ (t = Close => s.check_braces_deep < s.braces_deep - 1) /\ Inside(s)
  BY <1>0, Punctuations DEF InCheck, IsLiteral, Literals, IsKeyword, Plain, Open, Close, Token, Ready
<1>2. PICK v : Settled(s, t, v) /\ Read(s, t) = ReadExpression(v, t)
  BY <1>1, ReadSettled
<1>u. PICK u : u = Read(s, t)
  OBVIOUS
<1>3. ~EndsDefinition(s, t)
  BY <1>1, ReadSettled
<1>4. IsScan(v) /\ v.check_needs_collation = FALSE /\ v.check_expects_operand = s.check_expects_operand
      /\ v.check_pending_column = None
  BY <1>0, <1>2 DEF Settled, InCheck
<1>5. ReadExpression(v, t) = [v EXCEPT !.check_expects_operand = FALSE]
  <2>1. CASE IsKeyword(t, Literals)
    BY <1>4, <2>1 DEF ReadExpression, IsKeyword, Literals
  <2>2. CASE t.ttype \notin {"Punctuation", "Name", "Keyword", "Symbol", "Operator"}
    <3>1. ~ActsAsSyntax(v, t) /\ ~MayBeColumn(v, t)
      BY <1>4, <2>2 DEF ActsAsSyntax, MayBeColumn, Ready
    <3> QED
      BY <1>4, <2>2, <3>1 DEF ReadExpression, IsKeyword
  <2> QED
    BY <2>1, <2>2 DEF IsLiteral
<1>6. Has(v, u, None)
  BY <1>u, <1>2, <1>4, <1>5, Unturned DEF Has, Ready
<1>a. After(s, v, u, None) /\ HasOne(u)
  BY <1>0, <1>2, <1>6, Had
<1>7. /\ InCheck(u) /\ Same(s, u) /\ u.check_expects_operand = FALSE /\ u.check_pending_column = None
      /\ u.braces_deep = v.braces_deep /\ u.check_columns = v.check_columns
  BY <1>a DEF After, HasOne
<1>8. Turn(s, t, u)
  BY <1>u, <1>3, <1>7 DEF Turn
<1> QED
  <2>0. t # Open /\ t # Close
    BY DEF IsLiteral, IsKeyword, Open, Close, Token
  <2>1. List(s.check_columns) /\ List(Gathered(s))
    BY <1>1, ListsAreLists DEF Inside, Heads, IsScan, Gathered
  <2>2. v.check_columns = IF t = Open THEN s.check_columns ELSE Gathered(s)
    BY <1>2 DEF Settled
  <2>3. v.braces_deep = s.braces_deep + (CASE t = Open -> 1 [] t = Close -> -1 [] OTHER -> 0)
    BY <1>2 DEF Settled
  <2>4. s.check_columns \o <<>> = s.check_columns /\ Gathered(s) \o <<>> = Gathered(s)
    BY <2>1, Associative
  <2>5. s.braces_deep \in Nat
    BY <1>1 DEF Inside, Heads, IsScan
  <2>6. u.check_pending_column = None => Gathered(u) = v.check_columns
    BY <1>7, <2>2, <2>4 DEF Gathered
  <2> QED
    BY <1>7, <1>8, <2>2, <2>3, <2>5, <2>6, <2>0 DEF Ready, Read1

\* Where an operand is expected every name is one, also one like END.
LEMMA ColumnRead ==
  ASSUME NEW s, Ready(s), NEW t, IsColumn(t)
  PROVE  \E u : /\ Turn(s, t, u) /\ Read1(u) /\ u.braces_deep = s.braces_deep /\ u.check_columns = Gathered(s)
             /\ u.check_pending_column = ColumnNamed(t.value)
<1>0. InCheck(s)
  BY DEF Ready, Read1
<1>1. Plain(t) /\ (t = Close => s.check_braces_deep < s.braces_deep - 1) /\ Inside(s)
  BY <1>0, Punctuations DEF InCheck, IsColumn, Wordlike, Open, Close, Token, Ready
<1>2. PICK v : Settled(s, t, v) /\ Read(s, t) = ReadExpression(v, t)
  BY <1>1, ReadSettled
<1>u. PICK u : u = Read(s, t)
  OBVIOUS
<1>3. ~EndsDefinition(s, t)
  BY <1>1, ReadSettled
<1>4. IsScan(v) /\ v.check_needs_collation = FALSE /\ v.check_expects_operand = s.check_expects_operand
      /\ v.check_pending_column = None
  BY <1>0, <1>2 DEF Settled, InCheck
<1>5. ReadExpression(v, t) = [v EXCEPT !.check_pending_column = ColumnNamed(t.value), !.check_expects_operand = FALSE]
  <2>1. ~ActsAsSyntax(v, t) /\ MayBeColumn(v, t)
    BY <1>4 DEF ActsAsSyntax, MayBeColumn, Ready, IsColumn
  <2> QED
    BY <1>4, <2>1 DEF ReadExpression, IsColumn, Wordlike, IsKeyword
<1>6. Has(v, u, ColumnNamed(t.value))
  BY <1>u, <1>2, <1>4, <1>5, Unturned DEF Has, Ready
<1>a. After(s, v, u, ColumnNamed(t.value)) /\ HasOne(u)
  BY <1>0, <1>2, <1>6, Had
<1>7. /\ InCheck(u) /\ Same(s, u) /\ u.check_expects_operand = FALSE /\ u.check_pending_column = ColumnNamed(t.value)
      /\ u.braces_deep = v.braces_deep /\ u.check_columns = v.check_columns
  BY <1>a DEF After, HasOne
<1>8. Turn(s, t, u)
  BY <1>u, <1>3, <1>7 DEF Turn
<1> QED
  <2>0. t # Open /\ t # Close
    BY DEF IsColumn, Wordlike, Open, Close, Token
  <2>1. List(s.check_columns) /\ List(Gathered(s))
    BY <1>1, ListsAreLists DEF Inside, Heads, IsScan, Gathered
  <2>2. v.check_columns = IF t = Open THEN s.check_columns ELSE Gathered(s)
    BY <1>2 DEF Settled
  <2>3. v.braces_deep = s.braces_deep + (CASE t = Open -> 1 [] t = Close -> -1 [] OTHER -> 0)
    BY <1>2 DEF Settled
  <2>4. s.check_columns \o <<>> = s.check_columns /\ Gathered(s) \o <<>> = Gathered(s)
    BY <2>1, Associative
  <2>5. s.braces_deep \in Nat
    BY <1>1 DEF Inside, Heads, IsScan
  <2>6. u.check_pending_column = None => Gathered(u) = v.check_columns
    BY <1>7, <2>2, <2>4 DEF Gathered
  <2> QED
    BY <1>7, <1>8, <2>2, <2>3, <2>5, <2>6, <2>0 DEF Ready, Read1

(* Texts.                                                                      *)

\* What stands between two points of a CHECK, at each of which an operand is asked for or
\* has just been read.
At(s, here) == \/ here = "asked" /\ Ready(s)
               \/ here = "read" /\ Read1(s)

\* From such a point a text leads to another, in the same parentheses, and the scanner
\* takes these columns from it.
Yield(s, text, uses, u) ==
  /\ Leads(s, text, u) /\ Same(s, u) /\ u.braces_deep = s.braces_deep
  /\ Gathered(u) = Gathered(s) \o uses

Reads(text, uses, from, to) ==
  /\ List(text) /\ List(uses)
  /\ \A s : At(s, from) => \E u : At(u, to) /\ Yield(s, text, uses, u)

LEMMA PointsAreInside ==
  ASSUME NEW s, NEW from, At(s, from)
  PROVE  InCheck(s) /\ s.braces_deep \in Nat /\ List(Gathered(s))
<1>1. InCheck(s)
  BY DEF At, Ready, Read1
<1>2. s.braces_deep \in Nat /\ List(s.check_columns)
  BY <1>1 DEF InCheck, Inside, Heads, IsScan
<1>3. List(Gathered(s))
  BY <1>2, ListsAreLists DEF Gathered
<1> QED
  BY <1>1, <1>2, <1>3

LEMMA ReadsNothing ==
  ASSUME NEW from
  PROVE  Reads(<<>>, <<>>, from, from)
<1> SUFFICES ASSUME NEW s, At(s, from)
             PROVE  Yield(s, <<>>, <<>>, s)
  BY ListsAreLists DEF Reads
<1>1. List(Gathered(s))
  BY PointsAreInside
<1> QED
  BY <1>1, Associative, LeadsNowhere DEF Yield, Same

\* Texts that follow one another yield what they yield one by one.
LEMMA ReadsOn ==
  ASSUME NEW a, NEW x, NEW b, NEW y, NEW from, NEW over, NEW to,
         Reads(a, x, from, over), Reads(b, y, over, to)
  PROVE  Reads(a \o b, x \o y, from, to)
<1>0. List(a) /\ List(b) /\ List(x) /\ List(y) /\ List(a \o b) /\ List(x \o y)
  BY ListsAreLists DEF Reads
<1> SUFFICES ASSUME NEW s, At(s, from)
             PROVE  \E v : At(v, to) /\ Yield(s, a \o b, x \o y, v)
  BY <1>0 DEF Reads
<1>1. PICK u : At(u, over) /\ Yield(s, a, x, u)
  BY DEF Reads
<1>2. PICK v : At(v, to) /\ Yield(u, b, y, v)
  BY <1>1 DEF Reads
<1>3. Leads(s, a \o b, v)
  BY <1>0, <1>1, <1>2, LeadsOn DEF Yield
<1>4. Same(s, v) /\ v.braces_deep = s.braces_deep
  BY <1>1, <1>2 DEF Yield, Same
<1>5. Gathered(v) = Gathered(s) \o (x \o y)
  <2>0. PICK g : g = Gathered(s)
    OBVIOUS
  <2>1. List(g)
    BY <2>0, PointsAreInside
  <2>2. (g \o x) \o y = g \o (x \o y)
    <3>1. List(x) /\ List(y)
      BY <1>0
    <3> QED
      BY <2>1, <3>1, Regrouped, SMTT(60)
  <2> QED
    BY <1>1, <1>2, <2>0, <2>2 DEF Yield
<1> QED
  BY <1>2, <1>3, <1>4, <1>5 DEF Yield

\* A token that leads to a point and yields nothing.
LEMMA TurnReads ==
  ASSUME NEW s, NEW t, NEW u, Turn(s, t, u), u.braces_deep = s.braces_deep,
         Gathered(u) = Gathered(s), InCheck(s)
  PROVE  Yield(s, <<t>>, <<>>, u)
<1>1. Leads(s, <<t>>, u)
  BY LeadsOne DEF Turn
<1>2. List(Gathered(s))
  BY ListsAreLists DEF Gathered, InCheck, Inside, Heads, IsScan
<1> QED
  BY <1>1, <1>2, Associative DEF Yield, Turn

\* Connectives, from one operand to the next.
LEMMA ConnectiveReads ==
  ASSUME NEW w, Connective(w)
  PROVE  Reads(<<w>>, <<>>, "read", "asked")
<1> SUFFICES ASSUME NEW s, At(s, "read")
             PROVE  \E u : At(u, "asked") /\ Yield(s, <<w>>, <<>>, u)
  BY ListsAreLists DEF Reads
<1>1. Read1(s) /\ InCheck(s)
  BY DEF At, Read1
<1>2. PICK u : Turn(s, w, u) /\ Ready(u) /\ u.braces_deep = s.braces_deep /\ Gathered(u) = Gathered(s)
  BY <1>1, ConnectiveRead
<1> QED
  BY <1>1, <1>2, TurnReads DEF At

LEMMA SyntaxReads ==
  ASSUME NEW w, IsKeyword(w, SyntaxWords), NEW from
  PROVE  Reads(<<w>>, <<>>, from, "asked")
<1> SUFFICES ASSUME NEW s, At(s, from)
             PROVE  \E u : At(u, "asked") /\ Yield(s, <<w>>, <<>>, u)
  BY ListsAreLists DEF Reads
<1>1. InCheck(s)
  BY PointsAreInside
<1>2. PICK u : Turn(s, w, u) /\ Ready(u) /\ u.braces_deep = s.braces_deep /\ Gathered(u) = Gathered(s)
  BY <1>1, SyntaxRead
<1> QED
  BY <1>1, <1>2, TurnReads DEF At

LEMMA NotReads == Reads(<<Keyword("NOT")>>, <<>>, "asked", "asked")
<1> SUFFICES ASSUME NEW s, At(s, "asked")
             PROVE  \E u : At(u, "asked") /\ Yield(s, <<Keyword("NOT")>>, <<>>, u)
  BY ListsAreLists DEF Reads
<1>1. Ready(s) /\ InCheck(s)
  BY DEF At, Ready
<1>2. PICK u : Turn(s, Keyword("NOT"), u) /\ Ready(u) /\ u.braces_deep = s.braces_deep /\ Gathered(u) = Gathered(s)
  BY <1>1, NotRead
<1> QED
  BY <1>1, <1>2, TurnReads DEF At

LEMMA EndReads == Reads(<<Keyword("END")>>, <<>>, "read", "read")
<1> SUFFICES ASSUME NEW s, At(s, "read")
             PROVE  \E u : At(u, "read") /\ Yield(s, <<Keyword("END")>>, <<>>, u)
  BY ListsAreLists DEF Reads
<1>1. Read1(s) /\ InCheck(s)
  BY DEF At, Read1
<1>2. PICK u : Turn(s, Keyword("END"), u) /\ Read1(u) /\ u.braces_deep = s.braces_deep /\ Gathered(u) = Gathered(s)
  BY <1>1, EndRead
<1> QED
  BY <1>1, <1>2, TurnReads DEF At

LEMMA CommaReads == Reads(<<Comma>>, <<>>, "read", "asked")
<1> SUFFICES ASSUME NEW s, At(s, "read")
             PROVE  \E u : At(u, "asked") /\ Yield(s, <<Comma>>, <<>>, u)
  BY ListsAreLists DEF Reads
<1>1. Read1(s) /\ InCheck(s)
  BY DEF At, Read1
<1>2. PICK u : Turn(s, Comma, u) /\ Ready(u) /\ u.braces_deep = s.braces_deep /\ Gathered(u) = Gathered(s)
  BY <1>1, CommaRead
<1> QED
  BY <1>1, <1>2, TurnReads DEF At

LEMMA LiteralReads ==
  ASSUME NEW t, IsLiteral(t)
  PROVE  Reads(<<t>>, <<>>, "asked", "read")
<1> SUFFICES ASSUME NEW s, At(s, "asked")
             PROVE  \E u : At(u, "read") /\ Yield(s, <<t>>, <<>>, u)
  BY ListsAreLists DEF Reads
<1>1. Ready(s) /\ InCheck(s)
  BY DEF At, Ready
<1>2. PICK u : Turn(s, t, u) /\ Read1(u) /\ u.braces_deep = s.braces_deep /\ Gathered(u) = Gathered(s)
  BY <1>1, LiteralRead
<1> QED
  BY <1>1, <1>2, TurnReads DEF At

\* A name of a column yields it.
LEMMA ColumnReads ==
  ASSUME NEW t, IsColumn(t), ColumnNamed(t.value) # None
  PROVE  Reads(<<t>>, <<ColumnNamed(t.value)>>, "asked", "read")
<1> DEFINE c == ColumnNamed(t.value)
<1>0. List(<<t>>) /\ List(<<c>>)
  BY ListsAreLists
<1> SUFFICES ASSUME NEW s, At(s, "asked")
             PROVE  \E u : At(u, "read") /\ Yield(s, <<t>>, <<c>>, u)
  BY <1>0 DEF Reads
<1>1. Ready(s)
  BY DEF At
<1>2. PICK u : /\ Turn(s, t, u) /\ Read1(u) /\ u.braces_deep = s.braces_deep /\ u.check_columns = Gathered(s)
               /\ u.check_pending_column = c
  BY <1>1, ColumnRead
<1>3. Leads(s, <<t>>, u)
  BY <1>2, LeadsOne DEF Turn
<1>4. Gathered(u) = Gathered(s) \o <<c>>
  BY <1>2 DEF Gathered
<1> QED
  BY <1>2, <1>3, <1>4 DEF At, Yield, Turn

\* Turns at two points, the parentheses and the collations.
LEMMA EnclosedReads ==
  ASSUME NEW text, NEW uses, Reads(text, uses, "asked", "read")
  PROVE  Reads(InParens(text), uses, "asked", "read")
<1>0. List(text) /\ List(uses) /\ List(<<Open>>) /\ List(<<Close>>) /\ List(InParens(text))
      /\ List(<<Open>> \o text)
  BY ListsAreLists DEF Reads, InParens
<1> SUFFICES ASSUME NEW s, At(s, "asked")
             PROVE  \E v : At(v, "read") /\ Yield(s, InParens(text), uses, v)
  BY <1>0 DEF Reads
<1>1. Ready(s) /\ InCheck(s) /\ s.braces_deep \in Nat /\ List(s.check_columns) /\ s.check_braces_deep \in Nat
      /\ s.check_braces_deep < s.braces_deep
  BY DEF At, Ready, InCheck, Inside, Heads, IsScan
<1>2. Gathered(s) = s.check_columns
  BY <1>1, Associative DEF Ready, Gathered
<1>3. PICK u : Turn(s, Open, u) /\ Ready(u) /\ u.braces_deep = s.braces_deep + 1 /\ Gathered(u) = s.check_columns
  BY <1>1, OpenRead
<1>4. At(u, "asked")
  BY <1>3 DEF At
<1>5. PICK v : At(v, "read") /\ Yield(u, text, uses, v)
  BY <1>4 DEF Reads
<1>6. Read1(v) /\ v.check_braces_deep = s.check_braces_deep /\ v.braces_deep = s.braces_deep + 1
  BY <1>3, <1>5 DEF At, Yield, Same, Turn
<1>7. v.check_braces_deep < v.braces_deep - 1
  BY <1>1, <1>6
<1>8. PICK w : Turn(v, Close, w) /\ Read1(w) /\ w.braces_deep = v.braces_deep - 1 /\ Gathered(w) = Gathered(v)
  BY <1>6, <1>7, CloseRead
<1>9. Leads(s, InParens(text), w)
  <2>1. Leads(s, <<Open>>, u) /\ Leads(v, <<Close>>, w) /\ Leads(u, text, v)
    BY <1>3, <1>5, <1>8, LeadsOne DEF Turn, Yield
  <2>2. Leads(s, <<Open>> \o text, v)
    BY <1>0, <2>1, LeadsOn
  <2> QED
    BY <1>0, <2>1, <2>2, LeadsOn DEF InParens
<1>10. Same(s, w) /\ w.braces_deep = s.braces_deep
  BY <1>1, <1>3, <1>5, <1>6, <1>8 DEF Turn, Yield, Same
<1>11. Gathered(w) = Gathered(s) \o uses
  BY <1>2, <1>3, <1>5, <1>8 DEF Yield
<1> QED
  BY <1>8, <1>9, <1>10, <1>11 DEF At, Yield

\* A call: the name in front of the parenthesis yields nothing, whatever it is a name of.
LEMMA CallReads ==
  ASSUME NEW t, IsColumn(t), NEW text, NEW uses, Reads(text, uses, "asked", "read")
  PROVE  Reads(<<t>> \o InParens(text), uses, "asked", "read")
<1>0. List(text) /\ List(uses) /\ List(<<Open>>) /\ List(<<Close>>) /\ List(InParens(text))
      /\ List(<<Open>> \o text) /\ List(<<t>>) /\ List(<<t>> \o InParens(text))
  BY ListsAreLists DEF Reads, InParens
<1> SUFFICES ASSUME NEW s, At(s, "asked")
             PROVE  \E v : At(v, "read") /\ Yield(s, <<t>> \o InParens(text), uses, v)
  BY <1>0 DEF Reads
<1>1. Ready(s) /\ InCheck(s) /\ s.braces_deep \in Nat /\ List(s.check_columns) /\ s.check_braces_deep \in Nat
      /\ s.check_braces_deep < s.braces_deep
  BY DEF At, Ready, InCheck, Inside, Heads, IsScan
<1>2. PICK r : Turn(s, t, r) /\ Read1(r) /\ r.braces_deep = s.braces_deep /\ r.check_columns = Gathered(s)
  BY <1>1, ColumnRead
<1>3. PICK u : Turn(r, Open, u) /\ Ready(u) /\ u.braces_deep = r.braces_deep + 1 /\ Gathered(u) = r.check_columns
  BY <1>2, OpenRead DEF Read1
<1>4. At(u, "asked")
  BY <1>3 DEF At
<1>5. PICK v : At(v, "read") /\ Yield(u, text, uses, v)
  BY <1>4 DEF Reads
<1>6. Read1(v) /\ v.check_braces_deep = s.check_braces_deep /\ v.braces_deep = s.braces_deep + 1
  BY <1>2, <1>3, <1>5 DEF At, Yield, Same, Turn
<1>7. v.check_braces_deep < v.braces_deep - 1
  BY <1>1, <1>6
<1>8. PICK w : Turn(v, Close, w) /\ Read1(w) /\ w.braces_deep = v.braces_deep - 1 /\ Gathered(w) = Gathered(v)
  BY <1>6, <1>7, CloseRead
<1>9. Leads(s, <<t>> \o InParens(text), w)
  <2>1. Leads(s, <<t>>, r) /\ Leads(r, <<Open>>, u) /\ Leads(v, <<Close>>, w) /\ Leads(u, text, v)
    BY <1>2, <1>3, <1>5, <1>8, LeadsOne DEF Turn, Yield
  <2>2. Leads(r, <<Open>> \o text, v)
    BY <1>0, <2>1, LeadsOn
  <2>3. Leads(r, InParens(text), w)
    BY <1>0, <2>1, <2>2, LeadsOn DEF InParens
  <2> QED
    BY <1>0, <2>1, <2>3, LeadsOn
<1>10. Same(s, w) /\ w.braces_deep = s.braces_deep
  BY <1>1, <1>2, <1>3, <1>5, <1>6, <1>8 DEF Turn, Yield, Same
<1>11. Gathered(w) = Gathered(s) \o uses
  BY <1>2, <1>3, <1>5, <1>8 DEF Yield
<1> QED
  BY <1>8, <1>9, <1>10, <1>11 DEF At, Yield

\* COLLATE, and the name behind it, which is not looked at.
Notes(v, u, b) == u = [v EXCEPT !.check_needs_collation = b]
NotedAs(s, v, u, b) ==
  /\ Inside(u) /\ Same(s, u) /\ u.check_pending_column = None /\ u.check_needs_collation = b
  /\ u.check_expects_operand = s.check_expects_operand
  /\ u.braces_deep = v.braces_deep /\ u.check_columns = v.check_columns

LEMMA Noted ==
  ASSUME NEW s, Inside(s), NEW t, NEW v, Settled(s, t, v), NEW b \in BOOLEAN, NEW u, Notes(v, u, b)
  PROVE  NotedAs(s, v, u, b)
<1>1. /\ u.kind = v.kind /\ u.field_name = v.field_name /\ u.constraint_name = v.constraint_name
      /\ u.unique_columns = v.unique_columns /\ u.check_braces_deep = v.check_braces_deep
      /\ u.check = TRUE /\ u.unique = FALSE /\ u.check_needs_collation = b
      /\ u.braces_deep = v.braces_deep /\ u.check_columns = v.check_columns
      /\ u.check_expects_operand = v.check_expects_operand /\ u.check_pending_column = None
  BY DEF Settled, IsScan, Notes
<1>2. IsScan(u)
  BY DEF Settled, IsScan, Notes
<1>3. Same(s, u)
  BY <1>1 DEF Settled, Same
<1>4. u.check_braces_deep < u.braces_deep /\ u.check_expects_operand = s.check_expects_operand
  BY <1>1 DEF Settled, Same
<1> QED
  BY <1>1, <1>2, <1>3, <1>4 DEF Inside, Heads, Same, NotedAs

LEMMA CollationReads ==
  ASSUME NEW t, Plain(t), t.ttype # "Punctuation"
  PROVE  Reads(<<Keyword("COLLATE"), t>>, <<>>, "read", "read")
<1> DEFINE k == Keyword("COLLATE")
<1>1. <<k, t>> = <<k>> \o <<t>>
  BY Tuples
<1>2. List(<<k, t>>) /\ List(<<>>)
  BY <1>1, ListsAreLists
<1>3. k.ttype = "Keyword" /\ k.value = "COLLATE" /\ Plain(k) /\ IsKeyword(k, {"COLLATE"})
  BY DEF Keyword, Token, Plain, IsKeyword
<1>4. k # Open /\ k # Close /\ t # Open /\ t # Close
  BY <1>3, PunctuationWords
<1> HIDE DEF k
<1> SUFFICES ASSUME NEW s, At(s, "read")
             PROVE  \E w : At(w, "read") /\ Yield(s, <<k, t>>, <<>>, w)
  BY <1>2 DEF Reads, k
<1>5. Inside(s) /\ s.check_needs_collation = FALSE /\ HasOne(s) /\ s.braces_deep \in Nat
  BY DEF At, Read1, InCheck, Inside, Heads, IsScan, HasOne
<1>6. PICK v : Settled(s, k, v) /\ Read(s, k) = ReadExpression(v, k)
  BY <1>3, <1>4, <1>5, ReadSettled
<1> PICK u : u = Read(s, k)
  OBVIOUS
<1>7. Notes(v, u, TRUE)
  <2>1. v.check_needs_collation = FALSE
    BY <1>5, <1>6 DEF Settled
  <2>2. k.ttype # "Punctuation"
    BY <1>3
  <2> QED
    BY <1>3, <1>6, <2>1, <2>2 DEF ReadExpression, Notes
<1>8. NotedAs(s, v, u, TRUE)
  BY <1>5, <1>6, <1>7, Noted
<1>9. Inside(u) /\ ~EndsDefinition(s, k)
  BY <1>3, <1>4, <1>5, <1>8, ReadSettled DEF NotedAs
<1>10. PICK x : Settled(u, t, x) /\ Read(u, t) = ReadExpression(x, t)
  BY <1>4, <1>9, ReadSettled
<1> PICK w : w = Read(u, t)
  OBVIOUS
<1>11. Notes(x, w, FALSE)
  <2>1. x.check_needs_collation = TRUE
    BY <1>8, <1>10 DEF Settled, NotedAs
  <2> QED
    BY <1>10, <2>1 DEF ReadExpression, Notes
<1>12. NotedAs(u, x, w, FALSE)
  BY <1>9, <1>10, <1>11, Noted
<1>13. Leads(s, <<k, t>>, w)
  <2>1. ~EndsDefinition(u, t)
    BY <1>4, <1>9, ReadSettled
  <2>2. Leads(s, <<k>>, u) /\ Leads(u, <<t>>, w)
    BY <1>9, <2>1, LeadsOne
  <2> QED
    BY <1>1, <2>2, LeadsOn, ListsAreLists
<1>14. At(w, "read")
  <2>1. w.check_expects_operand = s.check_expects_operand /\ Inside(w) /\ w.check_needs_collation = FALSE
    BY <1>8, <1>12 DEF NotedAs
  <2> QED
    BY <2>1, <1>5 DEF At, Read1, InCheck, HasOne
<1>15. Same(s, w)
  BY <1>8, <1>12 DEF NotedAs, Same
<1>16. w.braces_deep = s.braces_deep
  <2>1. v.braces_deep = s.braces_deep + 0 /\ x.braces_deep = u.braces_deep + 0
    BY <1>4, <1>6, <1>10 DEF Settled
  <2>2. u.braces_deep = v.braces_deep /\ w.braces_deep = x.braces_deep
    BY <1>8, <1>12 DEF NotedAs
  <2> QED
    BY <1>5, <2>1, <2>2
<1>17. Gathered(w) = Gathered(s) \o <<>>
  <2>1. v.check_columns = Gathered(s) /\ x.check_columns = Gathered(u)
    BY <1>4, <1>6, <1>10 DEF Settled
  <2>2. /\ u.check_columns = v.check_columns /\ w.check_columns = x.check_columns
        /\ u.check_pending_column = None /\ w.check_pending_column = None
        /\ List(u.check_columns) /\ List(w.check_columns)
    BY <1>8, <1>12 DEF NotedAs, Inside, Heads, IsScan
  <2>3. Gathered(u) = u.check_columns /\ Gathered(w) = w.check_columns
    BY <2>2, Associative DEF Gathered
  <2>4. List(Gathered(s))
    BY PointsAreInside
  <2> QED
    BY <2>1, <2>2, <2>3, <2>4, Associative
<1> QED
  BY <1>13, <1>14, <1>15, <1>16, <1>17 DEF Yield

(* Lists with commas.                                                          *)

LEMMA FlattenedPair ==
  ASSUME NEW s, DOMAIN s = 1..2, Len(s) = 2
  PROVE  FlattenSeq(s) = s[1] \o s[2]
<1> DEFINE Is(f) == f = [i \in 1..Len(s) |-> IF i = 1 THEN s[i] ELSE f[i - 1] \o s[i]]
           g     == [i \in 1..2 |-> IF i = 1 THEN s[1] ELSE s[1] \o s[2]]
           h     == CHOOSE f : Is(f)
<1>1. \A i \in 1..2 : g[i] = IF i = 1 THEN s[i] ELSE g[i - 1] \o s[i]
  <2> SUFFICES ASSUME NEW i \in 1..2 PROVE g[i] = IF i = 1 THEN s[i] ELSE g[i - 1] \o s[i]
    OBVIOUS
  <2>1. CASE i = 1
    BY <2>1
  <2>2. CASE i = 2
    <3>1. i # 1 /\ i - 1 = 1 /\ g[i - 1] = s[1] /\ g[i] = s[1] \o s[2]
      BY <2>2
    <3> QED
      BY <2>2, <3>1
  <2> QED
    BY <2>1, <2>2
<1> HIDE DEF g
<1>2. Is(g)
  <2>1. g = [i \in 1..2 |-> g[i]]
    BY DEF g
  <2> QED
    BY <1>1, <2>1
<1>3. Is(h)
  BY <1>2
<1>4. FlattenSeq(s) = h[Len(s)]
  BY DEF FlattenSeq
<1> HIDE DEF h
<1>5. h[1] = s[1] /\ h[2] = h[1] \o s[2]
  <2>1. h = [i \in 1..Len(s) |-> IF i = 1 THEN s[i] ELSE h[i - 1] \o s[i]]
    BY <1>3
  <2>2. 1 \in 1..Len(s) /\ 2 \in 1..Len(s) /\ 2 # 1 /\ 2 - 1 = 1
    OBVIOUS
  <2>3. h[1] = s[1]
    BY <2>1, <2>2
  <2>4. h[2] = h[2 - 1] \o s[2]
    BY <2>1, <2>2
  <2> QED
    BY <2>2, <2>3, <2>4
<1> QED
  BY <1>4, <1>5

LEMMA ListedPair ==
  ASSUME NEW x, NEW y, List(x), List(y)
  PROVE  Listed(<<x, y>>) = x \o (<<Comma>> \o y)
<1> DEFINE p == <<x, y>>
           s == [i \in DOMAIN p |-> IF i = 1 THEN p[i] ELSE <<Comma>> \o p[i]]
<1>1. DOMAIN p = 1..2 /\ p[1] = x /\ p[2] = y
  OBVIOUS
<1> HIDE DEF p
<1>2. DOMAIN s = 1..2 /\ s[1] = x /\ s[2] = <<Comma>> \o y
  BY <1>1
<1>3. Len(s) = 2
  <2>1. s \in Seq({s[1], s[2]})
    BY <1>1, <1>2
  <2> QED
    BY <1>2, <2>1
<1>4. Listed(p) = FlattenSeq(s)
  BY DEF Listed
<1> HIDE DEF s
<1> QED
  BY <1>2, <1>3, <1>4, FlattenedPair DEF p

(* Expressions.                                                                *)

\* Its columns are read from its text.
Readable(e) == Reads(e.text, e.uses, "asked", "read")

IsExpr(e) == e = [text |-> e.text, uses |-> e.uses, json |-> e.json]

LEMMA Rewritten ==
  ASSUME NEW e, IsExpr(e), NEW x
  PROVE  [e EXCEPT !.text = x] = [text |-> x, uses |-> e.uses, json |-> e.json]
  BY DEF IsExpr

\* The tokens of the grammar's own words.
LEMMA SyntaxTokens ==
  /\ \A w \in SyntaxWords : IsKeyword(Keyword(w), SyntaxWords) /\ Wordlike(Keyword(w))
                            /\ ~IsKeyword(Keyword(w), Literals) /\ Connective(Keyword(w))
  /\ IsColumn(Name("CAST")) /\ IsColumn(Name("JSON_VALID"))
  /\ IsLiteral(Builtin("INTEGER"))
<1>1. ASSUME NEW w \in SyntaxWords
      PROVE  IsKeyword(Keyword(w), SyntaxWords) /\ Wordlike(Keyword(w))
             /\ ~IsKeyword(Keyword(w), Literals) /\ Connective(Keyword(w))
  <2>1. Keyword(w).ttype = "Keyword" /\ Keyword(w).value = w
    BY DEF Keyword, Token
  <2> QED
    BY <2>1 DEF IsKeyword, SyntaxWords, Literals, Wordlike, Plain, Connective
<1>2. \A w : Name(w).ttype = "Name" /\ IsColumn(Name(w))
  BY DEF Name, Token, IsColumn, Wordlike, Plain, IsKeyword
<1>3. IsLiteral(Builtin("INTEGER"))
  BY DEF Builtin, Token, IsLiteral
<1> QED
  BY <1>1, <1>2, <1>3

LEMMA InfixIsReadable ==
  ASSUME NEW e, NEW f, Readable(e), Readable(f), NEW w, Connective(w)
  PROVE  Readable(Infix(e, w, f))
<1>1. Reads(e.text \o <<w>>, e.uses \o <<>>, "asked", "asked")
  BY ConnectiveReads, ReadsOn DEF Readable
<1>2. e.uses \o <<>> = e.uses
  BY Associative DEF Readable, Reads
<1>3. Reads(e.text \o <<w>> \o f.text, e.uses \o f.uses, "asked", "read")
  BY <1>1, <1>2, ReadsOn DEF Readable
<1> QED
  BY <1>3 DEF Readable, Infix, Joined

LEMMA NegatedIsReadable ==
  ASSUME NEW e, IsExpr(e), Readable(e)
  PROVE  Readable(Negated(e))
<1>1. Reads(<<Keyword("NOT")>> \o e.text, <<>> \o e.uses, "asked", "read")
  BY NotReads, ReadsOn DEF Readable
<1>2. <<>> \o e.uses = e.uses
  BY Associative DEF Readable, Reads
<1>3. Negated(e) = [text |-> <<Keyword("NOT")>> \o e.text, uses |-> e.uses, json |-> e.json]
  BY Rewritten DEF Negated
<1> QED
  BY <1>1, <1>2, <1>3 DEF Readable

LEMMA EnclosedIsReadable ==
  ASSUME NEW e, IsExpr(e), Readable(e)
  PROVE  Readable(Enclosed(e))
<1>1. Enclosed(e) = [text |-> InParens(e.text), uses |-> e.uses, json |-> e.json]
  BY Rewritten DEF Enclosed
<1> QED
  BY <1>1, EnclosedReads DEF Readable

\* Two texts with a comma between them.
LEMMA PairReads ==
  ASSUME NEW e, NEW f, Readable(e), Readable(f)
  PROVE  Reads(Listed(<<e.text, f.text>>), e.uses \o f.uses, "asked", "read")
<1>1. Reads(<<Comma>> \o f.text, <<>> \o f.uses, "read", "read")
  BY CommaReads, ReadsOn DEF Readable
<1>2. <<>> \o f.uses = f.uses /\ List(e.text) /\ List(f.text)
  BY Associative DEF Readable, Reads
<1>3. Reads(e.text \o (<<Comma>> \o f.text), e.uses \o f.uses, "asked", "read")
  BY <1>1, <1>2, ReadsOn DEF Readable
<1> QED
  BY <1>2, <1>3, ListedPair

LEMMA CallIsReadable ==
  ASSUME NEW e, NEW f, Readable(e), Readable(f), NEW function, IsColumn(Name(function))
  PROVE  Readable(Call(function, e, f))
<1>1. Reads(<<Name(function)>> \o InParens(Listed(<<e.text, f.text>>)), e.uses \o f.uses, "asked", "read")
  BY PairReads, CallReads
<1> QED
  BY <1>1 DEF Readable, Call, Joined

LEMMA AmongIsReadable ==
  ASSUME NEW e, NEW f, NEW g, Readable(e), Readable(f), Readable(g)
  PROVE  Readable(Among(e, f, g))
<1> DEFINE list == InParens(Listed(<<f.text, g.text>>))
<1>1. Reads(list, f.uses \o g.uses, "asked", "read")
  BY PairReads, EnclosedReads
<1>2. Reads(e.text \o <<Keyword("IN")>>, e.uses \o <<>>, "asked", "asked")
  <2>1. "IN" \in SyntaxWords
    BY DEF SyntaxWords
  <2> QED
    BY <2>1, SyntaxTokens, ConnectiveReads, ReadsOn DEF Readable
<1>3. e.uses \o <<>> = e.uses
  BY Associative DEF Readable, Reads
<1> HIDE DEF list
<1>4. Reads(e.text \o <<Keyword("IN")>> \o list, e.uses \o (f.uses \o g.uses), "asked", "read")
  BY <1>1, <1>2, <1>3, ReadsOn
<1>5. Among(e, f, g).text = e.text \o <<Keyword("IN")>> \o list
      /\ Among(e, f, g).uses = e.uses \o (f.uses \o g.uses)
  BY DEF Among, Joined, list
<1> QED
  BY <1>4, <1>5 DEF Readable

LEMMA BetweenIsReadable ==
  ASSUME NEW e, NEW f, NEW g, Readable(e), Readable(f), Readable(g)
  PROVE  Readable(Between(e, f, g))
<1>1. Connective(Keyword("BETWEEN")) /\ Connective(Keyword("AND"))
  BY SyntaxTokens DEF SyntaxWords
<1>2. Readable(Infix(e, Keyword("BETWEEN"), f))
  BY <1>1, InfixIsReadable
<1> QED
  BY <1>1, <1>2, InfixIsReadable DEF Between

LEMMA WordBehind ==
  ASSUME NEW a, NEW x, NEW b, NEW from, NEW over, NEW to, Reads(a, x, from, over), Reads(b, <<>>, over, to)
  PROVE  Reads(a \o b, x, from, to)
<1>1. x \o <<>> = x
  BY Associative DEF Reads
<1> QED
  BY <1>1, ReadsOn

LEMMA WordBefore ==
  ASSUME NEW a, NEW b, NEW y, NEW from, NEW over, NEW to, Reads(a, <<>>, from, over), Reads(b, y, over, to)
  PROVE  Reads(a \o b, y, from, to)
<1>1. <<>> \o y = y
  BY Associative DEF Reads
<1> QED
  BY <1>1, ReadsOn

LEMMA CasesIsReadable ==
  ASSUME NEW e, NEW f, NEW g, Readable(e), Readable(f), Readable(g)
  PROVE  Readable(Cases(e, f, g))
<1> DEFINE K(w) == <<Keyword(w)>>
<1>0. \A w \in SyntaxWords : \A from : Reads(K(w), <<>>, from, "asked")
  BY SyntaxTokens, SyntaxReads
<1>1. "CASE" \in SyntaxWords /\ "WHEN" \in SyntaxWords /\ "THEN" \in SyntaxWords /\ "ELSE" \in SyntaxWords
  BY DEF SyntaxWords
<1> DEFINE begin == <<Keyword("CASE"), Keyword("WHEN")>>
<1>3. Reads(begin, <<>>, "asked", "asked")
  <2>1. Reads(K("CASE") \o K("WHEN"), <<>>, "asked", "asked")
    BY <1>0, <1>1, WordBehind
  <2>3. K("CASE") \o K("WHEN") = begin
    BY Tuples
  <2> QED
    BY <2>1, <2>3
<1> DEFINE t1 == begin \o e.text
           t2 == t1 \o K("THEN")
           t3 == t2 \o f.text
           t4 == t3 \o K("ELSE")
           t5 == t4 \o g.text
           u3 == e.uses \o f.uses
           u5 == u3 \o g.uses
<1> HIDE DEF begin, K
<1>4. Reads(t1, e.uses, "asked", "read")
  BY <1>3, WordBefore DEF Readable
<1>5. Reads(t2, e.uses, "asked", "asked")
  <2> HIDE DEF t1
  <2> QED
    BY <1>0, <1>1, <1>4, WordBehind
<1>6. Reads(t3, u3, "asked", "read")
  <2> HIDE DEF t2
  <2> QED
    BY <1>5, ReadsOn DEF Readable
<1>7. Reads(t4, u3, "asked", "asked")
  <2> HIDE DEF t3, u3
  <2> QED
    BY <1>0, <1>1, <1>6, WordBehind
<1>8. Reads(t5, u5, "asked", "read")
  <2> HIDE DEF t4, u3
  <2> QED
    BY <1>7, ReadsOn DEF Readable
<1>9. Reads(t5 \o K("END"), u5, "asked", "read")
  <2>1. Reads(K("END"), <<>>, "read", "read")
    BY EndReads DEF K
  <2> HIDE DEF t5, u5
  <2> QED
    BY <2>1, <1>8, WordBehind
<1> QED
  BY <1>9 DEF Readable, Cases, Joined, K, begin

LEMMA CastIsReadable ==
  ASSUME NEW e, IsExpr(e), Readable(e)
  PROVE  Readable(Cast(e))
<1> DEFINE begin == <<Name("CAST"), Open>>
           end   == <<Keyword("AS"), Builtin("INTEGER"), Close>>
           text  == begin \o e.text \o end
<1>1. Cast(e).text = text /\ Cast(e).uses = e.uses
  BY Rewritten DEF Cast
<1>2. begin = <<Name("CAST")>> \o <<Open>> /\ end = <<Keyword("AS")>> \o <<Builtin("INTEGER"), Close>>
      /\ <<Builtin("INTEGER"), Close>> = <<Builtin("INTEGER")>> \o <<Close>>
  BY Tuples
<1>3. List(begin) /\ List(end) /\ List(<<Builtin("INTEGER"), Close>>)
  BY <1>2, ListsAreLists
<1> HIDE DEF begin, end
<1>4. List(e.text) /\ List(e.uses) /\ List(begin \o e.text) /\ List(text)
  BY <1>3, ListsAreLists DEF Readable, Reads
<1> SUFFICES ASSUME NEW s, At(s, "asked")
             PROVE  \E v : At(v, "read") /\ Yield(s, text, e.uses, v)
  BY <1>1, <1>4 DEF Readable, Reads
<1>5. Ready(s) /\ InCheck(s) /\ s.braces_deep \in Nat /\ s.check_braces_deep \in Nat
      /\ s.check_braces_deep < s.braces_deep
  BY DEF At, Ready, InCheck, Inside, Heads, IsScan
<1>6. PICK r : Turn(s, Name("CAST"), r) /\ Read1(r) /\ r.braces_deep = s.braces_deep /\ r.check_columns = Gathered(s)
  BY <1>5, SyntaxTokens, ColumnRead
<1>7. PICK u : Turn(r, Open, u) /\ Ready(u) /\ u.braces_deep = r.braces_deep + 1 /\ Gathered(u) = r.check_columns
  BY <1>6, OpenRead DEF Read1
<1>8. Leads(s, begin, u)
  <2>1. Leads(s, <<Name("CAST")>>, r) /\ Leads(r, <<Open>>, u)
    BY <1>6, <1>7, LeadsOne DEF Turn
  <2> QED
    BY <1>2, <2>1, LeadsOn, ListsAreLists
<1>9. PICK v : At(v, "read") /\ Yield(u, e.text, e.uses, v)
  BY <1>7 DEF Readable, Reads, At
<1>10. PICK a : At(a, "asked") /\ Yield(v, <<Keyword("AS")>>, <<>>, a)
  <2>1. "AS" \in SyntaxWords
    BY DEF SyntaxWords
  <2> QED
    BY <1>9, <2>1, SyntaxTokens, SyntaxReads DEF Reads
<1>11. PICK b : At(b, "read") /\ Yield(a, <<Builtin("INTEGER")>>, <<>>, b)
  BY <1>10, SyntaxTokens, LiteralReads DEF Reads
<1>12. Read1(b) /\ b.check_braces_deep = s.check_braces_deep /\ b.braces_deep = s.braces_deep + 1
  BY <1>6, <1>7, <1>9, <1>10, <1>11 DEF At, Yield, Same, Turn
<1>13. b.check_braces_deep < b.braces_deep - 1
  BY <1>5, <1>12
<1>14. PICK w : Turn(b, Close, w) /\ Read1(w) /\ w.braces_deep = b.braces_deep - 1 /\ Gathered(w) = Gathered(b)
  BY <1>12, <1>13, CloseRead
<1>15. Leads(v, end, w)
  <2>1. Leads(v, <<Keyword("AS")>>, a) /\ Leads(a, <<Builtin("INTEGER")>>, b) /\ Leads(b, <<Close>>, w)
    BY <1>10, <1>11, <1>14, LeadsOne DEF Turn, Yield
  <2>2. Leads(a, <<Builtin("INTEGER"), Close>>, w)
    BY <1>2, <2>1, LeadsOn, ListsAreLists
  <2> QED
    BY <1>2, <1>3, <2>1, <2>2, LeadsOn, ListsAreLists
<1>16. Leads(s, text, w)
  <2>1. Leads(s, begin \o e.text, v)
    BY <1>3, <1>4, <1>8, <1>9, LeadsOn DEF Yield
  <2> QED
    BY <1>3, <1>4, <1>15, <2>1, LeadsOn
<1>17. Same(s, w) /\ w.braces_deep = s.braces_deep
  <2>1. Same(s, u) /\ Same(u, v) /\ Same(v, a) /\ Same(a, b) /\ Same(b, w)
    BY <1>6, <1>7, <1>9, <1>10, <1>11, <1>14 DEF Turn, Yield, Same
  <2> QED
    BY <1>5, <1>12, <1>14, <2>1 DEF Same
<1>18. Gathered(w) = Gathered(s) \o e.uses
  <2>1. List(Gathered(v)) /\ List(Gathered(a))
    BY <1>9, <1>10, PointsAreInside
  <2>2. Gathered(a) = Gathered(v) /\ Gathered(b) = Gathered(a)
    BY <1>10, <1>11, <2>1, Associative DEF Yield
  <2> QED
    BY <1>6, <1>7, <1>9, <1>14, <2>2 DEF Yield
<1> QED
  BY <1>14, <1>16, <1>17, <1>18 DEF At, Yield

LEMMA JsonIsReadable ==
  ASSUME NEW t, IsColumn(t), ColumnNamed(t.value) # None
  PROVE  Readable(JsonValid(t, ColumnNamed(t.value)))
<1>1. Reads(<<Name("JSON_VALID")>> \o InParens(<<t>>), <<ColumnNamed(t.value)>>, "asked", "read")
  BY ColumnReads, SyntaxTokens, CallReads
<1>2. <<Name("JSON_VALID")>> \o InParens(<<t>>) = <<Name("JSON_VALID"), Open, t, Close>>
  <2>1. PICK n, o, c : n = Name("JSON_VALID") /\ o = Open /\ c = Close
    OBVIOUS
  <2>2. <<n>> \o ((<<o>> \o <<t>>) \o <<c>>) = <<n, o, t, c>>
    <3>1. <<o>> \o <<t>> = <<o, t>> /\ <<t>> \o <<c>> = <<t, c>> /\ <<o>> \o <<t, c>> = <<o, t, c>>
          /\ <<n>> \o <<o, t, c>> = <<n, o, t, c>>
      BY Tuples, Zenon
    <3>2. PICK a, b, d : a = <<o>> /\ b = <<t>> /\ d = <<c>>
      OBVIOUS
    <3>3. List(a) /\ List(b) /\ List(d)
      BY <3>2, ListsAreLists
    <3>4. (a \o b) \o d = a \o (b \o d)
      BY <3>3, Regrouped, SMTT(60)
    <3> QED
      BY <3>1, <3>2, <3>4
  <2> QED
    BY <2>1, <2>2 DEF InParens
<1> QED
  BY <1>1, <1>2 DEF Readable, JsonValid

LEMMA AtomsAreReadable ==
  /\ \A t : IsLiteral(t) => Readable(Literal(t))
  /\ \A t : IsColumn(t) /\ ColumnNamed(t.value) # None => Readable(ColumnRef(t, ColumnNamed(t.value)))
  BY LiteralReads, ColumnReads DEF Readable, Literal, ColumnRef, Expr

LEMMA CollatedIsReadable ==
  ASSUME NEW e, IsExpr(e), Readable(e), NEW t, Plain(t), t.ttype # "Punctuation"
  PROVE  Readable(Collated(e, t))
<1>1. Collated(e, t) = [text |-> e.text \o <<Keyword("COLLATE"), t>>, uses |-> e.uses, json |-> e.json]
  BY Rewritten DEF Collated
<1>2. Reads(e.text \o <<Keyword("COLLATE"), t>>, e.uses, "asked", "read")
  BY CollationReads, WordBehind DEF Readable
<1> QED
  BY <1>1, <1>2 DEF Readable

(* The grammar.                                                                *)

\* The tokens that expressions bring along.
Words ==
  {Open, Close, Comma, Keyword("NOT"), Keyword("COLLATE"), Keyword("IN"), Keyword("BETWEEN"),
   Keyword("AND"), Keyword("CASE"), Keyword("WHEN"), Keyword("THEN"), Keyword("ELSE"), Keyword("END"),
   Keyword("AS"), Builtin("INTEGER"), Name("CAST"), Name("JSON_VALID")}

\* Texts over some tokens, with columns.
Written(T) == [text : Seq(T), uses : Seq(Columns), json : SUBSET Columns]

\* A token that names a column of the table.
Names(t) == IsColumn(t) /\ ColumnNamed(t.value) # None

\* A set has what the constructors of TableText make of tokens and of expressions in it.
Closed(T, S) ==
  /\ \A t \in T :
       /\ Names(t) => /\ ColumnRef(t, ColumnNamed(t.value)) \in S
                      /\ JsonValid(t, ColumnNamed(t.value)) \in S
       /\ IsLiteral(t) => Literal(t) \in S
  /\ \A e \in S : Negated(e) \in S /\ Enclosed(e) \in S /\ Cast(e) \in S
  /\ \A e \in S, t \in T : Plain(t) /\ t.ttype # "Punctuation" => Collated(e, t) \in S
  /\ \A e, f \in S, w \in T : Connective(w) => Infix(e, w, f) \in S
  /\ \A e, f \in S : \A function : Name(function) \in T => Call(function, e, f) \in S
  /\ \A e, f, g \in S : Among(e, f, g) \in S /\ Between(e, f, g) \in S /\ Cases(e, f, g) \in S

\* The expressions over some tokens: what every set that is closed has.
Expressions(T) == {e \in Written(T) : \A S \in SUBSET Written(T) : Closed(T, S) => e \in S}

LEMMA NamedColumns ==
  ASSUME NEW w, ColumnNamed(w) # None
  PROVE  ColumnNamed(w) \in Columns
  BY DEF ColumnNamed

LEMMA NamesAreColumns == \A w : IsColumn(Name(w))
  BY DEF Name, Token, IsColumn, Wordlike, Plain, IsKeyword

\* Every text of the grammar is one of those tokens.
LEMMA WrittenIsClosed ==
  ASSUME NEW T, Words \subseteq T
  PROVE  Closed(T, Written(T))
<1> DEFINE W == Written(T)
<1>0. \A x, y, z : x \in Seq(T) /\ y \in Seq(Columns) /\ z \in SUBSET Columns
                     => [text |-> x, uses |-> y, json |-> z] \in W
  BY DEF Written
<1>1. \A e \in W : e.text \in Seq(T) /\ e.uses \in Seq(Columns) /\ e.json \in SUBSET Columns /\ IsExpr(e)
  BY DEF Written, IsExpr
<1>2. \A x, y \in Seq(T) : x \o y \in Seq(T)
  OBVIOUS
<1>3. \A x, y \in Seq(Columns) : x \o y \in Seq(Columns)
  OBVIOUS
<1>4. \A x \in T : <<x>> \in Seq(T)
  OBVIOUS
<1>5. \A w \in Words : w \in T
  OBVIOUS
<1>6. \A x \in Seq(T) : InParens(x) \in Seq(T)
  <2>1. Open \in T /\ Close \in T
    BY DEF Words
  <2> QED
    BY <1>2, <1>4, <2>1 DEF InParens
<1>7. \A x, y \in Seq(T) : Listed(<<x, y>>) \in Seq(T)
  <2> SUFFICES ASSUME NEW x \in Seq(T), NEW y \in Seq(T)
               PROVE  Listed(<<x, y>>) \in Seq(T)
    OBVIOUS
  <2>1. List(x) /\ List(y)
    BY DEF List
  <2>2. Comma \in T
    BY DEF Words
  <2>3. x \o (<<Comma>> \o y) \in Seq(T)
    BY <1>2, <1>4, <2>2
  <2> QED
    BY <2>1, <2>3, ListedPair
<1> HIDE DEF W
<1>8. ASSUME NEW e \in W, NEW x \in Seq(T)
      PROVE  [e EXCEPT !.text = x] \in W
  <2>1. [e EXCEPT !.text = x] = [text |-> x, uses |-> e.uses, json |-> e.json]
    BY <1>1, Rewritten
  <2>2. e.uses \in Seq(Columns) /\ e.json \in SUBSET Columns
    BY <1>1
  <2> QED
    BY <1>0, <2>1, <2>2
<1>9. ASSUME NEW e \in W, NEW f \in W, NEW x \in Seq(T)
      PROVE  Joined(e, f, x) \in W /\ Joined(e, f, x).text = x
  <2>1. e.uses \o f.uses \in Seq(Columns) /\ e.json \union f.json \in SUBSET Columns
    BY <1>1, <1>3
  <2> QED
    BY <1>0, <2>1 DEF Joined
<1>10. ASSUME NEW t \in T
       PROVE  /\ Names(t) => ColumnRef(t, ColumnNamed(t.value)) \in W /\ JsonValid(t, ColumnNamed(t.value)) \in W
              /\ IsLiteral(t) => Literal(t) \in W
  <2>1. <<t>> \in Seq(T) /\ <<>> \in Seq(Columns) /\ {} \in SUBSET Columns
    OBVIOUS
  <2>2. ASSUME Names(t)
        PROVE  ColumnRef(t, ColumnNamed(t.value)) \in W /\ JsonValid(t, ColumnNamed(t.value)) \in W
    <3>1. PICK c : c = ColumnNamed(t.value) /\ c \in Columns
      BY <2>2, NamedColumns DEF Names
    <3>2. <<c>> \in Seq(Columns) /\ {c} \in SUBSET Columns
      BY <3>1
    <3>3. <<Name("JSON_VALID"), Open, t, Close>> \in Seq(T)
      <4>1. Name("JSON_VALID") \in T /\ Open \in T /\ Close \in T
        BY DEF Words
      <4> QED
        BY <4>1
    <3> QED
      BY <1>0, <2>1, <3>1, <3>2, <3>3 DEF ColumnRef, Expr, JsonValid
  <2>3. Literal(t) \in W
    BY <1>0, <2>1 DEF Literal, Expr
  <2> QED
    BY <2>2, <2>3
<1>11. ASSUME NEW e \in W
       PROVE  Negated(e) \in W /\ Enclosed(e) \in W /\ Cast(e) \in W
  <2>1. <<Keyword("NOT")>> \o e.text \in Seq(T)
    <3>1. Keyword("NOT") \in T
      BY DEF Words
    <3> QED
      BY <1>1, <1>2, <1>4, <3>1
  <2>2. InParens(e.text) \in Seq(T)
    BY <1>1, <1>6
  <2>3. <<Name("CAST"), Open>> \o e.text \o <<Keyword("AS"), Builtin("INTEGER"), Close>> \in Seq(T)
    <3>1. Name("CAST") \in T /\ Open \in T /\ Keyword("AS") \in T /\ Builtin("INTEGER") \in T /\ Close \in T
      BY DEF Words
    <3>2. <<Name("CAST"), Open>> \in Seq(T) /\ <<Keyword("AS"), Builtin("INTEGER"), Close>> \in Seq(T)
      BY <3>1
    <3> QED
      BY <1>1, <1>2, <3>2
  <2> QED
    BY <1>8, <2>1, <2>2, <2>3 DEF Negated, Enclosed, Cast
<1>12. ASSUME NEW e \in W, NEW t \in T
       PROVE  Collated(e, t) \in W
  <2>1. e.text \o <<Keyword("COLLATE"), t>> \in Seq(T)
    <3>1. Keyword("COLLATE") \in T
      BY DEF Words
    <3>2. <<Keyword("COLLATE"), t>> \in Seq(T)
      BY <3>1
    <3> QED
      BY <1>1, <1>2, <3>2
  <2> QED
    BY <1>8, <2>1 DEF Collated
<1>13. ASSUME NEW e \in W, NEW f \in W, NEW w \in T
       PROVE  Infix(e, w, f) \in W
  <2>1. e.text \o <<w>> \o f.text \in Seq(T)
    BY <1>1, <1>2, <1>4
  <2> QED
    BY <1>9, <2>1 DEF Infix
<1>14. ASSUME NEW e \in W, NEW f \in W, NEW function, Name(function) \in T
       PROVE  Call(function, e, f) \in W
  <2>1. <<Name(function)>> \o InParens(Listed(<<e.text, f.text>>)) \in Seq(T)
    BY <1>1, <1>2, <1>4, <1>6, <1>7, <1>14
  <2> QED
    BY <1>9, <2>1 DEF Call
<1>15. ASSUME NEW e \in W, NEW f \in W, NEW g \in W
       PROVE  Among(e, f, g) \in W /\ Between(e, f, g) \in W /\ Cases(e, f, g) \in W
  <2>1. Among(e, f, g) \in W
    <3> DEFINE list == Joined(f, g, InParens(Listed(<<f.text, g.text>>)))
    <3>1. InParens(Listed(<<f.text, g.text>>)) \in Seq(T)
      BY <1>1, <1>6, <1>7
    <3>2. list \in W
      BY <1>9, <3>1
    <3> HIDE DEF list
    <3>3. e.text \o <<Keyword("IN")>> \o list.text \in Seq(T)
      <4>1. Keyword("IN") \in T
        BY DEF Words
      <4> QED
        BY <1>1, <1>2, <1>4, <3>2, <4>1
    <3>4. Joined(e, list, e.text \o <<Keyword("IN")>> \o list.text) \in W
      BY <1>9, <3>2, <3>3
    <3> QED
      BY <3>4 DEF Among, list
  <2>2. Between(e, f, g) \in W
    <3>1. Keyword("BETWEEN") \in T /\ Keyword("AND") \in T
      BY DEF Words
    <3> QED
      BY <1>13, <3>1 DEF Between
  <2>3. Cases(e, f, g) \in W
    <3>1. <<>> \in Seq(T)
      OBVIOUS
    <3>2. Joined(e, f, <<>>) \in W
      BY <1>9, <3>1
    <3>3. /\ Keyword("CASE") \in T /\ Keyword("WHEN") \in T /\ Keyword("THEN") \in T /\ Keyword("ELSE") \in T
          /\ Keyword("END") \in T
      BY DEF Words
    <3>4. <<Keyword("CASE"), Keyword("WHEN")>> \in Seq(T)
      BY <3>3
    <3>5. <<Keyword("CASE"), Keyword("WHEN")>> \o e.text \o <<Keyword("THEN")>> \o f.text
            \o <<Keyword("ELSE")>> \o g.text \o <<Keyword("END")>> \in Seq(T)
      <4> DEFINE a == <<Keyword("CASE"), Keyword("WHEN")>> \o e.text
                 b == a \o <<Keyword("THEN")>>
                 c == b \o f.text
                 d == c \o <<Keyword("ELSE")>>
                 h == d \o g.text
      <4>1. a \in Seq(T)
        BY <1>1, <1>2, <3>4
      <4>2. b \in Seq(T)
        BY <1>2, <1>4, <3>3, <4>1
      <4>3. c \in Seq(T)
        BY <1>1, <1>2, <4>2
      <4>4. d \in Seq(T)
        BY <1>2, <1>4, <3>3, <4>3
      <4>5. h \in Seq(T)
        BY <1>1, <1>2, <4>4
      <4> QED
        BY <1>2, <1>4, <3>3, <4>5
    <3> QED
      BY <1>9, <3>2, <3>5 DEF Cases
  <2> QED
    BY <2>1, <2>2, <2>3
<1> QED
  BY <1>10, <1>11, <1>12, <1>13, <1>14, <1>15 DEF Closed, W

\* The expressions are closed themselves: they are the least set that is.
LEMMA ExpressionsAreClosed ==
  ASSUME NEW T, Words \subseteq T
  PROVE  Closed(T, Expressions(T))
<1> DEFINE W == Written(T)
           X == Expressions(T)
<1>1. Closed(T, W)
  BY WrittenIsClosed
<1>2. X \subseteq W /\ \A S \in SUBSET W : Closed(T, S) => X \subseteq S
  BY DEF Expressions
<1>3. \A e : e \in W /\ (\A S \in SUBSET W : Closed(T, S) => e \in S) => e \in X
  BY DEF Expressions
<1> HIDE DEF W, X
<1>4. ASSUME NEW t \in T
      PROVE  /\ Names(t) => ColumnRef(t, ColumnNamed(t.value)) \in X /\ JsonValid(t, ColumnNamed(t.value)) \in X
             /\ IsLiteral(t) => Literal(t) \in X
  <2>1. \A S : Closed(T, S) =>
          /\ Names(t) => ColumnRef(t, ColumnNamed(t.value)) \in S /\ JsonValid(t, ColumnNamed(t.value)) \in S
          /\ IsLiteral(t) => Literal(t) \in S
    BY DEF Closed
  <2> QED
    BY <1>1, <1>3, <2>1
<1>5. ASSUME NEW e \in X
      PROVE  Negated(e) \in X /\ Enclosed(e) \in X /\ Cast(e) \in X
  <2>1. \A S : Closed(T, S) /\ e \in S => Negated(e) \in S /\ Enclosed(e) \in S /\ Cast(e) \in S
    BY DEF Closed
  <2> QED
    BY <1>1, <1>2, <1>3, <2>1
<1>6. ASSUME NEW e \in X, NEW t \in T, Plain(t), t.ttype # "Punctuation"
      PROVE  Collated(e, t) \in X
  <2>1. \A S : Closed(T, S) /\ e \in S => Collated(e, t) \in S
    BY <1>6 DEF Closed
  <2> QED
    BY <1>1, <1>2, <1>3, <2>1
<1>7. ASSUME NEW e \in X, NEW f \in X, NEW w \in T, Connective(w)
      PROVE  Infix(e, w, f) \in X
  <2>1. \A S : Closed(T, S) /\ e \in S /\ f \in S => Infix(e, w, f) \in S
    BY <1>7 DEF Closed
  <2> QED
    BY <1>1, <1>2, <1>3, <2>1
<1>8. ASSUME NEW e \in X, NEW f \in X, NEW function, Name(function) \in T
      PROVE  Call(function, e, f) \in X
  <2>1. \A S : Closed(T, S) /\ e \in S /\ f \in S => Call(function, e, f) \in S
    BY <1>8 DEF Closed
  <2> QED
    BY <1>1, <1>2, <1>3, <2>1
<1>9. ASSUME NEW e \in X, NEW f \in X, NEW g \in X
      PROVE  Among(e, f, g) \in X /\ Between(e, f, g) \in X /\ Cases(e, f, g) \in X
  <2>1. \A S : Closed(T, S) /\ e \in S /\ f \in S /\ g \in S
                 => Among(e, f, g) \in S /\ Between(e, f, g) \in S /\ Cases(e, f, g) \in S
    BY DEF Closed
  <2> QED
    BY <1>1, <1>2, <1>3, <2>1
<1> QED
  BY <1>4, <1>5, <1>6, <1>7, <1>8, <1>9 DEF Closed, X

\* Whatever is an operand of what, and however deep: the scanner reads an expression to its
\* end without leaving the definition, and takes from it the columns that the expression
\* uses, each once for every use and in their order.  Functions, collations, types, literals
\* and the words of the syntax are never taken for columns, and a column called END, LIKE or
\* GLOB never for a word of the syntax.
THEOREM ExpressionsAreRead ==
  ASSUME NEW T, Words \subseteq T, NEW e \in Expressions(T)
  PROVE  Reads(e.text, e.uses, "asked", "read")
<1> DEFINE R == {x \in Written(T) : Readable(x)}
<1>0. Closed(T, Written(T))
  BY WrittenIsClosed
<1>1. \A x \in Written(T) : IsExpr(x)
  BY DEF Written, IsExpr
<1>2. \A x : x \in R <=> x \in Written(T) /\ Readable(x)
  OBVIOUS
<1> HIDE DEF R
<1>3. ASSUME NEW t \in T
      PROVE  /\ Names(t) => ColumnRef(t, ColumnNamed(t.value)) \in R /\ JsonValid(t, ColumnNamed(t.value)) \in R
             /\ IsLiteral(t) => Literal(t) \in R
  <2>1. /\ Names(t) => /\ ColumnRef(t, ColumnNamed(t.value)) \in Written(T)
                       /\ JsonValid(t, ColumnNamed(t.value)) \in Written(T)
        /\ IsLiteral(t) => Literal(t) \in Written(T)
    BY <1>0 DEF Closed
  <2>2. /\ Names(t) => Readable(ColumnRef(t, ColumnNamed(t.value))) /\ Readable(JsonValid(t, ColumnNamed(t.value)))
        /\ IsLiteral(t) => Readable(Literal(t))
    BY AtomsAreReadable, JsonIsReadable DEF Names
  <2> QED
    BY <1>2, <2>1, <2>2
<1>4. ASSUME NEW x \in R
      PROVE  Negated(x) \in R /\ Enclosed(x) \in R /\ Cast(x) \in R
  <2>1. Negated(x) \in Written(T) /\ Enclosed(x) \in Written(T) /\ Cast(x) \in Written(T)
    BY <1>0, <1>2 DEF Closed
  <2>2. Readable(Negated(x)) /\ Readable(Enclosed(x)) /\ Readable(Cast(x))
    BY <1>1, <1>2, NegatedIsReadable, EnclosedIsReadable, CastIsReadable
  <2> QED
    BY <1>2, <2>1, <2>2
<1>5. ASSUME NEW x \in R, NEW t \in T, Plain(t), t.ttype # "Punctuation"
      PROVE  Collated(x, t) \in R
  <2>1. Collated(x, t) \in Written(T)
    BY <1>0, <1>2, <1>5 DEF Closed
  <2>2. Readable(Collated(x, t))
    BY <1>1, <1>2, <1>5, CollatedIsReadable
  <2> QED
    BY <1>2, <2>1, <2>2
<1>6. ASSUME NEW x \in R, NEW y \in R, NEW w \in T, Connective(w)
      PROVE  Infix(x, w, y) \in R
  <2>1. Infix(x, w, y) \in Written(T)
    BY <1>0, <1>2, <1>6 DEF Closed
  <2>2. Readable(Infix(x, w, y))
    BY <1>2, <1>6, InfixIsReadable
  <2> QED
    BY <1>2, <2>1, <2>2
<1>7. ASSUME NEW x \in R, NEW y \in R, NEW function, Name(function) \in T
      PROVE  Call(function, x, y) \in R
  <2>1. Call(function, x, y) \in Written(T)
    BY <1>0, <1>2, <1>7 DEF Closed
  <2>2. Readable(Call(function, x, y))
    BY <1>2, NamesAreColumns, CallIsReadable
  <2> QED
    BY <1>2, <2>1, <2>2
<1>8. ASSUME NEW x \in R, NEW y \in R, NEW z \in R
      PROVE  Among(x, y, z) \in R /\ Between(x, y, z) \in R /\ Cases(x, y, z) \in R
  <2>1. Among(x, y, z) \in Written(T) /\ Between(x, y, z) \in Written(T) /\ Cases(x, y, z) \in Written(T)
    BY <1>0, <1>2 DEF Closed
  <2>2. Readable(Among(x, y, z)) /\ Readable(Between(x, y, z)) /\ Readable(Cases(x, y, z))
    BY <1>2, AmongIsReadable, BetweenIsReadable, CasesIsReadable
  <2> QED
    BY <1>2, <2>1, <2>2
<1>9. Closed(T, R)
  BY <1>3, <1>4, <1>5, <1>6, <1>7, <1>8 DEF Closed
<1>10. R \subseteq Written(T)
  BY <1>2
<1>11. e \in R
  BY <1>9, <1>10 DEF Expressions
<1> QED
  BY <1>2, <1>11 DEF Readable

(* Checks.                                                                     *)

\* CHECK has just been read.
AtCheck(s) ==
  /\ Heads(s) /\ s.check = TRUE /\ s.check_needs_collation = FALSE /\ Wants(s)
  /\ s.check_pending_column = None /\ s.check_braces_deep = s.braces_deep

\* Between two clauses, outside parentheses.
Idle(s) == Heads(s) /\ s.check = FALSE /\ s.check_pending_column = None

\* A check has been read, and these are all the columns so far.
Checked(s, columns, u) == Idle(u) /\ Same(s, u) /\ u.braces_deep = s.braces_deep /\ u.check_columns = columns

LEMMA Unsettled ==
  ASSUME NEW v, IsScan(v), v.check_pending_column = None, Wants(v), NEW t
  PROVE  /\ SettlePending(v, t) = v
         /\ [v EXCEPT !.check_expects_operand = TRUE] = v
<1>1. ~PendingCounts(v, t)
  BY DEF PendingCounts
<1>2. [v EXCEPT !.check_columns = v.check_columns, !.check_pending_column = None] = v
  BY DEF IsScan
<1>3. [v EXCEPT !.check_expects_operand = TRUE] = v
  BY DEF IsScan, Wants
<1> QED
  BY <1>1, <1>2, <1>3 DEF SettlePending

LEMMA CheckOpens ==
  ASSUME NEW s, AtCheck(s)
  PROVE  \E u : /\ ~EndsDefinition(s, Open) /\ u = Read(s, Open) /\ Ready(u) /\ u.kind = s.kind
                /\ u.field_name = s.field_name /\ u.constraint_name = s.constraint_name
                /\ u.unique_columns = s.unique_columns /\ u.check_braces_deep = s.check_braces_deep
                /\ u.braces_deep = s.braces_deep + 1 /\ Gathered(u) = s.check_columns
<1>1. ~EndsDefinition(s, Open)
  BY Punctuations DEF EndsDefinition
<1>2. PICK c : c = Counted(s, Open)
  OBVIOUS
<1>3. ~IsKeyword(Open, {"UNIQUE"}) /\ ~IsKeyword(Open, {"CHECK"}) /\ Open # Close
  BY Punctuations DEF Plain, IsKeyword
<1>4. Heads(s) /\ s.braces_deep \in Nat /\ IsScan(s)
  BY DEF AtCheck, Heads, IsScan
<1>5. /\ Read(s, Open) = ReadCheck(c, Open)
      /\ Heads(c) /\ c = [s EXCEPT !.braces_deep = c.braces_deep]
      /\ c.braces_deep = s.braces_deep + 1
  BY <1>2, <1>3, <1>4, ReadBehind
<1>6. /\ c.check = TRUE /\ c.check_needs_collation = FALSE /\ c.check_expects_operand = s.check_expects_operand
      /\ c.check_pending_column = None
      /\ c.check_braces_deep = s.braces_deep /\ c.check_columns = s.check_columns
      /\ c.kind = s.kind /\ c.field_name = s.field_name /\ c.constraint_name = s.constraint_name
      /\ c.unique_columns = s.unique_columns /\ c.check_braces_deep = s.check_braces_deep
  BY <1>4, <1>5 DEF AtCheck, IsScan
<1>7. IsScan(c) /\ Wants(c) /\ List(c.check_columns)
  BY <1>5, <1>6 DEF Heads, AtCheck, Wants, IsScan
<1>8. c.check_braces_deep # c.braces_deep /\ c.check_braces_deep < c.braces_deep
  BY <1>4, <1>5, <1>6
<1>9. ReadCheck(c, Open) = ReadExpression(c, Open)
  BY <1>3, <1>6, <1>7, <1>8, Unsettled DEF ReadCheck
<1>10. ReadExpression(c, Open) = c
  <2>1. Open.ttype = "Punctuation" /\ Open.value \in {"(", ","}
    BY PunctuationWords
  <2> DEFINE b == Open.value \in {"(", ","}
  <2>2. b = TRUE
    BY <2>1, TruthValues DEF b
  <2> HIDE DEF b
  <2>3. [c EXCEPT !.check_expects_operand = b] = c
    BY <2>2, <1>6, <1>7, Unsettled
  <2>4. ReadExpression(c, Open) = [c EXCEPT !.check_expects_operand = b]
    BY <1>6, <2>1 DEF ReadExpression, b
  <2> QED
    BY <2>3, <2>4
<1>11. Ready(c)
  BY <1>5, <1>6, <1>7, <1>8 DEF Ready, InCheck, Inside, Wants
<1>12. Gathered(c) = s.check_columns
  BY <1>6, <1>7, Associative DEF Gathered
<1> QED
  BY <1>1, <1>5, <1>6, <1>9, <1>10, <1>11, <1>12

LEMMA CheckCloses ==
  ASSUME NEW s, Read1(s), s.check_braces_deep = s.braces_deep - 1, Gathered(s) # <<>>
  PROVE  \E u : /\ ~EndsDefinition(s, Close) /\ u = Read(s, Close) /\ Idle(u) /\ Same(s, u)
                /\ u.braces_deep = s.braces_deep - 1 /\ u.check_columns = Gathered(s)
<1>1. Inside(s) /\ s.braces_deep \in Nat /\ s.check_braces_deep \in Nat /\ Heads(s) /\ s.braces_deep # 0
  BY DEF Read1, InCheck, Inside, Heads, IsScan
<1>2. ~EndsDefinition(s, Close)
  BY <1>1 DEF EndsDefinition
<1>3. PICK c : c = Counted(s, Close)
  OBVIOUS
<1>4. ~IsKeyword(Close, {"UNIQUE"}) /\ ~IsKeyword(Close, {"CHECK"}) /\ Open # Close
  BY Punctuations DEF Plain, IsKeyword
<1>5. /\ Read(s, Close) = ReadCheck(c, Close)
      /\ Heads(c) /\ c = [s EXCEPT !.braces_deep = c.braces_deep]
      /\ c.braces_deep = s.braces_deep - 1
  <2>1. /\ Read(s, Close) = ReadCheck(c, Close)
        /\ Heads(c) /\ c = [s EXCEPT !.braces_deep = c.braces_deep]
        /\ c.braces_deep = s.braces_deep + (CASE Close = Open -> 1 [] Close = Close -> -1 [] OTHER -> 0)
    BY <1>1, <1>3, <1>4, ReadBehind
  <2>2. (CASE Close = Open -> 1 [] Close = Close -> -1 [] OTHER -> 0) = -1
    BY <1>4
  <2> QED
    BY <1>1, <2>1, <2>2
<1>6. PICK v : v = SettlePending(c, Close)
  OBVIOUS
<1>7. /\ IsScan(v) /\ Same(s, v) /\ v.check_pending_column = None
      /\ v.unique = FALSE /\ v.braces_deep = c.braces_deep /\ v.check_columns = Gathered(s)
  <2>1. Inside(s) /\ IsScan(Counted(s, Close)) /\ v = SettlePending(Counted(s, Close), Close) /\ Close # Open
    BY <1>1, <1>3, <1>4, <1>5, <1>6 DEF Heads
  <2>2. /\ IsScan(v) /\ Same(s, v) /\ v.check_pending_column = None
        /\ v.unique = FALSE /\ v.braces_deep = Counted(s, Close).braces_deep
        /\ (Close # Open => v.check_columns = Gathered(s))
    BY <2>1, Settling
  <2> QED
    BY <1>3, <2>1, <2>2
<1>8. ReadCheck(c, Close) = [v EXCEPT !.check = (v.check_columns = <<>>)]
  <2>1. c.check = TRUE /\ c.check_braces_deep = c.braces_deep
    BY <1>1, <1>5 DEF Inside, Heads, IsScan
  <2> QED
    BY <1>4, <1>6, <2>1 DEF ReadCheck
<1>9. PICK u : u = [v EXCEPT !.check = FALSE]
  OBVIOUS
<1>10. ReadCheck(c, Close) = u
  <2> DEFINE b == v.check_columns = <<>>
  <2>1. b = FALSE
    BY <1>7 DEF b
  <2> HIDE DEF b
  <2>2. [v EXCEPT !.check = b] = u
    BY <1>9, <2>1
  <2> QED
    BY <1>8, <2>2 DEF b
<1>11. /\ u.check = FALSE /\ u.kind = v.kind /\ u.field_name = v.field_name /\ u.constraint_name = v.constraint_name
       /\ u.unique_columns = v.unique_columns /\ u.check_braces_deep = v.check_braces_deep /\ u.unique = v.unique
       /\ u.braces_deep = v.braces_deep /\ u.check_columns = v.check_columns
       /\ u.check_pending_column = v.check_pending_column /\ IsScan(u)
  BY <1>7, <1>9 DEF IsScan
<1>12. Idle(u)
  BY <1>1, <1>7, <1>11 DEF Idle, Heads, Same
<1>13. Same(s, u)
  BY <1>7, <1>11 DEF Same
<1> QED
  BY <1>2, <1>5, <1>7, <1>10, <1>11, <1>12, <1>13

\* What stands in the parentheses of a check.
LEMMA CheckIsRead ==
  ASSUME NEW s, AtCheck(s), NEW text, NEW uses, Reads(text, uses, "asked", "read"), uses # <<>>
  PROVE  \E w : Leads(s, InParens(text), w) /\ Checked(s, s.check_columns \o uses, w)
<1>1. PICK u : /\ ~EndsDefinition(s, Open) /\ u = Read(s, Open) /\ Ready(u) /\ u.kind = s.kind
               /\ u.field_name = s.field_name /\ u.constraint_name = s.constraint_name
               /\ u.unique_columns = s.unique_columns /\ u.check_braces_deep = s.check_braces_deep
               /\ u.braces_deep = s.braces_deep + 1 /\ Gathered(u) = s.check_columns
  BY CheckOpens
<1>2. PICK v : At(v, "read") /\ Yield(u, text, uses, v)
  BY <1>1 DEF Reads, At
<1>3. Gathered(v) = s.check_columns \o uses
  BY <1>1, <1>2 DEF Yield
<1>4. List(s.check_columns) /\ List(uses) /\ List(text) /\ s.braces_deep \in Nat
      /\ s.check_braces_deep = s.braces_deep
  BY DEF AtCheck, Heads, IsScan, Reads
<1>5. Gathered(v) # <<>>
  <2>1. PICK V : s.check_columns \in Seq(V) /\ uses \in Seq(V)
    BY <1>4, OneSet
  <2> QED
    BY <1>3, <2>1, ConcatSimplifications
<1>6. Read1(v) /\ v.check_braces_deep = v.braces_deep - 1
  BY <1>1, <1>2, <1>4 DEF At, Yield, Same
<1>7. PICK w : /\ ~EndsDefinition(v, Close) /\ w = Read(v, Close) /\ Idle(w) /\ Same(v, w)
               /\ w.braces_deep = v.braces_deep - 1 /\ w.check_columns = Gathered(v)
  BY <1>5, <1>6, CheckCloses
<1>8. Leads(s, InParens(text), w)
  <2>1. Leads(s, <<Open>>, u) /\ Leads(u, text, v) /\ Leads(v, <<Close>>, w)
    BY <1>1, <1>2, <1>7, LeadsOne DEF Yield
  <2>2. Leads(s, <<Open>> \o text, v) /\ List(<<Open>> \o text) /\ List(<<Close>>)
    BY <1>4, <2>1, LeadsOn, ListsAreLists
  <2> QED
    BY <2>1, <2>2, LeadsOn DEF InParens
<1>9. Same(s, w)
  BY <1>1, <1>2, <1>7 DEF Same, Yield
<1>10. w.braces_deep = s.braces_deep
  BY <1>1, <1>2, <1>4, <1>7 DEF Yield
<1> QED
  BY <1>3, <1>7, <1>8, <1>9, <1>10 DEF Checked

\* The word itself, behind the head of a definition.
LEMMA CheckWordRead ==
  ASSUME NEW s, Heads(s), s.check_pending_column = None
  PROVE  \E u : /\ ~EndsDefinition(s, Keyword("CHECK")) /\ u = Read(s, Keyword("CHECK")) /\ AtCheck(u)
                /\ u.kind = s.kind /\ u.field_name = s.field_name /\ u.constraint_name = s.constraint_name
                /\ u.unique_columns = s.unique_columns
                /\ u.braces_deep = s.braces_deep /\ u.check_columns = s.check_columns
<1> PICK k : k = Keyword("CHECK")
  OBVIOUS
<1>1. /\ IsKeyword(k, {"CHECK"}) /\ ~IsKeyword(k, {"UNIQUE"})
      /\ k # Open /\ k # Close /\ k # Comma
  <2>1. k.ttype = "Keyword" /\ k.value = "CHECK"
    BY DEF Keyword, Token
  <2> QED
    BY <2>1, PunctuationWords DEF IsKeyword
<1>2. ~EndsDefinition(s, k)
  BY <1>1 DEF EndsDefinition
<1>3. PICK c : c = Counted(s, k)
  OBVIOUS
<1>4. /\ Read(s, k) = ReadCheck(c, k)
      /\ Heads(c) /\ c = [s EXCEPT !.braces_deep = c.braces_deep]
      /\ c.braces_deep = s.braces_deep
  <2>1. /\ Read(s, k) = ReadCheck(c, k)
        /\ Heads(c) /\ c = [s EXCEPT !.braces_deep = c.braces_deep]
        /\ c.braces_deep = s.braces_deep + (CASE k = Open -> 1 [] k = Close -> -1 [] OTHER -> 0)
    BY <1>1, <1>3, ReadBehind
  <2>2. s.braces_deep \in Nat /\ (CASE k = Open -> 1 [] k = Close -> -1 [] OTHER -> 0) = 0
    BY <1>1 DEF Heads, IsScan
  <2> QED
    BY <2>1, <2>2
<1>5. PICK u : u = [c EXCEPT !.check = TRUE, !.check_needs_collation = FALSE, !.check_expects_operand = TRUE,
                             !.check_braces_deep = c.braces_deep]
  OBVIOUS
<1>6. ReadCheck(c, k) = u
  BY <1>1, <1>5 DEF ReadCheck
<1>7. /\ IsScan(u) /\ u.check = TRUE /\ u.check_needs_collation = FALSE /\ Wants(u) /\ u.unique = FALSE
      /\ u.check_braces_deep = c.braces_deep /\ u.braces_deep = c.braces_deep
      /\ u.kind = c.kind /\ u.field_name = c.field_name /\ u.constraint_name = c.constraint_name
      /\ u.unique_columns = c.unique_columns /\ u.check_columns = c.check_columns
      /\ u.check_pending_column = c.check_pending_column
  <2>0. IsScan(c) /\ c.unique = FALSE
    BY <1>4 DEF Heads
  <2>1. /\ u.check = TRUE /\ u.check_needs_collation = FALSE /\ u.check_expects_operand = TRUE /\ u.unique = c.unique
        /\ u.check_braces_deep = c.braces_deep /\ u.braces_deep = c.braces_deep
        /\ u.kind = c.kind /\ u.field_name = c.field_name /\ u.constraint_name = c.constraint_name
        /\ u.unique_columns = c.unique_columns /\ u.check_columns = c.check_columns
        /\ u.check_pending_column = c.check_pending_column
    BY <1>5, <2>0 DEF IsScan
  <2>2. IsScan(u)
    BY <1>5, <2>0 DEF IsScan
  <2> QED
    BY <2>0, <2>1, <2>2 DEF Wants
<1>8. /\ c.kind = s.kind /\ c.field_name = s.field_name /\ c.constraint_name = s.constraint_name
      /\ c.unique_columns = s.unique_columns /\ c.check_columns = s.check_columns
      /\ c.check_pending_column = s.check_pending_column
  BY <1>4 DEF Heads, IsScan
<1>9. AtCheck(u)
  BY <1>4, <1>7, <1>8 DEF AtCheck, Heads
<1> QED
  BY <1>2, <1>4, <1>6, <1>7, <1>8, <1>9

(* Checks of the table.                                                        *)

LEMMA StartIsScan ==
  /\ IsScan(StartOfDefinition) /\ StartOfDefinition.kind = "unknown" /\ StartOfDefinition.braces_deep = 0
  /\ StartOfDefinition.field_name = None /\ StartOfDefinition.constraint_name = None
  /\ StartOfDefinition.unique = FALSE /\ StartOfDefinition.check = FALSE
  /\ StartOfDefinition.unique_columns = <<>> /\ StartOfDefinition.check_columns = <<>>
  /\ StartOfDefinition.check_pending_column = None
<1>1. List(<<>>)
  BY ListsAreLists
<1> QED
  BY <1>1 DEF StartOfDefinition, IsScan

\* Without a name the word CHECK begins the definition; the scanner takes it for the name of
\* a column, which has no consequence.
LEMMA CheckBegins ==
  \E u : /\ ~EndsDefinition(StartOfDefinition, Keyword("CHECK")) /\ u = Read(StartOfDefinition, Keyword("CHECK"))
         /\ AtCheck(u) /\ u.constraint_name = None /\ u.unique_columns = <<>> /\ u.braces_deep = 0
         /\ u.check_columns = <<>>
<1>k. PICK k : k = Keyword("CHECK")
  OBVIOUS
<1>s. PICK s : s = StartOfDefinition
  OBVIOUS
<1>0. k.ttype = "Keyword" /\ k.value = "CHECK"
  BY <1>k DEF Keyword, Token
<1>1. /\ IsKeyword(k, {"CHECK"}) /\ ~IsKeyword(k, {"UNIQUE"}) /\ ~IsKeyword(k, {"CONSTRAINT"}) /\ IsName(k)
      /\ k # Open /\ k # Close /\ k # Comma
  BY <1>0, PunctuationWords DEF IsKeyword, IsName
<1>2. /\ IsScan(s) /\ s.kind = "unknown" /\ s.braces_deep = 0 /\ s.field_name = None /\ s.constraint_name = None
      /\ s.unique = FALSE /\ s.check = FALSE /\ s.unique_columns = <<>> /\ s.check_columns = <<>>
      /\ s.check_pending_column = None
  BY <1>s, StartIsScan
<1>3. ~EndsDefinition(s, k)
  BY <1>1 DEF EndsDefinition
<1>4. Counted(s, k) = s
  <2>1. [s EXCEPT !.braces_deep = s.braces_deep] = s
    BY <1>2 DEF IsScan
  <2> QED
    BY <1>1, <2>1 DEF Counted
<1>c. PICK c : c = [s EXCEPT !.kind = "column"]
  OBVIOUS
<1>5. Classified(s, k) = c
  BY <1>c, <1>1, <1>2 DEF Classified
<1>6. /\ IsScan(c) /\ c.kind = "column" /\ c.braces_deep = 0 /\ c.field_name = None /\ c.constraint_name = None
      /\ c.unique = FALSE /\ c.check = FALSE /\ c.unique_columns = <<>> /\ c.check_columns = <<>>
      /\ c.check_pending_column = None
  BY <1>c, <1>2 DEF IsScan
<1>7. ~SkipsCheck(s, k)
  BY <1>1, <1>5, <1>6 DEF SkipsCheck
<1>f. PICK f : f = [c EXCEPT !.field_name = "CHECK", !.unique_columns = c.unique_columns]
  OBVIOUS
<1>8. ReadHead(s, k) = f
  <2>1. ReadHead(s, k) = ReadColumn(c, k)
    BY <1>4, <1>5, <1>6 DEF ReadHead
  <2> QED
    BY <2>1, <1>f, <1>0, <1>1, <1>6 DEF ReadColumn
<1>9. /\ IsScan(f) /\ f.kind = "column" /\ f.braces_deep = 0 /\ f.field_name = "CHECK" /\ f.constraint_name = None
      /\ f.unique = FALSE /\ f.check = FALSE /\ f.unique_columns = <<>> /\ f.check_columns = <<>>
      /\ f.check_pending_column = None
  BY <1>6, <1>f DEF IsScan
<1>u. PICK u : u = [f EXCEPT !.check = TRUE, !.check_needs_collation = FALSE, !.check_expects_operand = TRUE,
                           !.check_braces_deep = f.braces_deep]
  OBVIOUS
<1>10. Read(s, k) = u
  <2>1. ReadCheck(f, k) = u
    BY <1>u, <1>1 DEF ReadCheck
  <2> QED
    BY <1>7, <1>8, <2>1 DEF Read
<1>11. /\ u.check = TRUE /\ u.check_needs_collation = FALSE /\ u.check_expects_operand = TRUE /\ u.unique = FALSE
       /\ u.check_braces_deep = 0 /\ u.braces_deep = 0
       /\ u.kind = "column" /\ u.field_name = "CHECK" /\ u.constraint_name = None
       /\ u.unique_columns = <<>> /\ u.check_columns = <<>> /\ u.check_pending_column = None
  BY <1>u, <1>9 DEF IsScan
<1>12. IsScan(u)
  <2>1. IsScan(f)
    BY <1>9
  <2> QED
    BY <1>u, <2>1 DEF IsScan
<1>13. AtCheck(u)
  <2>1. Heads(u)
    BY <1>11, <1>12 DEF Heads, None
  <2>2. Wants(u)
    BY <1>11 DEF Wants
  <2> QED
    BY <1>11, <2>1, <2>2 DEF AtCheck
<1> QED
  BY <1>k, <1>s, <1>3, <1>10, <1>11, <1>13

\* CONSTRAINT, and the name of the constraint.
LEMMA NameBegins ==
  ASSUME NEW name, name # None
  PROVE  \E u : /\ Leads(StartOfDefinition, <<Keyword("CONSTRAINT"), Quoted(name)>>, u)
                /\ Idle(u) /\ u.kind = "named" /\ u.constraint_name = name /\ u.unique_columns = <<>>
                /\ u.braces_deep = 0 /\ u.check_columns = <<>>
<1>k. PICK k : k = Keyword("CONSTRAINT")
  OBVIOUS
<1>q. PICK q : q = Quoted(name)
  OBVIOUS
<1>s. PICK s : s = StartOfDefinition
  OBVIOUS
<1>0. k.ttype = "Keyword" /\ k.value = "CONSTRAINT" /\ q.ttype = "Symbol" /\ q.value = name
  BY <1>k, <1>q DEF Keyword, Quoted, Token
<1>1. /\ IsKeyword(k, {"CONSTRAINT"}) /\ ~IsKeyword(k, {"UNIQUE"}) /\ k # Open /\ k # Close /\ k # Comma
      /\ \A w : ~IsKeyword(q, w)
      /\ IsName(q) /\ q # Open /\ q # Close /\ q # Comma
  BY <1>0, PunctuationWords DEF IsKeyword, IsName
<1>2. /\ IsScan(s) /\ s.kind = "unknown" /\ s.braces_deep = 0 /\ s.field_name = None /\ s.constraint_name = None
      /\ s.unique = FALSE /\ s.check = FALSE /\ s.unique_columns = <<>> /\ s.check_columns = <<>>
      /\ s.check_pending_column = None
  BY <1>s, StartIsScan
<1>3. ~EndsDefinition(s, k)
  BY <1>1 DEF EndsDefinition
<1>4. \A v, t : IsScan(v) /\ t # Open /\ t # Close => Counted(v, t) = v
  <2> SUFFICES ASSUME NEW v, NEW t, IsScan(v), t # Open, t # Close PROVE Counted(v, t) = v
    OBVIOUS
  <2>1. [v EXCEPT !.braces_deep = v.braces_deep] = v
    BY DEF IsScan
  <2> QED
    BY <2>1 DEF Counted
<1>c. PICK c : c = [s EXCEPT !.kind = "named"]
  OBVIOUS
<1>5. Classified(s, k) = c
  BY <1>c, <1>1, <1>2 DEF Classified
<1>6. /\ c.kind = "named" /\ c.braces_deep = 0 /\ c.field_name = None /\ c.constraint_name = None
      /\ c.unique = FALSE /\ c.check = FALSE /\ c.unique_columns = <<>> /\ c.check_columns = <<>>
      /\ c.check_pending_column = None
  BY <1>c, <1>2 DEF IsScan
<1>7. IsScan(c)
  <2>1. IsScan(s)
    BY <1>2
  <2> QED
    BY <1>c, <2>1 DEF IsScan
<1>8. Read(s, k) = c
  <2>1. SkipsCheck(s, k)
    BY <1>1, <1>2 DEF SkipsCheck
  <2>2. Counted(s, k) = s
    BY <1>1, <1>2, <1>4
  <2>3. ReadHead(s, k) = c
    <3>1. c.kind = "named" /\ s.kind = "unknown"
      BY <1>2, <1>6
    <3> QED
      BY <1>5, <2>2, <3>1 DEF ReadHead
  <2> QED
    BY <2>1, <2>3 DEF Read
<1>9. ~EndsDefinition(c, q)
  BY <1>1 DEF EndsDefinition
<1>u. PICK u : u = [c EXCEPT !.constraint_name = name]
  OBVIOUS
<1>10. /\ u.kind = "named" /\ u.braces_deep = 0 /\ u.field_name = None /\ u.constraint_name = name
       /\ u.unique = FALSE /\ u.check = FALSE /\ u.unique_columns = <<>> /\ u.check_columns = <<>>
       /\ u.check_pending_column = None
  BY <1>u, <1>6, <1>7 DEF IsScan
<1>11. IsScan(u)
  BY <1>u, <1>7 DEF IsScan
<1>12. Read(c, q) = u
  <2>1. Classified(c, q) = c
    BY <1>6 DEF Classified
  <2>2. ~SkipsCheck(c, q)
    BY <1>6 DEF SkipsCheck
  <2>3. Counted(c, q) = c
    BY <1>1, <1>4, <1>7
  <2>4. ReadHead(c, q) = ReadUnique(c, q)
    BY <1>6, <2>1, <2>3 DEF ReadHead
  <2>5. ReadUnique(c, q) = u
    <3>1. ~IsKeyword(q, {"UNIQUE"}) /\ IsName(q)
      BY <1>1
    <3>2. (IF c.kind = "named" /\ c.constraint_name = None /\ IsName(q)
           THEN [c EXCEPT !.constraint_name = q.value] ELSE c) = u
      BY <1>u, <1>0, <1>6, <3>1
    <3> QED
      BY <1>6, <1>10, <3>1, <3>2 DEF ReadUnique
  <2>6. ReadCheck(u, q) = u
    BY <1>1, <1>10 DEF ReadCheck
  <2> QED
    BY <2>2, <2>4, <2>5, <2>6 DEF Read
<1>13. Idle(u)
  BY <1>10, <1>11 DEF Idle, Heads
<1>14. Leads(s, <<k, q>>, u)
  <2>1. Leads(s, <<k>>, c) /\ Leads(c, <<q>>, u)
    BY <1>3, <1>8, <1>9, <1>12, LeadsOne
  <2>2. <<k>> \o <<q>> = <<k, q>>
    BY Tuples
  <2>3. List(<<k>>) /\ List(<<q>>)
    BY ListsAreLists
  <2>4. Leads(s, <<k>> \o <<q>>, u)
    BY <2>1, <2>3, LeadsOn
  <2> QED
    BY <2>2, <2>4
<1> QED
  BY <1>k, <1>q, <1>s, <1>10, <1>13, <1>14

\* A scan that was idle, after a CHECK that uses these columns.
AfterCheck(s, uses, u) ==
  /\ Idle(u) /\ u.kind = s.kind /\ u.field_name = s.field_name /\ u.constraint_name = s.constraint_name
  /\ u.unique_columns = s.unique_columns /\ u.braces_deep = s.braces_deep
  /\ u.check_columns = s.check_columns \o uses

\* CHECK and its expression, behind the head of a definition.
LEMMA CheckClauseRead ==
  ASSUME NEW s, Idle(s), NEW text, NEW uses, Reads(text, uses, "asked", "read"), uses # <<>>
  PROVE  \E u : Leads(s, <<Keyword("CHECK")>> \o InParens(text), u) /\ AfterCheck(s, uses, u)
<1>1. PICK c : /\ ~EndsDefinition(s, Keyword("CHECK")) /\ c = Read(s, Keyword("CHECK")) /\ AtCheck(c)
               /\ c.kind = s.kind /\ c.field_name = s.field_name /\ c.constraint_name = s.constraint_name
               /\ c.unique_columns = s.unique_columns
               /\ c.braces_deep = s.braces_deep /\ c.check_columns = s.check_columns
  BY CheckWordRead DEF Idle
<1>2. PICK u : Leads(c, InParens(text), u) /\ Checked(c, c.check_columns \o uses, u)
  BY <1>1, CheckIsRead
<1>3. Leads(s, <<Keyword("CHECK")>>, c)
  BY <1>1, LeadsOne
<1>4. List(<<Keyword("CHECK")>>) /\ List(InParens(text))
  BY ListsAreLists DEF Reads, InParens
<1>5. Leads(s, <<Keyword("CHECK")>> \o InParens(text), u)
  BY <1>2, <1>3, <1>4, LeadsOn
<1> QED
  BY <1>1, <1>2, <1>5 DEF Checked, Same, AfterCheck

LEMMA TableCheckRead ==
  ASSUME NEW text, NEW uses, Reads(text, uses, "asked", "read"), uses # <<>>, NEW name
  PROVE  \E u : /\ Leads(StartOfDefinition, Named(name, <<Keyword("CHECK")>> \o InParens(text)), u)
                /\ u.constraint_name = name /\ u.unique_columns = <<>> /\ u.braces_deep = 0
                /\ u.check_columns = <<>> \o uses
<1>1. List(InParens(text)) /\ List(<<Keyword("CHECK")>>) /\ List(uses)
  BY ListsAreLists DEF Reads, InParens
<1>2. List(<<Keyword("CHECK")>> \o InParens(text))
  BY <1>1, ListsAreLists
<1>3. CASE name = None
  <2>1. PICK c : /\ ~EndsDefinition(StartOfDefinition, Keyword("CHECK")) /\ c = Read(StartOfDefinition, Keyword("CHECK"))
                 /\ AtCheck(c) /\ c.constraint_name = None /\ c.unique_columns = <<>> /\ c.braces_deep = 0
                 /\ c.check_columns = <<>>
    BY CheckBegins
  <2>2. PICK u : Leads(c, InParens(text), u) /\ Checked(c, c.check_columns \o uses, u)
    BY <2>1, CheckIsRead
  <2>3. Leads(StartOfDefinition, <<Keyword("CHECK")>>, c)
    BY <2>1, LeadsOne
  <2>4. Leads(StartOfDefinition, <<Keyword("CHECK")>> \o InParens(text), u)
    BY <1>1, <2>2, <2>3, LeadsOn
  <2> QED
    BY <1>3, <2>1, <2>2, <2>4 DEF Checked, Same, Named
<1>4. CASE name # None
  <2>1. PICK s : /\ Leads(StartOfDefinition, <<Keyword("CONSTRAINT"), Quoted(name)>>, s)
                 /\ Idle(s) /\ s.kind = "named" /\ s.constraint_name = name /\ s.unique_columns = <<>>
                 /\ s.braces_deep = 0 /\ s.check_columns = <<>>
    BY <1>4, NameBegins
  <2>5. Idle(s)
    BY <2>1
  <2>2. PICK u : Leads(s, <<Keyword("CHECK")>> \o InParens(text), u) /\ AfterCheck(s, uses, u)
    BY <2>5, CheckClauseRead
  <2>3. List(<<Keyword("CONSTRAINT"), Quoted(name)>>)
    <3>1. <<Keyword("CONSTRAINT"), Quoted(name)>> = <<Keyword("CONSTRAINT")>> \o <<Quoted(name)>>
      BY Tuples
    <3> QED
      BY <3>1, ListsAreLists
  <2>4. Leads(StartOfDefinition, <<Keyword("CONSTRAINT"), Quoted(name)>> \o (<<Keyword("CHECK")>> \o InParens(text)), u)
    BY <1>2, <2>1, <2>2, <2>3, LeadsOn
  <2> QED
    BY <1>4, <2>1, <2>2, <2>4 DEF Named, AfterCheck
<1> QED
  BY <1>3, <1>4

\* A CHECK of the table, with a name or without one: the scanner reads it to the end of the
\* definition, where it knows the name and yields one constraint: the one that the definition
\* declares, with the columns that its expression uses.
THEOREM TableChecksAreRead ==
  ASSUME NEW T, Words \subseteq T, NEW e \in Expressions(T), e.uses # <<>>, NEW name
  PROVE  LET d == TableCheck(name, e)
         IN  \E u : /\ Leads(StartOfDefinition, d.text, u)
                    /\ EndsDefinition(u, Comma) /\ EndsDefinition(u, Close)
                    /\ \E c \in d.declares : u.constraint_name = c.name /\ Yields(u) = <<AsReported(c)>>
<1> DEFINE d == TableCheck(name, e)
           clause == <<Keyword("CHECK")>> \o InParens(e.text)
           c == Declares(name, "check", e.uses)
<1>1. Reads(e.text, e.uses, "asked", "read")
  BY ExpressionsAreRead
<1>2. d.text = Named(name, clause) /\ c \in d.declares
  BY DEF TableCheck, Check, Nothing
<1>3. List(e.uses)
  BY <1>1 DEF Reads
<1>5. PICK u : /\ Leads(StartOfDefinition, Named(name, clause), u) /\ u.constraint_name = name
               /\ u.unique_columns = <<>> /\ u.braces_deep = 0 /\ u.check_columns = <<>> \o e.uses
  BY <1>1, TableCheckRead
<1>6. <<>> \o e.uses = e.uses
  BY <1>3, Associative
<1>7. EndsDefinition(u, Comma) /\ EndsDefinition(u, Close)
  BY <1>5 DEF EndsDefinition
<1>8. Yields(u) = <<>> \o <<Constraint(FirstUses(e.uses), "check")>>
  BY <1>5, <1>6 DEF Yields
<1>9. <<>> \o <<Constraint(FirstUses(e.uses), "check")>> = <<Constraint(FirstUses(e.uses), "check")>>
  BY ListsAreLists, Associative
<1>10. c.name = name /\ AsReported(c) = Constraint(FirstUses(e.uses), "check")
  BY DEF AsReported, Declares
<1> HIDE DEF c, clause
<1>11. u.constraint_name = c.name /\ Yields(u) = <<AsReported(c)>>
  BY <1>5, <1>8, <1>9, <1>10
<1>12. Leads(StartOfDefinition, d.text, u)
  BY <1>2, <1>5
<1> HIDE DEF d
<1>13. \E x \in d.declares : u.constraint_name = x.name /\ Yields(u) = <<AsReported(x)>>
  BY <1>2, <1>11
<1> QED
  BY <1>7, <1>12, <1>13 DEF d
================================================================================
