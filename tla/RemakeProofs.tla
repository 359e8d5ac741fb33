-------------------------------- MODULE RemakeProofs ---------------------------
(******************************************************************************)
(* Theorems of TableRemake, for every set of names, declarable fields and     *)
(* rows and any number of operations: types, and the five invariants of the   *)
(* runs, for which RemakeInv is inductive.  What carries it is Copies: from   *)
(* the operation to the INSERT ... SELECT the rows of the table, put through  *)
(* the mapping of its remake, are those that the application has to find.     *)
(******************************************************************************)
EXTENDS TableRemake, FiniteSetTheorems, SequenceTheorems, WellFoundedInduction, TLAPS

(* Sequences.                                                                  *)

Less == {p \in Nat \X Nat : p[1] < p[2]}

\* Every set of naturals has a least one: what induction over lengths rests on.
LEMMA LeastNumber ==
  ASSUME NEW T, T \subseteq Nat, T # {}
  PROVE  \E m \in T : \A k \in T : m <= k
<1>1. OpToRel(<, Nat) = Less
  BY DEF OpToRel, Less
<1>2. IsWellFoundedOn(Less, Nat)
  BY <1>1, NatLessThanWellFounded
<1>3. \E m \in T : \A k \in T : <<k, m>> \notin Less
  BY <1>2, WFMin
<1>4. \A k, m \in Nat : <<k, m>> \notin Less => m <= k
  BY DEF Less
<1> QED
  BY <1>3, <1>4

LEMMA Induction ==
  ASSUME NEW n \in Nat, NEW S, 0 \in S, \A k \in 0..(n - 1) : k \in S => k + 1 \in S
  PROVE  \A k \in 0..n : k \in S
<1> SUFFICES ASSUME NEW j \in 0..n, j \notin S PROVE FALSE
  OBVIOUS
<1> DEFINE T == {k \in 0..n : k \notin S}
<1>1. T \subseteq Nat /\ T # {}
  OBVIOUS
<1>2. PICK m \in T : \A k \in T : m <= k
  BY <1>1, LeastNumber
<1>3. m # 0 /\ m - 1 \in 0..(n - 1) /\ m - 1 \notin T
  BY <1>2
<1> QED
  BY <1>3

LEMMA LargestOf ==
  ASSUME NEW k \in Nat
  PROVE  /\ \A t \in SUBSET (1..(k + 1)) : k + 1 \in t => Max(t) = k + 1
         /\ \A t \in SUBSET (1..(k + 1)) : k + 1 \notin t => t \in SUBSET (1..k)
         /\ \A t \in SUBSET (1..(k + 1)) : t \ {k + 1} \in SUBSET (1..k)
         /\ Max(1..(k + 1)) = k + 1 /\ (1..(k + 1)) \ {k + 1} = 1..k
<1>1. ASSUME NEW t \in SUBSET (1..(k + 1)), k + 1 \in t PROVE Max(t) = k + 1
  <2>1. \A x \in t : (\A y \in t : x >= y) <=> x = k + 1
    BY <1>1
  <2> QED
    BY <1>1, <2>1 DEF Max
<1>2. 1..(k + 1) \in SUBSET (1..(k + 1)) /\ k + 1 \in 1..(k + 1) /\ (1..(k + 1)) \ {k + 1} = 1..k
  OBVIOUS
<1>3. \A t \in SUBSET (1..(k + 1)) : k + 1 \notin t => t \in SUBSET (1..k)
  OBVIOUS
<1>4. \A t \in SUBSET (1..(k + 1)) : t \ {k + 1} \in SUBSET (1..k)
  OBVIOUS
<1> QED
  BY <1>1, <1>2, <1>3, <1>4

Kept(gone, kept, s) == IF s \in gone THEN kept ELSE Append(kept, s)

Filtering(gone, s, f, n) ==
  f = [t \in SUBSET (1..n) |-> IF t = {} THEN <<>> ELSE Kept(gone, f[t \ {Max(t)}], s[Max(t)])]

Filtered(gone, sql) == FoldLeft(LAMBDA kept, s : IF s \in gone THEN kept ELSE Append(kept, s), <<>>, sql)

LEMMA FilteredIs ==
  ASSUME NEW S, NEW s \in Seq(S), NEW gone
  PROVE  Filtered(gone, s) = (CHOOSE f : Filtering(gone, s, f, Len(s)))[1..Len(s)]
<1>1. DOMAIN s = 1..Len(s)
  OBVIOUS
<1> QED
  BY <1>1 DEF Filtered, Kept, FoldLeft, MapThenFoldSet, Filtering

LEMMA FilteringExists ==
  ASSUME NEW S, NEW s \in Seq(S), NEW gone
  PROVE  \E f : Filtering(gone, s, f, Len(s))
<1> DEFINE L == {k \in Nat : \E f : Filtering(gone, s, f, k)}
<1>1. 0 \in L
  <2> DEFINE g == [t \in SUBSET (1..0) |-> <<>>]
  <2>1. Filtering(gone, s, g, 0)
    <3>1. \A t \in SUBSET (1..0) : t = {}
      OBVIOUS
    <3> QED
      BY <3>1 DEF Filtering
  <2> QED
    BY <2>1
<1>2. ASSUME NEW k \in Nat, k \in L PROVE k + 1 \in L
  <2>1. PICK f : Filtering(gone, s, f, k)
    BY <1>2
  <2> DEFINE g == [t \in SUBSET (1..(k + 1)) |-> IF k + 1 \in t THEN Kept(gone, f[t \ {k + 1}], s[k + 1]) ELSE f[t]]
  <2>2. ASSUME NEW t \in SUBSET (1..(k + 1))
        PROVE  g[t] = IF t = {} THEN <<>> ELSE Kept(gone, g[t \ {Max(t)}], s[Max(t)])
    <3>1. CASE k + 1 \in t
      <4>1. Max(t) = k + 1 /\ t \ {k + 1} \in SUBSET (1..k)
        BY <3>1, LargestOf
      <4>2. g[t \ {k + 1}] = f[t \ {k + 1}]
        BY <4>1
      <4> QED
        BY <3>1, <4>1, <4>2
    <3>2. CASE k + 1 \notin t
      <4>1. t \in SUBSET (1..k) /\ t \ {Max(t)} \in SUBSET (1..k)
        BY <3>2, LargestOf
      <4>2. f[t] = IF t = {} THEN <<>> ELSE Kept(gone, f[t \ {Max(t)}], s[Max(t)])
        BY <2>1, <4>1 DEF Filtering
      <4>3. g[t] = f[t] /\ g[t \ {Max(t)}] = f[t \ {Max(t)}]
        BY <3>2, <4>1
      <4> QED
        BY <4>2, <4>3
    <3> QED
      BY <3>1, <3>2
  <2>3. Filtering(gone, s, g, k + 1)
    BY <2>2 DEF Filtering
  <2> QED
    BY <2>3
<1> HIDE DEF L
<1>3. \A k \in 0..Len(s) : k \in L
  BY <1>1, <1>2, Induction
<1> QED
  BY <1>3 DEF L

\* No statement twice.
Distinct(s) == \A i, j \in DOMAIN s : s[i] = s[j] => i = j

\* The statements that are left are those that are not gone, and each of them once.
LEMMA FilteredHas ==
  ASSUME NEW S, NEW s \in Seq(S), NEW gone, Distinct(s)
  PROVE  /\ Filtered(gone, s) \in Seq(S)
         /\ Distinct(Filtered(gone, s))
         /\ Range(Filtered(gone, s)) = Range(s) \ gone
<1> DEFINE F == CHOOSE f : Filtering(gone, s, f, Len(s))
           L == {k \in 0..Len(s) : /\ F[1..k] \in Seq(S)
                                   /\ Distinct(F[1..k])
                                   /\ Range(F[1..k]) = {s[i] : i \in 1..k} \ gone}
<1>0. Len(s) \in Nat /\ DOMAIN s = 1..Len(s)
  OBVIOUS
<1>1. Filtered(gone, s) = F[1..Len(s)]
  BY FilteredIs
<1>2. Filtering(gone, s, F, Len(s))
  BY FilteringExists
<1> HIDE DEF F
<1>3. \A t \in SUBSET (1..Len(s)) : F[t] = IF t = {} THEN <<>> ELSE Kept(gone, F[t \ {Max(t)}], s[Max(t)])
  BY <1>2 DEF Filtering
<1>4. 0 \in L
  <2>1. 1..0 = {} /\ {} \in SUBSET (1..Len(s)) /\ <<>> \in Seq(S) /\ Range(<<>>) = {} /\ Distinct(<<>>)
    BY DEF Range, Distinct
  <2>2. F[{}] = <<>>
    BY <1>3, <2>1
  <2>3. {s[i] : i \in {}} = {} /\ 0 \in 0..Len(s)
    BY <1>0
  <2> QED
    BY <2>1, <2>2, <2>3
<1>5. ASSUME NEW k \in 0..(Len(s) - 1), k \in L PROVE k + 1 \in L
  <2>0. k \in Nat /\ k + 1 <= Len(s) /\ k + 1 \in 0..Len(s) /\ k + 1 \in 1..Len(s)
    BY <1>0
  <2>1. 1..(k + 1) \in SUBSET (1..Len(s)) /\ 1..(k + 1) # {}
    <3>1. 1 \in 1..(k + 1)
      BY <2>0
    <3>2. \A i \in 1..(k + 1) : i \in 1..Len(s)
      BY <1>0, <2>0
    <3> QED
      BY <3>1, <3>2
  <2>2. Max(1..(k + 1)) = k + 1 /\ (1..(k + 1)) \ {k + 1} = 1..k
    BY <2>0, LargestOf
  <2>3. F[1..(k + 1)] = Kept(gone, F[1..k], s[k + 1])
    BY <1>3, <2>1, <2>2
  <2>4. F[1..k] \in Seq(S) /\ Distinct(F[1..k]) /\ Range(F[1..k]) = {s[i] : i \in 1..k} \ gone
    BY <1>5
  <2>5. {s[i] : i \in 1..(k + 1)} = {s[i] : i \in 1..k} \union {s[k + 1]}
    BY <2>0, <2>2
  <2>6. CASE s[k + 1] \in gone
    BY <2>0, <2>3, <2>4, <2>5, <2>6 DEF Kept
  <2>7. CASE s[k + 1] \notin gone
    <3> DEFINE G == F[1..k]
    <3>1. s[k + 1] \in S
      BY <2>0
    <3>2. G \in Seq(S) /\ Distinct(G) /\ Range(G) = {s[i] : i \in 1..k} \ gone
      BY <2>4
    <3>3. F[1..(k + 1)] = Append(G, s[k + 1])
      BY <2>3, <2>7 DEF Kept
    <3> HIDE DEF G
    <3>4. \A i \in 1..k : s[i] # s[k + 1]
      BY <1>0, <2>0 DEF Distinct
    <3>5. s[k + 1] \notin Range(G)
      BY <3>2, <3>4
    <3>6. Append(G, s[k + 1]) \in Seq(S) /\ Len(Append(G, s[k + 1])) = Len(G) + 1
      BY <3>1, <3>2
    <3>7. /\ DOMAIN Append(G, s[k + 1]) = 1..(Len(G) + 1) /\ DOMAIN G = 1..Len(G) /\ Len(G) \in Nat
          /\ \A i \in 1..Len(G) : Append(G, s[k + 1])[i] = G[i]
          /\ Append(G, s[k + 1])[Len(G) + 1] = s[k + 1]
      BY <3>1, <3>2
    <3>8. Distinct(Append(G, s[k + 1]))
      BY <3>2, <3>5, <3>7 DEF Distinct, Range
    <3>9. Range(Append(G, s[k + 1])) = Range(G) \union {s[k + 1]}
      BY <3>7 DEF Range
    <3> QED
      BY <2>0, <2>5, <2>7, <3>2, <3>3, <3>6, <3>8, <3>9
  <2> QED
    BY <2>6, <2>7
<1> HIDE DEF L
<1>6. Len(s) \in L
  <2>1. \A k \in 0..Len(s) : k \in L
    BY <1>0, <1>4, <1>5, Induction
  <2> QED
    BY <1>0, <2>1
<1>7. {s[i] : i \in 1..Len(s)} = Range(s)
  BY <1>0 DEF Range
<1> QED
  BY <1>1, <1>6, <1>7 DEF L

\* A set becomes a sequence of each of its elements.
LEMMA SetToSeqHas ==
  ASSUME NEW S, IsFiniteSet(S)
  PROVE  /\ SetToSeq(S) \in Seq(S)
         /\ Distinct(SetToSeq(S))
         /\ Range(SetToSeq(S)) = S
<1> DEFINE n == Cardinality(S)
           f == SetToSeq(S)
<1>1. n \in Nat /\ ExistsBijection(1..n, S)
  BY FS_CardinalityType
<1>2. \E g \in [1..n -> S] : IsInjective(g)
  BY <1>1 DEF ExistsBijection, Bijection, Injection
<1>3. f \in [1..n -> S] /\ IsInjective(f)
  BY <1>2 DEF SetToSeq
<1>4. f \in Seq(S)
  BY <1>1, <1>3
<1>5. Distinct(f)
  BY <1>3 DEF IsInjective, Distinct
<1>6. f \in Surjection(1..n, S)
  <2>1. IsFiniteSet(1..n) /\ Cardinality(1..n) = n
    BY <1>1, FS_Interval
  <2>2. f \in Injection(1..n, S)
    BY <1>3 DEF Injection
  <2> QED
    BY <2>1, <2>2, FS_Injection
<1>7. Range(f) = S
  BY <1>6, <1>3 DEF Surjection, Range
<1> QED
  BY <1>4, <1>5, <1>7

LEMMA SetToSeqSmall ==
  /\ SetToSeq({}) = <<>>
  /\ \A x : SetToSeq({x}) = <<x>>
<1>1. SetToSeq({}) = <<>>
  <2>1. IsFiniteSet({}) /\ Cardinality({}) = 0
    BY FS_EmptySet
  <2>2. SetToSeq({}) \in Seq({})
    BY <2>1, SetToSeqHas
  <2> QED
    BY <2>2
<1>2. ASSUME NEW x PROVE SetToSeq({x}) = <<x>>
  <2> DEFINE f == SetToSeq({x})
  <2>1. IsFiniteSet({x}) /\ Cardinality({x}) = 1
    BY FS_Singleton
  <2>2. f \in Seq({x}) /\ Distinct(f) /\ Range(f) = {x}
    BY <2>1, SetToSeqHas
  <2> HIDE DEF f
  <2>3. Len(f) \in Nat /\ DOMAIN f = 1..Len(f) /\ \A i \in 1..Len(f) : f[i] = x
    BY <2>2
  <2>4. Len(f) # 0
    <3>1. \E i \in DOMAIN f : f[i] = x
      BY <2>2 DEF Range
    <3> QED
      BY <2>3, <3>1
  <2>5. ~ (Len(f) >= 2)
    BY <2>2, <2>3 DEF Distinct
  <2>6. Len(f) = 1
    BY <2>3, <2>4, <2>5
  <2>7. f = <<x>>
    BY <2>2, <2>3, <2>6
  <2> QED
    BY <2>7 DEF f
<1> QED
  BY <1>1, <1>2

LEMMA ShortSequences ==
  ASSUME NEW a, NEW b
  PROVE  /\ <<a>> \o <<>> = <<a>>
         /\ <<a>> \o <<b>> = <<a, b>>
         /\ Head(<<a>>) = a /\ Tail(<<a>>) = <<>> /\ Len(<<a>>) = 1 /\ <<a>>[1] = a /\ DOMAIN <<a>> = {1}
         /\ Head(<<a, b>>) = a /\ Tail(<<a, b>>) = <<b>> /\ Len(<<a, b>>) = 2
         /\ <<a, b>>[1] = a /\ <<a, b>>[2] = b /\ DOMAIN <<a, b>> = {1, 2}
         /\ <<a>> # <<>> /\ <<a, b>> # <<>> /\ <<a, b>> # <<a>> /\ Len(<<>>) = 0 /\ DOMAIN <<>> = {}
<1>1. <<a>> \in Seq({a, b}) /\ <<b>> \in Seq({a, b}) /\ <<>> \in Seq({a, b}) /\ <<a, b>> \in Seq({a, b})
  OBVIOUS
<1>2. <<a>> \o <<>> = <<a>>
  BY <1>1, ConcatEmptySeq
<1>3. <<a>> \o <<b>> = <<a, b>>
  <2>1. Len(<<a>>) = 1 /\ Len(<<b>>) = 1 /\ Len(<<a, b>>) = 2
    OBVIOUS
  <2>2. /\ <<a>> \o <<b>> \in Seq({a, b}) /\ Len(<<a>> \o <<b>>) = Len(<<a>>) + Len(<<b>>)
        /\ \A i \in 1..(Len(<<a>>) + Len(<<b>>)) :
             (<<a>> \o <<b>>)[i] = IF i <= Len(<<a>>) THEN <<a>>[i] ELSE <<b>>[i - Len(<<a>>)]
    BY <1>1, ConcatProperties
  <2>3. \A i \in 1..2 : (<<a>> \o <<b>>)[i] = <<a, b>>[i]
    <3>1. (<<a>> \o <<b>>)[1] = a /\ (<<a>> \o <<b>>)[2] = b
      BY <2>1, <2>2
    <3>2. \A i \in 1..2 : i = 1 \/ i = 2
      OBVIOUS
    <3> QED
      BY <3>1, <3>2
  <2>4. <<a>> \o <<b>> \in Seq({a, b}) /\ Len(<<a>> \o <<b>>) = 2
    BY <2>1, <2>2
  <2> QED
    BY <1>1, <2>1, <2>3, <2>4, SeqEqual
<1> QED
  BY <1>2, <1>3
--------------------------------------------------------------------------------
(* The inductive invariant.                                                    *)

AllTables  == Tables \union {Replacement(t) : t \in Tables}
AllColumns == Names \union Peers \union {"id", "ref"}
Statements == [table : AllTables, column : AllColumns]

\* The fields that a model may have: one key at most, and only "id" is automatic.
IsModel(M) ==
  /\ DOMAIN M \subseteq AllColumns
  /\ M \in [DOMAIN M -> Field]
  /\ \A n, m \in DOMAIN M : M[n].pk /\ M[m].pk => n = m
  /\ \A n \in DOMAIN M : /\ M[n].pk => M[n].unique /\ ~M[n].null
                         /\ M[n].auto => n = "id"
                         /\ n # "ref" => M[n].to = "none"
  /\ "id" \in DOMAIN M => M["id"] = Id

\* The models of a migration: the parent, and at most one that refers to a unique field of it.
AreModels(ms) ==
  /\ DOMAIN ms \subseteq Tables
  /\ DOMAIN ms # {} => "parent" \in DOMAIN ms
  /\ \A m, n \in DOMAIN ms \ {"parent"} : m = n
  /\ \A m \in DOMAIN ms : IsModel(ms[m])
  /\ "parent" \in DOMAIN ms => DOMAIN ms["parent"] \subseteq Names \union {"id"}
  /\ \A m \in DOMAIN ms \ {"parent"} :
       /\ {"id", "ref"} \subseteq DOMAIN ms[m]
       /\ ms[m]["ref"].to \in DOMAIN ms["parent"] /\ ms["parent"][ms[m]["ref"].to].unique
       /\ m = "child" => DOMAIN ms[m] = {"id", "ref"}
       /\ m \in Throughs => \E peer \in Peers : DOMAIN ms[m] = {"id", "ref", peer}

IsTable(T) ==
  /\ DOMAIN T = {"columns", "rows", "indexes"}
  /\ DOMAIN T.columns \subseteq AllColumns
  /\ T.columns \in [DOMAIN T.columns -> Field]
  /\ DOMAIN T.rows \subseteq Rows
  /\ \A r \in DOMAIN T.rows : DOMAIN T.rows[r] = DOMAIN T.columns
  /\ T.indexes \subseteq DOMAIN T.columns

\* A table has the rows of a model, and NULL only where it may be.
HasRows(T, M, D) ==
  /\ DOMAIN T.rows = DOMAIN D
  /\ \A r \in DOMAIN D :
       /\ DOMAIN D[r] = DOMAIN M
       /\ DOMAIN T.rows[r] = DOMAIN T.columns
       /\ \A n \in DOMAIN M : n \in DOMAIN T.columns /\ T.rows[r][n] = D[r][n]
       /\ \A n \in DOMAIN T.columns : T.rows[r][n] = "null" => T.columns[n].null

\* A table is that of a model, but for an automatic key that the model does not have.
Fits(T, M, D) == T.columns \in {M, Rendered(M)} /\ HasRows(T, M, D)

IndexesFit(T) == \A n \in DOMAIN T.columns : IsIndexed(T.columns[n]) <=> n \in T.indexes

\* The database and the migration state between two editors.
Settled(ts, ms, ds) ==
  /\ AreModels(ms)
  /\ DOMAIN ts = DOMAIN ms /\ DOMAIN ds = DOMAIN ms
  /\ \A m \in DOMAIN ms : IsTable(ts[m]) /\ IndexesFit(ts[m]) /\ Fits(ts[m], ms[m], ds[m])

\* The model of the table that a remake makes.
Moves(r) == r.target \in Tables
Model(r) == IF Moves(r) THEN r.target ELSE r.table

\* The rows of T, put through the mapping of a remake, are those of the model as it is to be.
Copies(r, T, M, D) ==
  LET fields == ReplacementFields(r) mapping == Mapping(r)
  IN /\ fields \in {M, Rendered(M)}
     /\ DOMAIN mapping \subseteq DOMAIN fields
     /\ \A n \in DOMAIN mapping : mapping[n].column \in DOMAIN T.columns \union {"none"}
     /\ DOMAIN T.rows = DOMAIN D
     /\ \A row \in DOMAIN D :
          /\ DOMAIN D[row] = DOMAIN M
          /\ \A n \in DOMAIN M :
               n \in DOMAIN fields /\ CellOf(n, fields, mapping, T.rows[row]) = D[row][n]
          /\ \A n \in DOMAIN fields : CellOf(n, fields, mapping, T.rows[row]) = "null" => fields[n].null

HoldsIn(T, rows) ==
  /\ DOMAIN T.rows = DOMAIN rows
  /\ \A r \in DOMAIN rows : \A n \in DOMAIN rows[r] : n \in DOMAIN T.columns /\ T.rows[r][n] = rows[r][n]

\* Where the rows of the table being remade are, statement by statement.
Making(r) ==
  LET m == Model(r) others == DOMAIN models \ {m}
  IN /\ m \in DOMAIN models /\ r.table \in Tables
     /\ \/ Moves(r) /\ r.table \in Throughs /\ r.target \in Throughs \ {r.table}
        \/ r.target = Replacement(r.table)
     /\ step = "create" => /\ DOMAIN tables = others \union {r.table}
                           /\ Copies(r, tables[r.table], models[m], data[m])
                           /\ HoldsIn(tables[r.table], before[m])
     /\ step = "copy" => /\ DOMAIN tables = others \union {r.table, r.target}
                         /\ tables[r.target].columns = ReplacementFields(r)
                         /\ Copies(r, tables[r.table], models[m], data[m])
                         /\ HoldsIn(tables[r.table], before[m])
     /\ step = "drop" => /\ DOMAIN tables = others \union {r.table, r.target}
                         /\ Fits(tables[r.target], models[m], data[m])
     /\ step = "rename" => /\ DOMAIN tables = others \union {r.target} /\ ~Moves(r)
                           /\ Fits(tables[r.target], models[m], data[m])
     /\ step = "deferred" => /\ DOMAIN tables = DOMAIN models /\ ~Moves(r)
                             /\ Fits(tables[m], models[m], data[m])

\* A table that is remade next, since its foreign key refers to a column with a new name.
Waiting(r) ==
  /\ r.table \in DOMAIN models \ {"parent"} /\ r.target = Replacement(r.table)
  /\ Copies(r, tables[r.table], models[r.table], data[r.table])
  /\ HoldsIn(tables[r.table], data[r.table])

Rest(names) == \A m \in DOMAIN models \ names : Fits(tables[m], models[m], data[m])

RemakesOK ==
  \/ remakes = <<>> /\ DOMAIN tables = DOMAIN models /\ Rest({})
  \/ \E r : remakes = <<r>> /\ Making(r) /\ Rest({Model(r)})
  \/ \E r, s : remakes = <<r, s>> /\ r.table = "parent" /\ Making(r) /\ Waiting(s)

\* The deferred statements are the indexes that the tables lack, each of them once.
Indexed(ts, sql) ==
  /\ sql \in Seq(Statements)
  /\ Distinct(sql)
  /\ \A s \in Range(sql) :
       s.table \in DOMAIN ts /\ s.column \in DOMAIN ts[s.table].columns \ ts[s.table].indexes
  /\ \A t \in DOMAIN ts : \A n \in DOMAIN ts[t].columns :
       IsIndexed(ts[t].columns[n]) <=> n \in ts[t].indexes \/ [table |-> t, column |-> n] \in Range(sql)

IndexesOK == Indexed(tables, deferred_sql)

Remaking == step \in {"create", "copy", "drop", "rename", "deferred"}

Shape ==
  /\ DOMAIN tables \subseteq AllTables
  /\ \A t \in DOMAIN tables : IsTable(tables[t])
  /\ AreModels(models)
  /\ DOMAIN data = DOMAIN models /\ DOMAIN before = DOMAIN models
  /\ step \in {"outside", "editing", "create", "copy", "drop", "rename", "deferred", "exit", "failed"}
  /\ Remaking <=> remakes # <<>>
  /\ step \in {"outside", "failed"} => deferred_sql = <<>>
  /\ atomic_migration \in BOOLEAN
  /\ operations \in 0..MaxOperations

Saved == Settled(snapshot.tables, snapshot.models, snapshot.data)

RemakeInv ==
  /\ Shape
  /\ step # "failed" => RemakesOK /\ IndexesOK
  /\ step = "failed" => RowsSurvive
  /\ Saved
  /\ refused = FALSE
--------------------------------------------------------------------------------
(* Functions, and what a model is rendered as.                                 *)

LEMMA WithoutIs ==
  ASSUME NEW f, NEW x
  PROVE  /\ DOMAIN Without(f, x) = DOMAIN f \ {x}
         /\ \A y \in DOMAIN f \ {x} : Without(f, x)[y] = f[y]
  BY DEF Without

RenamesTo(f, old, new, g) ==
  /\ DOMAIN g = (DOMAIN f \ {old}) \union {new}
  /\ g[new] = f[old]
  /\ \A x \in DOMAIN f \ {old} : g[x] = f[x]
  /\ g = [x \in DOMAIN g |-> g[x]]

LEMMA RenamedIs ==
  ASSUME NEW f, NEW old, NEW new, new \notin DOMAIN f \ {old}
  PROVE  RenamesTo(f, old, new, Renamed(f, old, new))
<1> DEFINE g == Without(f, old)
<1>1. DOMAIN g = DOMAIN f \ {old} /\ \A y \in DOMAIN f \ {old} : g[y] = f[y]
  BY WithoutIs
<1> HIDE DEF g
<1>2. Renamed(f, old, new) = g ++ Only(new, f[old])
  BY DEF Renamed, g
<1>3. /\ DOMAIN (g ++ Only(new, f[old])) = DOMAIN g \union {new}
      /\ \A z \in DOMAIN g : (g ++ Only(new, f[old]))[z] = g[z]
      /\ (g ++ Only(new, f[old]))[new] = f[old]
  <2>1. new \notin DOMAIN g
    BY <1>1
  <2> DEFINE v == f[old]
  <2> HIDE DEF v
  <2>2. /\ DOMAIN (g ++ Only(new, v)) = DOMAIN g \union {new}
        /\ \A z \in DOMAIN g : (g ++ Only(new, v))[z] = g[z]
        /\ (g ++ Only(new, v))[new] = v
    BY <2>1 DEF ++, Only
  <2> QED
    BY <2>2 DEF v
<1>4. Renamed(f, old, new) = [x \in DOMAIN Renamed(f, old, new) |-> Renamed(f, old, new)[x]]
  BY DEF Renamed, ++
<1> QED
  BY <1>1, <1>2, <1>3, <1>4 DEF RenamesTo

LEMMA ReplacementIs ==
  /\ \A t \in Tables : Replacement(t) \notin Tables
  /\ \A t, u \in Tables : Replacement(t) = Replacement(u) => t = u
  BY DEF Tables, Throughs, Replacement

LEMMA StepAfterIs ==
  /\ StepAfter("create") = "copy" /\ StepAfter("copy") = "drop"
  /\ StepAfter("drop") = "rename" /\ StepAfter("rename") = "deferred"
  BY DEF StepAfter

LEMMA CellIs ==
  ASSUME NEW n, NEW f, NEW map, NEW cells
  PROVE  CellOf(n, f, map, cells) =
           IF n \in DOMAIN map
           THEN IF map[n].column # "none" /\ cells[map[n].column] # "null"
                THEN cells[map[n].column] ELSE map[n].default
           ELSE IF f[n].auto THEN "id" ELSE IF f[n].db_default THEN "db_default" ELSE "null"
  BY DEF CellOf

\* No column is called what stands for a column or a value that there is not.
LEMMA ColumnNames == \A n \in AllColumns : n # "none" /\ n # "null"
<1>1. \A n \in Names : n # "none" /\ n # "null"
  BY RemakeAssumption
<1> QED
  BY <1>1 DEF AllColumns, Peers

LEMMA IdIs ==
  Id \in Field /\ Id.pk /\ Id.auto /\ ~Id.null /\ Id.unique /\ ~Id.index /\ ~IsIndexed(Id) /\ Id.to = "none"
  BY DEF Id, Field, IsIndexed

LEMMA RenderedIs ==
  ASSUME NEW M, IsModel(M)
  PROVE  /\ (\E n \in DOMAIN M : M[n].pk) => Rendered(M) = M
         /\ (\A n \in DOMAIN M : ~M[n].pk) => "id" \notin DOMAIN M /\ DOMAIN Rendered(M) = DOMAIN M \union {"id"}
         /\ \A n \in DOMAIN M : n \in DOMAIN Rendered(M) /\ Rendered(M)[n] = M[n]
         /\ \A n \in DOMAIN Rendered(M) \ DOMAIN M : n = "id"
         /\ "id" \in DOMAIN Rendered(M) => Rendered(M)["id"] = Id
         /\ \E n \in DOMAIN Rendered(M) : Rendered(M)[n].pk
         /\ IsModel(Rendered(M)) /\ Rendered(Rendered(M)) = Rendered(M)
<1>0. Id \in Field /\ Id.pk /\ Id.unique /\ ~Id.null /\ Id.to = "none"
  BY IdIs
<1>1. CASE \E n \in DOMAIN M : M[n].pk
  <2>1. Rendered(M) = M
    BY <1>1 DEF Rendered
  <2> QED
    BY <1>1, <2>1 DEF IsModel
<1>2. CASE \A n \in DOMAIN M : ~M[n].pk
  <2>1. Rendered(M) = Only("id", Id) ++ M
    BY <1>2 DEF Rendered
  <2>2. "id" \notin DOMAIN M
    BY <1>0, <1>2 DEF IsModel
  <2>3. /\ DOMAIN Rendered(M) = DOMAIN M \union {"id"} /\ Rendered(M)["id"] = Id
        /\ \A n \in DOMAIN M : Rendered(M)[n] = M[n]
        /\ Rendered(M) = [n \in DOMAIN Rendered(M) |-> Rendered(M)[n]]
    BY <2>1, <2>2 DEF Only, ++
  <2>4. IsModel(Rendered(M))
    <3>1. DOMAIN Rendered(M) \subseteq AllColumns
      BY <2>3 DEF IsModel, AllColumns
    <3>2. Rendered(M) \in [DOMAIN Rendered(M) -> Field]
      BY <1>0, <2>3 DEF IsModel
    <3>3. \A n, m \in DOMAIN Rendered(M) : Rendered(M)[n].pk /\ Rendered(M)[m].pk => n = m
      BY <1>2, <2>3
    <3>4. ASSUME NEW n \in DOMAIN Rendered(M)
          PROVE  /\ Rendered(M)[n].pk => Rendered(M)[n].unique /\ ~Rendered(M)[n].null
                 /\ Rendered(M)[n].auto => n = "id"
                 /\ n # "ref" => Rendered(M)[n].to = "none"
      BY <1>0, <2>3 DEF IsModel
    <3> QED
      BY <2>3, <3>1, <3>2, <3>3, <3>4 DEF IsModel
  <2>5. \E n \in DOMAIN Rendered(M) : Rendered(M)[n].pk
    BY <1>0, <2>3
  <2>6. Rendered(Rendered(M)) = Rendered(M)
    <3> DEFINE R == Rendered(M)
    <3>1. \E n \in DOMAIN R : R[n].pk
      BY <2>5
    <3> HIDE DEF R
    <3>2. Rendered(R) = R
      BY <3>1 DEF Rendered
    <3> QED
      BY <3>2 DEF R
  <2> QED
    BY <1>2, <2>2, <2>3, <2>4, <2>5, <2>6
<1> QED
  BY <1>1, <1>2

LEMMA RenderedKeeps ==
  ASSUME NEW M, IsModel(M)
  PROVE  /\ \A n \in DOMAIN M : n \in DOMAIN Rendered(M) /\ Rendered(M)[n] = M[n]
         /\ \A n \in DOMAIN Rendered(M) \ DOMAIN M : n = "id"
         /\ "id" \in DOMAIN Rendered(M) => Rendered(M)["id"] = Id
<1> DEFINE R == Rendered(M)
<1>1. /\ \A n \in DOMAIN M : n \in DOMAIN R /\ R[n] = M[n]
      /\ \A n \in DOMAIN R \ DOMAIN M : n = "id"
      /\ "id" \in DOMAIN R => R["id"] = Id
  <2> HIDE DEF R
  <2> QED
    BY RenderedIs DEF R
<1> QED
  BY <1>1

LEMMA RenderedHasKey ==
  ASSUME NEW M, IsModel(M)
  PROVE  \E n \in DOMAIN Rendered(M) : Rendered(M)[n].pk
<1> DEFINE R == Rendered(M)
<1>1. \E n \in DOMAIN R : R[n].pk
  <2> HIDE DEF R
  <2> QED
    BY RenderedIs DEF R
<1> QED
  BY <1>1

\* A table with a key is what its model is rendered as.
LEMMA KeyRenders ==
  ASSUME NEW M, NEW C, IsModel(M), C \in {M, Rendered(M)}, \E n \in DOMAIN C : C[n].pk
  PROVE  C = Rendered(M)
  BY RenderedIs
--------------------------------------------------------------------------------
(* The mapping of a remake.                                                    *)

Merging(f, k, S) ==
  f = [s \in SUBSET S |-> IF s = {} THEN k ELSE (CHOOSE x \in s : TRUE) ++ f[s \ {CHOOSE x \in s : TRUE}]]

LEMMA FoldIs ==
  ASSUME NEW k, NEW S
  PROVE  FoldSet(LAMBDA f, g : f ++ g, k, S) = (CHOOSE f : Merging(f, k, S))[S]
  BY DEF FoldSet, MapThenFoldSet, Merging

LEMMA FoldNothing ==
  ASSUME NEW k
  PROVE  FoldSet(LAMBDA f, g : f ++ g, k, {}) = k
<1> DEFINE F == CHOOSE f : Merging(f, k, {})
           g == [s \in SUBSET {} |-> k]
<1>1. Merging(g, k, {})
  BY DEF Merging
<1>2. Merging(F, k, {})
  BY <1>1
<1> HIDE DEF F
<1>3. F[{}] = k
  BY <1>2 DEF Merging
<1> QED
  BY <1>3, FoldIs DEF F

LEMMA FoldOne ==
  ASSUME NEW k, NEW x
  PROVE  FoldSet(LAMBDA f, g : f ++ g, k, {x}) = x ++ k
<1> DEFINE F == CHOOSE f : Merging(f, k, {x})
           g == [s \in SUBSET {x} |-> IF s = {} THEN k ELSE x ++ k]
<1>0. (\A s \in SUBSET {x} : s = {} \/ s = {x}) /\ (CHOOSE y \in {x} : TRUE) = x /\ {x} \ {x} = {}
  OBVIOUS
<1>1. Merging(g, k, {x})
  <2>1. ASSUME NEW s \in SUBSET {x}
        PROVE  g[s] = IF s = {} THEN k ELSE (CHOOSE y \in s : TRUE) ++ g[s \ {CHOOSE y \in s : TRUE}]
    <3>1. g[{}] = k /\ g[{x}] = x ++ k
      OBVIOUS
    <3> HIDE DEF g
    <3>2. CASE s = {}
      BY <3>1, <3>2
    <3>3. CASE s = {x}
      BY <1>0, <3>1, <3>3
    <3> QED
      BY <1>0, <3>2, <3>3
  <2> QED
    BY <2>1 DEF Merging
<1>2. Merging(F, k, {x})
  BY <1>1
<1> HIDE DEF F
<1>3. \A s \in SUBSET {x} : F[s] = IF s = {} THEN k ELSE (CHOOSE y \in s : TRUE) ++ F[s \ {CHOOSE y \in s : TRUE}]
  BY <1>2 DEF Merging
<1>4. F[{}] = k
  BY <1>3
<1>5. F[{x}] = x ++ k
  BY <1>0, <1>3, <1>4
<1> QED
  BY <1>5, FoldIs DEF F

LEMMA FoldTwo ==
  ASSUME NEW k, NEW x, NEW y, x # y
  PROVE  FoldSet(LAMBDA f, g : f ++ g, k, {x, y}) \in {x ++ (y ++ k), y ++ (x ++ k)}
<1> DEFINE F == CHOOSE f : Merging(f, k, {x, y})
           c == CHOOSE z \in {x, y} : TRUE
           d == IF c = x THEN y ELSE x
           g == [s \in SUBSET {x, y} |->
                   IF s = {} THEN k ELSE IF s = {x} THEN x ++ k ELSE IF s = {y} THEN y ++ k ELSE c ++ (d ++ k)]
<1>0. /\ \A s \in SUBSET {x, y} : s = {} \/ s = {x} \/ s = {y} \/ s = {x, y}
      /\ (CHOOSE z \in {x} : TRUE) = x /\ (CHOOSE z \in {y} : TRUE) = y
      /\ {x} \ {x} = {} /\ {y} \ {y} = {}
      /\ c \in {x, y} /\ {x, y} \ {c} = {d} /\ d \in {x, y} /\ d # c
  <2>1. \A s \in SUBSET {x, y} : s = {} \/ s = {x} \/ s = {y} \/ s = {x, y}
    <3> SUFFICES ASSUME NEW s \in SUBSET {x, y}, s # {}, s # {x}, s # {y} PROVE s = {x, y}
      OBVIOUS
    <3>1. \A z \in s : z = x \/ z = y
      OBVIOUS
    <3>2. x \in s
      BY <3>1
    <3>3. y \in s
      BY <3>1
    <3> QED
      BY <3>1, <3>2, <3>3
  <2>2. (CHOOSE z \in {x} : TRUE) = x /\ (CHOOSE z \in {y} : TRUE) = y /\ {x} \ {x} = {} /\ {y} \ {y} = {}
    OBVIOUS
  <2>3. c \in {x, y}
    OBVIOUS
  <2> HIDE DEF c
  <2>4. {x, y} \ {c} = {d} /\ d \in {x, y} /\ d # c
    BY <2>3
  <2> QED
    BY <2>1, <2>2, <2>3, <2>4
<1>1. Merging(g, k, {x, y})
  <2>1. ASSUME NEW s \in SUBSET {x, y}
        PROVE  g[s] = IF s = {} THEN k ELSE (CHOOSE z \in s : TRUE) ++ g[s \ {CHOOSE z \in s : TRUE}]
    <3>1. g[{}] = k /\ g[{x}] = x ++ k /\ g[{y}] = y ++ k /\ g[{x, y}] = c ++ (d ++ k)
      <4>1. {x} # {} /\ {y} # {} /\ {x, y} # {} /\ {x} # {y} /\ {x, y} # {x} /\ {x, y} # {y}
        OBVIOUS
      <4>2. {} \in SUBSET {x, y} /\ {x} \in SUBSET {x, y} /\ {y} \in SUBSET {x, y} /\ {x, y} \in SUBSET {x, y}
        OBVIOUS
      <4> HIDE DEF c, d
      <4> QED
        BY <4>1, <4>2
    <3> HIDE DEF g
    <3>2. CASE s = {}
      BY <3>1, <3>2
    <3>3. CASE s = {x}
      BY <1>0, <3>1, <3>3
    <3>4. CASE s = {y}
      BY <1>0, <3>1, <3>4
    <3>5. CASE s = {x, y}
      <4>1. g[{x, y} \ {c}] = d ++ k
        <5> HIDE DEF c, d
        <5> QED
          BY <1>0, <3>1
      <4>2. g[{x, y}] = c ++ g[{x, y} \ {c}] /\ {x, y} # {}
        <5>1. {x, y} # {}
          OBVIOUS
        <5> HIDE DEF c, d
        <5> QED
          BY <3>1, <4>1, <5>1
      <4> QED
        BY <3>5, <4>2 DEF c
    <3> QED
      BY <1>0, <3>2, <3>3, <3>4, <3>5
  <2> QED
    BY <2>1 DEF Merging
<1>2. Merging(F, k, {x, y})
  BY <1>1
<1> HIDE DEF F, g
<1>3. \A s \in SUBSET {x, y} : F[s] = IF s = {} THEN k ELSE (CHOOSE z \in s : TRUE) ++ F[s \ {CHOOSE z \in s : TRUE}]
  BY <1>2 DEF Merging
<1>4. F[{}] = k
  BY <1>3
<1>5. F[{x}] = x ++ k /\ F[{y}] = y ++ k
  BY <1>0, <1>3, <1>4
<1>6. F[{x, y}] = c ++ F[{x, y} \ {c}]
  BY <1>3
<1> HIDE DEF c, d
<1>7. F[{x, y}] = c ++ F[{d}]
  BY <1>0, <1>6
<1>8. F[{x, y}] \in {x ++ (y ++ k), y ++ (x ++ k)}
  BY <1>0, <1>5, <1>7
<1> QED
  BY <1>8, FoldIs DEF F
--------------------------------------------------------------------------------
(* What a remake makes of its model and of a row.                              *)

\* A remake leaves a field alone that it does not delete or alter, but for an automatic key
\* that it replaces.
LEMMA StaysAre ==
  ASSUME NEW r, IsModel(r.fields), \A a \in r.altered : a.name # "id"
  PROVE  Stays(r) = DOMAIN Rendered(r.fields) \
           ((IF GivesKey(r) THEN {"id"} ELSE {}) \union (r.deleted \union {a.old : a \in r.altered}))
<1> DEFINE R == Rendered(r.fields)
           replaced == {n \in DOMAIN R : GivesKey(r) /\ R[n].pk /\ R[n].auto /\ \A a \in r.altered : a.name # n}
           D == r.deleted \union {a.old : a \in r.altered}
<1>1. IsModel(R)
  BY RenderedIs
<1>2. Stays(r) = DOMAIN R \ (replaced \union r.deleted \union {a.old : a \in r.altered})
  BY DEF Stays
<1>3. \A n \in DOMAIN R : n \in replaced <=> GivesKey(r) /\ n = "id"
  <2> HIDE DEF R
  <2>1. \A n \in DOMAIN R : R[n].auto => n = "id"
    BY <1>1 DEF IsModel
  <2>2. "id" \in DOMAIN R => R["id"].pk /\ R["id"].auto
    BY <1>1, IdIs DEF IsModel
  <2> QED
    BY <2>1, <2>2
<1> HIDE DEF R, replaced
<1> QED
  BY <1>2, <1>3 DEF R

ComposedOf(B, kept, S, created, altered) ==
  /\ DOMAIN B = S \union DOMAIN created \union DOMAIN altered
  /\ \A n \in S : B[n] = kept[n]
  /\ \A n \in DOMAIN created \ S : B[n] = created[n]
  /\ \A n \in DOMAIN altered \ (S \union DOMAIN created) : B[n] = altered[n]
  /\ B = [n \in DOMAIN B |-> B[n]]

KeysStay(r) == GivesKey(r) => \A n \in Stays(r) : ~Rendered(r.fields)[n].pk

LEMMA BodyIs ==
  ASSUME NEW r, IsModel(r.fields), KeysStay(r)
  PROVE  ComposedOf(Body(r), Rendered(r.fields), Stays(r), New(r.created), New(r.altered))
<1> DEFINE R == Rendered(r.fields)
           B == [n \in Stays(r) |-> [R[n] EXCEPT !.pk = @ /\ ~GivesKey(r)]]
           C == New(r.created)
           A == New(r.altered)
<1>1. IsModel(R)
  BY RenderedIs
<1>2. Body(r) = (B ++ C) ++ A
  BY DEF Body
<1>3. Stays(r) \subseteq DOMAIN R
  BY DEF Stays
<1>4. \A n \in Stays(r) : R[n] \in Field
  BY <1>1, <1>3 DEF IsModel
<1>5. \A n \in Stays(r) : R[n].pk \in BOOLEAN /\ (GivesKey(r) => ~R[n].pk)
  BY <1>4 DEF Field, KeysStay
<1>6. \A n \in Stays(r) : (R[n].pk /\ ~GivesKey(r)) = R[n].pk
  BY <1>5
<1>7. DOMAIN B = Stays(r) /\ \A n \in Stays(r) : B[n] = R[n]
  <2> HIDE DEF R
  <2>1. \A n \in Stays(r) : B[n] = [R[n] EXCEPT !.pk = R[n].pk /\ ~GivesKey(r)]
    OBVIOUS
  <2>2. \A n \in Stays(r) : [R[n] EXCEPT !.pk = R[n].pk] = R[n]
    BY <1>4 DEF Field
  <2> QED
    BY <1>6, <2>1, <2>2
<1> HIDE DEF B, C, A
<1>8. /\ DOMAIN ((B ++ C) ++ A) = DOMAIN B \union DOMAIN C \union DOMAIN A
      /\ \A n \in DOMAIN B : ((B ++ C) ++ A)[n] = B[n]
      /\ \A n \in DOMAIN C \ DOMAIN B : ((B ++ C) ++ A)[n] = C[n]
      /\ \A n \in DOMAIN A \ (DOMAIN B \union DOMAIN C) : ((B ++ C) ++ A)[n] = A[n]
      /\ (B ++ C) ++ A = [n \in DOMAIN ((B ++ C) ++ A) |-> ((B ++ C) ++ A)[n]]
  BY DEF ++
<1> QED
  BY <1>2, <1>7, <1>8 DEF A, C, ComposedOf

TwoNew(N, a, b) == DOMAIN N = {a.name, b.name} /\ N[a.name] = a.field /\ N[b.name] = b.field

LEMMA NewIs ==
  ASSUME NEW a, NEW b, a.name # b.name
  PROVE  TwoNew(New({a, b}), a, b)
<1>1. (CHOOSE c \in {a, b} : c.name = a.name) = a /\ (CHOOSE c \in {a, b} : c.name = b.name) = b
  OBVIOUS
<1> QED
  BY <1>1 DEF New, TwoNew

KeptIn(r) == [n \in Stays(r) |-> Expression(n, "null")]

LEMMA MappingIs ==
  ASSUME NEW r
  PROVE  /\ r.created = {} /\ r.altered = {} => Mapping(r) = KeptIn(r)
         /\ \A c : r.created = {c} /\ r.altered = {} => Mapping(r) = MappingOfCreated(c) ++ KeptIn(r)
         /\ \A a : r.created = {} /\ r.altered = {a} =>
              Mapping(r) = MappingOfAltered(a, Rendered(r.fields)) ++ KeptIn(r)
<1> DEFINE P == {MappingOfCreated(c) : c \in r.created}
                \union {MappingOfAltered(a, Rendered(r.fields)) : a \in r.altered}
           K == KeptIn(r)
<1>1. Mapping(r) = FoldSet(LAMBDA f, g : f ++ g, K, P)
  BY DEF Mapping, KeptIn
<1>2. ASSUME r.created = {}, r.altered = {} PROVE Mapping(r) = K
  <2>1. P = {}
    BY <1>2
  <2> QED
    BY <1>1, <2>1, FoldNothing
<1>3. ASSUME NEW c, r.created = {c}, r.altered = {} PROVE Mapping(r) = MappingOfCreated(c) ++ K
  <2>1. P = {MappingOfCreated(c)}
    BY <1>3
  <2> QED
    BY <1>1, <2>1, FoldOne
<1>4. ASSUME NEW a, r.created = {}, r.altered = {a}
      PROVE  Mapping(r) = MappingOfAltered(a, Rendered(r.fields)) ++ K
  <2>1. P = {MappingOfAltered(a, Rendered(r.fields))}
    BY <1>4
  <2> QED
    BY <1>1, <2>1, FoldOne
<1> QED
  BY <1>2, <1>3, <1>4

LEMMA KeptCell ==
  ASSUME NEW n \in AllColumns, NEW fields, NEW map, NEW cells, n \in DOMAIN map, map[n] = Expression(n, "null")
  PROVE  CellOf(n, fields, map, cells) = cells[n]
<1>1. n # "none"
  BY ColumnNames
<1>2. map[n].column = n /\ map[n].default = "null"
  BY DEF Expression
<1> QED
  BY <1>1, <1>2, CellIs

\* A remake without a change copies the rows.
LEMMA UnchangedCopies ==
  ASSUME NEW M, NEW T, NEW D, NEW r, IsModel(M), HasRows(T, M, D),
         r.fields = M, r.created = {}, r.deleted = {}, r.altered = {},
         DOMAIN T.columns = DOMAIN Rendered(M),
         \A n \in DOMAIN T.columns : T.columns[n].null = Rendered(M)[n].null
  PROVE  Copies(r, T, M, D) /\ ReplacementFields(r) = Rendered(M)
<1> DEFINE R == Rendered(M)
<1>0. IsModel(R) /\ Rendered(R) = R /\ DOMAIN M \subseteq DOMAIN R /\ \A n \in DOMAIN M : R[n] = M[n]
  <2>1. IsModel(R) /\ Rendered(R) = R
    BY RenderedIs
  <2>2. \A n \in DOMAIN M : n \in DOMAIN R /\ R[n] = M[n]
    BY RenderedKeeps
  <2> QED
    BY <2>1, <2>2
<1>1. ~GivesKey(r)
  BY DEF GivesKey
<1>2. Stays(r) = DOMAIN R
  BY <1>1, StaysAre
<1>3. Body(r) = R
  <2>1. /\ DOMAIN Body(r) = DOMAIN R /\ \A n \in DOMAIN R : Body(r)[n] = R[n]
        /\ Body(r) = [n \in DOMAIN Body(r) |-> Body(r)[n]]
    <3>1. DOMAIN New(r.created) = {} /\ DOMAIN New(r.altered) = {}
      BY DEF New
    <3>2. ComposedOf(Body(r), R, DOMAIN R, New(r.created), New(r.altered))
      BY <1>1, <1>2, BodyIs DEF KeysStay
    <3> QED
      BY <3>1, <3>2 DEF ComposedOf
  <2>2. R = [n \in DOMAIN R |-> R[n]]
    BY <1>0 DEF IsModel
  <2> QED
    BY <2>1, <2>2
<1>4. ReplacementFields(r) = R
  BY <1>0, <1>3 DEF ReplacementFields
<1>5. Mapping(r) = [n \in DOMAIN R |-> Expression(n, "null")]
  BY <1>2, MappingIs DEF KeptIn
<1>6. \A n \in DOMAIN R : n \in AllColumns
  BY <1>0 DEF IsModel
<1> DEFINE map == Mapping(r)
<1>7. DOMAIN map = DOMAIN R /\ \A n \in DOMAIN R : map[n] = Expression(n, "null") /\ map[n].column = n
  BY <1>5 DEF Expression
<1> HIDE DEF R, map
<1>8. \A n \in DOMAIN R : \A cells : CellOf(n, R, map, cells) = cells[n]
  BY <1>6, <1>7, KeptCell
<1>9. \A row \in DOMAIN D : \A n \in DOMAIN R : T.rows[row][n] = "null" => R[n].null
  BY DEF HasRows, R
<1>10. DOMAIN T.columns = DOMAIN R
  BY DEF R
<1>11. R \in {M, Rendered(M)}
  BY DEF R
<1>12. DOMAIN T.rows = DOMAIN D /\ \A row \in DOMAIN D : DOMAIN D[row] = DOMAIN M
  BY DEF HasRows
<1>13. \A row \in DOMAIN D : \A n \in DOMAIN M : n \in DOMAIN R /\ CellOf(n, R, map, T.rows[row]) = D[row][n]
  BY <1>0, <1>8 DEF HasRows
<1>14. Copies(r, T, M, D)
  BY <1>4, <1>7, <1>8, <1>9, <1>10, <1>11, <1>12, <1>13 DEF Copies, map
<1> QED
  BY <1>4, <1>14 DEF R

\* A remake copies every column that stays as it is, and gives every other column what it
\* is to have.
CopiesBy(T, M, D, F, map, S) ==
  /\ F \in {M, Rendered(M)}
  /\ S \subseteq DOMAIN F /\ DOMAIN M \subseteq DOMAIN F /\ DOMAIN map \subseteq DOMAIN F
  /\ \A n \in S : /\ n \in AllColumns /\ n \in DOMAIN map /\ map[n] = Expression(n, "null")
                  /\ n \in DOMAIN T.columns /\ T.columns[n].null = F[n].null
  /\ \A n \in DOMAIN map \ S : map[n].column \in DOMAIN T.columns \union {"none"}
  /\ DOMAIN T.rows = DOMAIN D
  /\ \A row \in DOMAIN D :
       /\ DOMAIN D[row] = DOMAIN M
       /\ \A n \in S : /\ T.rows[row][n] = "null" => T.columns[n].null
                       /\ n \in DOMAIN M => T.rows[row][n] = D[row][n]
       /\ \A n \in DOMAIN F \ S : /\ CellOf(n, F, map, T.rows[row]) = "null" => F[n].null
                                  /\ n \in DOMAIN M => CellOf(n, F, map, T.rows[row]) = D[row][n]

LEMMA Copied ==
  ASSUME NEW r, NEW T, NEW M, NEW D, NEW S, CopiesBy(T, M, D, ReplacementFields(r), Mapping(r), S)
  PROVE  Copies(r, T, M, D)
<1> DEFINE F == ReplacementFields(r)
           map == Mapping(r)
<1>0. CopiesBy(T, M, D, F, map, S)
  OBVIOUS
<1> HIDE DEF F, map
<1> USE <1>0 DEF CopiesBy
<1>1. \A n \in S : \A cells : CellOf(n, F, map, cells) = cells[n]
  BY KeptCell
<1>2. \A n \in DOMAIN map : map[n].column \in DOMAIN T.columns \union {"none"}
  <2> SUFFICES ASSUME NEW n \in DOMAIN map PROVE map[n].column \in DOMAIN T.columns \union {"none"}
    OBVIOUS
  <2>1. CASE n \in S
    <3>1. map[n] = Expression(n, "null") /\ n \in DOMAIN T.columns
      BY <2>1
    <3>2. map[n].column = n
      BY <3>1 DEF Expression
    <3> QED
      BY <3>1, <3>2
  <2> QED
    BY <2>1
<1>3. \A row \in DOMAIN D : \A n \in DOMAIN M :
        n \in DOMAIN F /\ CellOf(n, F, map, T.rows[row]) = D[row][n]
  BY <1>1
<1>4. \A row \in DOMAIN D : \A n \in DOMAIN F : CellOf(n, F, map, T.rows[row]) = "null" => F[n].null
  BY <1>1
<1> QED
  BY <1>2, <1>3, <1>4 DEF Copies, F, map

\* Where a value is NULL its field allows that.
LEMMA NullsAllowed ==
  ASSUME NEW M, NEW T, NEW D, IsModel(M), Fits(T, M, D), NEW row \in DOMAIN D, NEW n \in DOMAIN M
  PROVE  /\ T.columns[n] = M[n] /\ n \in DOMAIN T.columns
         /\ T.rows[row][n] = D[row][n]
         /\ D[row][n] = "null" => M[n].null
<1>1. n \in DOMAIN T.columns /\ T.rows[row][n] = D[row][n] /\ (T.rows[row][n] = "null" => T.columns[n].null)
  BY DEF Fits, HasRows
<1>2. T.columns[n] = M[n]
  <2>1. Rendered(M)[n] = M[n]
    BY RenderedKeeps
  <2> QED
    BY <2>1 DEF Fits
<1> QED
  BY <1>1, <1>2

LEMMA DefaultIs ==
  ASSUME NEW field
  PROVE  /\ AnyDefault(field) = IF field.db_default THEN "db_default" ELSE EffectiveDefault(field)
         /\ EffectiveDefault(field) = "null" => field.null
         /\ AnyDefault(field) = "null" => field.null
  BY DEF AnyDefault, EffectiveDefault

\* What the operations on a model have in common.
OneKey(M) == \A n, m \in DOMAIN M : M[n].pk /\ M[m].pk => n = m

KeepsKey(r, T) == GivesKey(r) \/ \E n \in DOMAIN T.columns : T.columns[n].pk

Changes(r, M, created, deleted, altered) ==
  r.fields = M /\ r.created = created /\ r.deleted = deleted /\ r.altered = altered

RowsGrown(D1, D, M, M1, name, field) ==
  /\ DOMAIN D1 = DOMAIN D
  /\ \A row \in DOMAIN D :
       /\ DOMAIN D1[row] = DOMAIN M1
       /\ \A n \in DOMAIN M : D1[row][n] = D[row][n]
       /\ D1[row][name] = AnyDefault(field)

\* A model with one more field.
LEMMA Grown ==
  ASSUME NEW M, IsModel(M), NEW name \in Names, name \notin DOMAIN M,
         NEW field \in Field, ~field.auto, field.to = "none", field.pk => field.unique /\ ~field.null,
         NEW M1, M1 = [n \in DOMAIN M1 |-> M1[n]],
         DOMAIN M1 = DOMAIN M \union {name}, M1[name] = field, \A n \in DOMAIN M : M1[n] = M[n], OneKey(M1)
  PROVE  IsModel(M1) /\ name # "id" /\ name \in AllColumns
<1> USE DEF OneKey
<1>3. name # "id" /\ name # "ref" /\ name \in AllColumns
  BY RemakeAssumption DEF AllColumns
<1>4. DOMAIN M1 \subseteq AllColumns
  BY <1>3 DEF IsModel
<1>5. M1 \in [DOMAIN M1 -> Field]
  BY DEF IsModel
<1>6. \A n \in DOMAIN M1 : /\ M1[n].pk => M1[n].unique /\ ~M1[n].null
                           /\ M1[n].auto => n = "id"
                           /\ n # "ref" => M1[n].to = "none"
  BY DEF IsModel
<1>7. "id" \in DOMAIN M1 => M1["id"] = Id
  BY <1>3 DEF IsModel
<1> QED
  BY <1>3, <1>4, <1>5, <1>6, <1>7 DEF IsModel

\* add_field(): a remake with one more column, which gets the default.
LEMMA AddCopies ==
  ASSUME NEW M, NEW T, NEW D, NEW r, NEW M1, NEW D1, NEW name \in Names,
         NEW field \in Field, ~field.auto, field.to = "none", field.pk => field.unique /\ ~field.null,
         IsModel(M), Fits(T, M, D), name \notin DOMAIN M, M1 = M ++ Only(name, field),
         Changes(r, M, {[name |-> name, field |-> field]}, {}, {}), OneKey(M1), KeepsKey(r, T),
         RowsGrown(D1, D, M, M1, name, field)
  PROVE  Copies(r, T, M1, D1)
<1> USE DEF Changes, OneKey, KeepsKey, RowsGrown
<1> DEFINE R == Rendered(M)
           F == ReplacementFields(r)
           map == Mapping(r)
           S == Stays(r)
           c == [name |-> name, field |-> field]
<1>1. /\ IsModel(M1)
      /\ DOMAIN M1 = DOMAIN M \union {name} /\ M1[name] = field /\ \A n \in DOMAIN M : M1[n] = M[n]
      /\ name # "id" /\ name \in AllColumns
  <2>1. /\ DOMAIN M1 = DOMAIN M \union {name} /\ M1[name] = field /\ \A n \in DOMAIN M : M1[n] = M[n]
        /\ M1 = [n \in DOMAIN M1 |-> M1[n]]
    BY DEF ++, Only
  <2>2. IsModel(M1) /\ name # "id" /\ name \in AllColumns
    BY <2>1, Grown
  <2> QED
    BY <2>1, <2>2
<1>2. GivesKey(r) <=> field.pk
  BY DEF GivesKey
<1>3. /\ IsModel(R) /\ \A n \in DOMAIN M : n \in DOMAIN R /\ R[n] = M[n]
      /\ \A n \in DOMAIN R \ DOMAIN M : n = "id"
      /\ "id" \in DOMAIN R => R["id"] = Id
  <2>1. IsModel(R)
    BY RenderedIs
  <2> QED
    BY <2>1, RenderedKeeps
<1>4. name \notin DOMAIN R
  BY <1>1, <1>3
<1>5. /\ field.pk => S = DOMAIN M /\ \A n \in DOMAIN M : ~M[n].pk
      /\ ~field.pk => S = DOMAIN R /\ T.columns = R
  <2>1. S = DOMAIN R \ (IF field.pk THEN {"id"} ELSE {})
    <3>1. S = DOMAIN R \ ((IF GivesKey(r) THEN {"id"} ELSE {}) \union (r.deleted \union {a.old : a \in r.altered}))
      BY StaysAre
    <3>2. r.deleted \union {a.old : a \in r.altered} = {}
      OBVIOUS
    <3> HIDE DEF S, R
    <3> QED
      BY <1>2, <3>1, <3>2
  <2>2. CASE field.pk
    <3>1. \A n \in DOMAIN M : ~M[n].pk
      BY <1>1, <2>2
    <3>2. "id" \notin DOMAIN M
      BY <3>1, IdIs DEF IsModel
    <3> HIDE DEF S, R
    <3>3. S = DOMAIN R \ {"id"}
      BY <2>1, <2>2
    <3>4. DOMAIN M \ {"id"} = DOMAIN M
      BY <3>2
    <3> QED
      BY <1>3, <2>2, <3>1, <3>2, <3>3, <3>4
  <2>3. CASE ~field.pk
    <3>1. T.columns \in {M, Rendered(M)}
      BY DEF Fits
    <3>2. T.columns = R
      BY <1>2, <2>3, <3>1, KeyRenders
    <3> QED
      BY <2>1, <2>3, <3>2
  <2> QED
    BY <2>2, <2>3
<1>6. DOMAIN M \subseteq S /\ S \subseteq DOMAIN R /\ name \notin S /\ (GivesKey(r) => \A n \in S : ~R[n].pk)
  BY <1>2, <1>3, <1>4, <1>5
<1>7. /\ DOMAIN Body(r) = S \union {name} /\ Body(r)[name] = field
      /\ \A n \in S : Body(r)[n] = R[n]
      /\ Body(r) = [n \in DOMAIN Body(r) |-> Body(r)[n]]
  <2>1. DOMAIN New(r.altered) = {} /\ DOMAIN New(r.created) = {name} /\ New(r.created)[name] = field
    BY DEF New
  <2>2. ComposedOf(Body(r), R, S, New(r.created), New(r.altered))
    <3>1. IsModel(r.fields) /\ KeysStay(r)
      BY <1>6 DEF KeysStay
    <3> QED
      BY <3>1, BodyIs
  <2> HIDE DEF S, R
  <2> QED
    BY <1>6, <2>1, <2>2 DEF ComposedOf
<1>8. Body(r) \in {M1, Rendered(M1)}
  <2>1. CASE field.pk
    <3>1. DOMAIN Body(r) = DOMAIN M1 /\ \A n \in DOMAIN M1 : Body(r)[n] = M1[n]
      BY <1>1, <1>3, <1>5, <1>7, <2>1
    <3>2. M1 = [n \in DOMAIN M1 |-> M1[n]]
      BY <1>1 DEF IsModel
    <3> QED
      BY <1>7, <3>1, <3>2
  <2>2. CASE ~field.pk /\ \E n \in DOMAIN M : M[n].pk
    <3>1. R = M
      BY <2>2 DEF Rendered
    <3>2. DOMAIN Body(r) = DOMAIN M1 /\ \A n \in DOMAIN M1 : Body(r)[n] = M1[n]
      BY <1>1, <1>5, <1>7, <2>2, <3>1
    <3>3. M1 = [n \in DOMAIN M1 |-> M1[n]]
      BY <1>1 DEF IsModel
    <3> QED
      BY <1>7, <3>2, <3>3
  <2>3. CASE ~field.pk /\ \A n \in DOMAIN M : ~M[n].pk
    <3>1. R = Only("id", Id) ++ M
      BY <2>3 DEF Rendered
    <3>2. \A n \in DOMAIN M1 : ~M1[n].pk
      BY <1>1, <2>3
    <3>3. Rendered(M1) = Only("id", Id) ++ M1
      BY <3>2 DEF Rendered
    <3>4. "id" \notin DOMAIN M
      BY <2>3, IdIs DEF IsModel
    <3>5. /\ DOMAIN R = {"id"} \union DOMAIN M
          /\ DOMAIN Rendered(M1) = {"id"} \union DOMAIN M1 /\ Rendered(M1)["id"] = Id
          /\ \A n \in DOMAIN M1 : n # "id" => Rendered(M1)[n] = M1[n]
          /\ Rendered(M1) = [n \in DOMAIN Rendered(M1) |-> Rendered(M1)[n]]
      BY <3>1, <3>3 DEF ++, Only
    <3>6. DOMAIN Body(r) = DOMAIN Rendered(M1)
      BY <1>1, <1>5, <1>7, <2>3, <3>5
    <3>7. \A n \in DOMAIN Body(r) : Body(r)[n] = Rendered(M1)[n]
      BY <1>1, <1>3, <1>5, <1>7, <2>3, <3>4, <3>5
    <3> QED
      BY <1>7, <3>5, <3>6, <3>7
  <2> QED
    BY <2>1, <2>2, <2>3
<1>9. F = Body(r) /\ F \in {M1, Rendered(M1)}
  <2>1. \E n \in DOMAIN Body(r) : Body(r)[n].pk
    <3>1. CASE field.pk
      BY <1>7, <3>1
    <3>2. CASE ~field.pk
      <4>1. PICK n \in DOMAIN R : R[n].pk
        BY RenderedHasKey
      <4> QED
        BY <1>5, <1>7, <3>2, <4>1
    <3> QED
      BY <3>1, <3>2
  <2>2. F = Rendered(Body(r))
    BY DEF ReplacementFields
  <2> QED
    BY <1>8, <2>1, <2>2 DEF Rendered
<1>10. map = MappingOfCreated(c) ++ KeptIn(r)
  BY MappingIs
<1>11. /\ \A n \in S : n \in DOMAIN map /\ map[n] = Expression(n, "null")
       /\ field.db_default => DOMAIN map = S
       /\ ~field.db_default => DOMAIN map = S \union {name} /\ map[name] = Expression("none", EffectiveDefault(field))
  <2>1. c.field = field /\ c.name = name
    OBVIOUS
  <2> HIDE DEF c, S, map
  <2>2. CASE field.db_default
    <3>1. MappingOfCreated(c) = << >>
      BY <2>1, <2>2 DEF MappingOfCreated
    <3> QED
      BY <1>10, <2>2, <3>1 DEF ++, KeptIn, S
  <2>3. CASE ~field.db_default
    <3>1. MappingOfCreated(c) = Only(name, Expression("none", EffectiveDefault(field)))
      BY <2>1, <2>3 DEF MappingOfCreated
    <3> QED
      BY <1>6, <1>10, <2>3, <3>1 DEF ++, Only, KeptIn, S
  <2> QED
    BY <2>2, <2>3
<1>0. F = ReplacementFields(r) /\ map = Mapping(r)
  OBVIOUS
<1> HIDE DEF F, map, S, R, c
<1>12. \A cells : CellOf(name, F, map, cells) = AnyDefault(field)
  <2>1. F[name] = field
    BY <1>7, <1>9
  <2>2. CASE field.db_default
    BY <1>6, <1>11, <2>1, <2>2, CellIs DEF AnyDefault
  <2>3. CASE ~field.db_default
    BY <1>11, <2>1, <2>3, CellIs DEF AnyDefault, Expression
  <2> QED
    BY <2>2, <2>3
<1>13. DOMAIN F = S \union {name} /\ F[name] = field /\ \A n \in S : F[n] = R[n]
  BY <1>7, <1>9
<1>14. \A n \in S : n \in AllColumns /\ n \in DOMAIN T.columns /\ T.columns[n] = R[n]
  <2>1. \A n \in DOMAIN R : n \in AllColumns
    BY <1>3 DEF IsModel
  <2>2. \A n \in DOMAIN M : n \in DOMAIN T.columns /\ T.columns[n] = M[n]
    BY <1>3 DEF Fits, R
  <2> QED
    BY <1>3, <1>5, <1>6, <2>1, <2>2
<1>15. DOMAIN T.rows = DOMAIN D1
  BY DEF Fits, HasRows
<1>16. ASSUME NEW row \in DOMAIN D1
       PROVE  /\ DOMAIN D1[row] = DOMAIN M1
              /\ \A n \in S : /\ T.rows[row][n] = "null" => T.columns[n].null
                              /\ n \in DOMAIN M1 => T.rows[row][n] = D1[row][n]
              /\ \A n \in DOMAIN F \ S : /\ CellOf(n, F, map, T.rows[row]) = "null" => F[n].null
                                         /\ n \in DOMAIN M1 => CellOf(n, F, map, T.rows[row]) = D1[row][n]
  <2>1. \A n \in S : T.rows[row][n] = "null" => T.columns[n].null
    BY <1>14 DEF Fits, HasRows
  <2>2. \A n \in S : n \in DOMAIN M1 => T.rows[row][n] = D1[row][n]
    BY <1>1, <1>6 DEF Fits, HasRows
  <2>3. \A n \in DOMAIN F \ S : n = name
    BY <1>13
  <2> QED
    BY <1>12, <1>13, <2>1, <2>2, <2>3, DefaultIs
<1>17. DOMAIN M1 \subseteq DOMAIN F /\ DOMAIN map \subseteq DOMAIN F
  BY <1>1, <1>6, <1>11, <1>13
<1>18. \A n \in DOMAIN map \ S : map[n].column \in DOMAIN T.columns \union {"none"}
  BY <1>11 DEF Expression
<1>19. \A n \in S : /\ n \in AllColumns /\ n \in DOMAIN map /\ map[n] = Expression(n, "null")
                     /\ n \in DOMAIN T.columns /\ T.columns[n].null = F[n].null
  BY <1>11, <1>13, <1>14
<1>20. F \in {M1, Rendered(M1)} /\ S \subseteq DOMAIN F
  BY <1>9, <1>13
<1>21. CopiesBy(T, M1, D1, F, map, S)
  BY <1>15, <1>16, <1>17, <1>18, <1>19, <1>20 DEF CopiesBy
<1> QED
  BY <1>0, <1>21, Copied

\* A remake of a model without its key, or with a field instead of another one, is rendered as
\* the model that it is to become.
LEMMA RenderedAlike ==
  ASSUME NEW M, NEW B, IsModel(M), B = [n \in DOMAIN B |-> B[n]],
         DOMAIN M \subseteq DOMAIN B, DOMAIN B \subseteq DOMAIN M \union {"id"},
         \A n \in DOMAIN M : B[n] = M[n],
         "id" \in DOMAIN B \ DOMAIN M => B["id"] = Id /\ \A n \in DOMAIN M : ~M[n].pk
  PROVE  Rendered(B) = Rendered(M)
<1>1. CASE "id" \in DOMAIN B \ DOMAIN M
  <2>1. B["id"].pk
    BY <1>1, IdIs
  <2>2. Rendered(B) = B
    BY <1>1, <2>1 DEF Rendered
  <2>3. Rendered(M) = Only("id", Id) ++ M
    BY <1>1 DEF Rendered
  <2>4. /\ DOMAIN Rendered(M) = {"id"} \union DOMAIN M /\ Rendered(M)["id"] = Id
        /\ \A n \in DOMAIN M : n # "id" => Rendered(M)[n] = M[n]
        /\ Rendered(M) = [n \in DOMAIN Rendered(M) |-> Rendered(M)[n]]
    BY <2>3 DEF ++, Only
  <2>5. DOMAIN B = DOMAIN Rendered(M) /\ \A n \in DOMAIN B : B[n] = Rendered(M)[n]
    BY <1>1, <2>4
  <2> QED
    BY <2>2, <2>4, <2>5
<1>2. CASE "id" \notin DOMAIN B \ DOMAIN M
  <2>1. DOMAIN B = DOMAIN M
    BY <1>2
  <2>2. M = [n \in DOMAIN M |-> M[n]]
    BY DEF IsModel
  <2>3. B = M
    BY <2>1, <2>2
  <2> QED
    BY <2>3
<1> QED
  BY <1>1, <1>2

\* A model without one of its fields.
LEMMA Shrunk ==
  ASSUME NEW M, IsModel(M), NEW name
  PROVE  IsModel(Without(M, name))
<1> DEFINE N == Without(M, name)
<1>1. DOMAIN N = DOMAIN M \ {name} /\ (\A n \in DOMAIN N : N[n] = M[n]) /\ N = [n \in DOMAIN N |-> N[n]]
  BY DEF Without
<1> HIDE DEF N
<1>2. IsModel(N)
  BY <1>1 DEF IsModel
<1> QED
  BY <1>2 DEF N

RowsShrunk(D1, D, M1) ==
  /\ DOMAIN D1 = DOMAIN D
  /\ \A row \in DOMAIN D : DOMAIN D1[row] = DOMAIN M1 /\ \A n \in DOMAIN M1 : D1[row][n] = D[row][n]

\* remove_field(): a remake with one column less, and an automatic key if it had the key.
LEMMA RemoveCopies ==
  ASSUME NEW M, NEW T, NEW D, NEW r, NEW M1, NEW D1, NEW name \in DOMAIN M,
         IsModel(M), Fits(T, M, D), M1 = Without(M, name),
         Changes(r, M, {}, {name}, {}), KeepsKey(r, T), RowsShrunk(D1, D, M1)
  PROVE  Copies(r, T, M1, D1)
<1> USE DEF Changes, KeepsKey, RowsShrunk
<1> DEFINE R == Rendered(M)
           F == ReplacementFields(r)
           map == Mapping(r)
           S == Stays(r)
           B == Body(r)
<1>1. /\ IsModel(M1)
      /\ DOMAIN M1 = DOMAIN M \ {name} /\ \A n \in DOMAIN M1 : M1[n] = M[n]
      /\ M1 = [n \in DOMAIN M1 |-> M1[n]]
  BY Shrunk DEF Without
<1>2. ~GivesKey(r)
  BY DEF GivesKey
<1>3. /\ IsModel(R) /\ \A n \in DOMAIN M : n \in DOMAIN R /\ R[n] = M[n]
      /\ \A n \in DOMAIN R \ DOMAIN M : n = "id"
      /\ "id" \in DOMAIN R => R["id"] = Id
  <2>1. IsModel(R)
    BY RenderedIs
  <2> QED
    BY <2>1, RenderedKeeps
<1>4. T.columns = R
  <2>1. T.columns \in {M, Rendered(M)}
    BY DEF Fits
  <2> QED
    BY <1>2, <2>1, KeyRenders
<1>5. S = DOMAIN R \ {name}
  <2>1. S = DOMAIN R \ ((IF GivesKey(r) THEN {"id"} ELSE {}) \union (r.deleted \union {a.old : a \in r.altered}))
    BY StaysAre
  <2>2. r.deleted \union {a.old : a \in r.altered} = {name}
    OBVIOUS
  <2> HIDE DEF S, R
  <2> QED
    BY <1>2, <2>1, <2>2
<1>6. DOMAIN B = S /\ (\A n \in S : B[n] = R[n]) /\ B = [n \in DOMAIN B |-> B[n]]
  <2>1. DOMAIN New(r.created) = {} /\ DOMAIN New(r.altered) = {}
    BY DEF New
  <2>2. ComposedOf(B, R, S, New(r.created), New(r.altered))
    BY <1>2, BodyIs DEF KeysStay
  <2> HIDE DEF S, R, B
  <2> QED
    BY <2>1, <2>2 DEF ComposedOf
<1>7. map = [n \in S |-> Expression(n, "null")]
  BY MappingIs DEF KeptIn
<1>8. F = IF name = "id" THEN B ELSE Rendered(B)
  BY DEF ReplacementFields
<1>0. F = ReplacementFields(r) /\ map = Mapping(r)
  OBVIOUS
<1> HIDE DEF F, map, S, R, B
<1>9. F \in {M1, Rendered(M1)} /\ \A n \in S : n \in DOMAIN F /\ F[n] = R[n]
  <2>1. CASE name = "id"
    <3>1. \E n \in DOMAIN M : M[n].pk
      BY <2>1, IdIs DEF IsModel
    <3>2. R = M
      BY <3>1 DEF R, Rendered
    <3>3. B = M1
      BY <1>1, <1>5, <1>6, <3>2
    <3> QED
      BY <1>6, <1>8, <2>1, <3>3
  <2>2. CASE name # "id"
    <3>1. Rendered(B) = Rendered(M1)
      <4>1. DOMAIN M1 \subseteq DOMAIN B /\ DOMAIN B \subseteq DOMAIN M1 \union {"id"} /\ \A n \in DOMAIN M1 : B[n] = M1[n]
        BY <1>1, <1>3, <1>5, <1>6
      <4>2. ASSUME "id" \in DOMAIN B \ DOMAIN M1 PROVE B["id"] = Id /\ \A n \in DOMAIN M1 : ~M1[n].pk
        <5>1. "id" \in DOMAIN R /\ B["id"] = Id /\ "id" \notin DOMAIN M
          BY <1>1, <1>3, <1>5, <1>6, <2>2, <4>2
        <5>2. \A n \in DOMAIN M : ~M[n].pk
          BY <5>1 DEF R, Rendered
        <5> QED
          BY <1>1, <5>1, <5>2
      <4> QED
        BY <1>1, <1>6, <4>1, <4>2, RenderedAlike
    <3>2. F = Rendered(M1)
      BY <1>8, <2>2, <3>1
    <3>3. /\ \A n \in DOMAIN M1 : n \in DOMAIN F /\ F[n] = M1[n]
          /\ "id" \in DOMAIN F => F["id"] = Id
      BY <1>1, <3>2, RenderedKeeps
    <3>4. DOMAIN B \subseteq DOMAIN F
      <4>1. F = Rendered(B)
        BY <1>8, <2>2
      <4>2. CASE \E n \in DOMAIN B : B[n].pk
        BY <4>1, <4>2 DEF Rendered
      <4>3. CASE ~ \E n \in DOMAIN B : B[n].pk
        <5>1. F = Only("id", Id) ++ B
          BY <4>1, <4>3 DEF Rendered
        <5> QED
          BY <5>1 DEF ++
      <4> QED
        BY <4>2, <4>3
    <3>5. ASSUME NEW n \in S PROVE n \in DOMAIN F /\ F[n] = R[n]
      <4>1. n \in DOMAIN F
        BY <1>6, <3>4
      <4>2. CASE n \in DOMAIN M
        BY <1>1, <1>3, <1>5, <3>3, <4>2
      <4>3. CASE n \notin DOMAIN M
        BY <1>3, <1>5, <3>3, <4>1, <4>3
      <4> QED
        BY <4>1, <4>2, <4>3
    <3> QED
      BY <3>2, <3>5
  <2> QED
    BY <2>1, <2>2
<1>10. DOMAIN map = S /\ \A n \in S : map[n] = Expression(n, "null")
  BY <1>7
<1>11. DOMAIN M1 \subseteq S /\ S \subseteq DOMAIN T.columns /\ \A n \in S : n \in AllColumns
  <2>1. \A n \in DOMAIN R : n \in AllColumns
    BY <1>3 DEF IsModel
  <2> QED
    BY <1>1, <1>3, <1>4, <1>5, <2>1
<1>12. \A n \in DOMAIN F \ S : n = "id" /\ n \notin DOMAIN M1 /\ F[n] = Id
  <2>1. \A n \in DOMAIN F \ DOMAIN M1 : n = "id" /\ F[n] = Id
    <3>1. CASE F = M1
      BY <3>1
    <3>2. CASE F = Rendered(M1)
      BY <1>1, <3>2, RenderedKeeps
    <3> QED
      BY <1>9, <3>1, <3>2
  <2> QED
    BY <1>11, <2>1
<1>13. \A n \in DOMAIN F \ S : \A cells : CellOf(n, F, map, cells) = "id"
  BY <1>10, <1>12, CellIs, IdIs
<1>14. ASSUME NEW row \in DOMAIN D1
       PROVE  /\ DOMAIN D1[row] = DOMAIN M1
              /\ \A n \in S : /\ T.rows[row][n] = "null" => T.columns[n].null
                              /\ n \in DOMAIN M1 => T.rows[row][n] = D1[row][n]
              /\ \A n \in DOMAIN F \ S : /\ CellOf(n, F, map, T.rows[row]) = "null" => F[n].null
                                         /\ n \in DOMAIN M1 => CellOf(n, F, map, T.rows[row]) = D1[row][n]
  <2>1. \A n \in S : T.rows[row][n] = "null" => T.columns[n].null
    BY <1>11 DEF Fits, HasRows
  <2>2. \A n \in S : n \in DOMAIN M1 => T.rows[row][n] = D1[row][n]
    BY <1>1 DEF Fits, HasRows
  <2> QED
    BY <1>12, <1>13, <2>1, <2>2
<1>15. CopiesBy(T, M1, D1, F, map, S)
  <2>1. DOMAIN T.rows = DOMAIN D1
    BY DEF Fits, HasRows
  <2>2. S \subseteq DOMAIN F /\ DOMAIN M1 \subseteq DOMAIN F /\ DOMAIN map \subseteq DOMAIN F
    BY <1>9, <1>10, <1>11
  <2>3. \A n \in S : /\ n \in AllColumns /\ n \in DOMAIN map /\ map[n] = Expression(n, "null")
                     /\ n \in DOMAIN T.columns /\ T.columns[n].null = F[n].null
    BY <1>4, <1>9, <1>10, <1>11
  <2>4. \A n \in DOMAIN map \ S : map[n].column \in DOMAIN T.columns \union {"none"}
    BY <1>10
  <2> QED
    BY <1>9, <1>14, <2>1, <2>2, <2>3, <2>4 DEF CopiesBy
<1> QED
  BY <1>0, <1>15, Copied

\* A remake that replaces a field by another one.
LEMMA Altered ==
  ASSUME NEW M, IsModel(M), NEW old \in Names, NEW name \in Names, name \notin DOMAIN M \ {old},
         NEW field \in Field, ~field.auto, field.to = "none", field.pk => field.unique /\ ~field.null,
         NEW M1, M1 = Without(M, old) ++ Only(name, field), OneKey(M1)
  PROVE  /\ IsModel(M1) /\ name # "id" /\ old # "id" /\ name \in AllColumns
         /\ DOMAIN M1 = (DOMAIN M \ {old}) \union {name} /\ M1[name] = field
         /\ \A n \in DOMAIN M \ {old} : M1[n] = M[n]
         /\ M1 = [n \in DOMAIN M1 |-> M1[n]]
<1> USE DEF OneKey
<1> DEFINE N == Without(M, old)
<1>1. IsModel(N) /\ DOMAIN N = DOMAIN M \ {old} /\ \A n \in DOMAIN N : N[n] = M[n]
  <2>1. IsModel(N)
    BY Shrunk
  <2>2. DOMAIN N = DOMAIN M \ {old} /\ \A n \in DOMAIN N : N[n] = M[n]
    BY DEF Without
  <2> QED
    BY <2>1, <2>2
<1> HIDE DEF N
<1>2. M1 = N ++ Only(name, field)
  BY DEF N
<1>3. /\ DOMAIN M1 = DOMAIN N \union {name} /\ M1[name] = field /\ \A n \in DOMAIN N : M1[n] = N[n]
      /\ M1 = [n \in DOMAIN M1 |-> M1[n]]
  BY <1>1, <1>2 DEF ++, Only
<1>4. IsModel(M1) /\ name # "id" /\ name \in AllColumns
  BY <1>1, <1>3, Grown
<1>5. old # "id"
  BY RemakeAssumption
<1> QED
  BY <1>1, <1>3, <1>4, <1>5

RowsAltered(D1, D, M1, old, name, field) ==
  /\ DOMAIN D1 = DOMAIN D
  /\ \A row \in DOMAIN D :
       /\ DOMAIN D1[row] = DOMAIN M1
       /\ \A n \in DOMAIN M1 \ {name} : D1[row][n] = D[row][n]
       /\ D1[row][name] = IF D[row][old] # "null" \/ field.null THEN D[row][old] ELSE AnyDefault(field)

\* _alter_field(): a remake with a column that gets another name or another field, and the
\* default where NULL is no longer allowed.
LEMMA AlterCopies ==
  ASSUME NEW M, NEW T, NEW D, NEW r, NEW M1, NEW D1, NEW old \in Names, NEW name \in Names,
         NEW field \in Field, ~field.auto, field.to = "none", field.pk => field.unique /\ ~field.null,
         IsModel(M), Fits(T, M, D), old \in DOMAIN M, name \notin DOMAIN M \ {old},
         M1 = Without(M, old) ++ Only(name, field),
         Changes(r, M, {}, {}, {[old |-> old, name |-> name, field |-> field]}), OneKey(M1), KeepsKey(r, T),
         RowsAltered(D1, D, M1, old, name, field)
  PROVE  Copies(r, T, M1, D1)
<1> USE DEF Changes, OneKey, KeepsKey, RowsAltered
<1> DEFINE R == Rendered(M)
           F == ReplacementFields(r)
           map == Mapping(r)
           S == Stays(r)
           B == Body(r)
           a == [old |-> old, name |-> name, field |-> field]
           default == IF M[old].null /\ ~field.null THEN AnyDefault(field) ELSE "null"
<1>1. /\ IsModel(M1) /\ name # "id" /\ old # "id" /\ name \in AllColumns
      /\ DOMAIN M1 = (DOMAIN M \ {old}) \union {name} /\ M1[name] = field
      /\ \A n \in DOMAIN M \ {old} : M1[n] = M[n]
      /\ M1 = [n \in DOMAIN M1 |-> M1[n]]
  BY Altered
<1>2. GivesKey(r) <=> field.pk
  BY DEF GivesKey
<1>3. /\ IsModel(R) /\ \A n \in DOMAIN M : n \in DOMAIN R /\ R[n] = M[n]
      /\ \A n \in DOMAIN R \ DOMAIN M : n = "id"
      /\ "id" \in DOMAIN R => R["id"] = Id
  <2>1. IsModel(R)
    BY RenderedIs
  <2> QED
    BY <2>1, RenderedKeeps
<1>4. name \notin DOMAIN R \ {old}
  BY <1>1, <1>3
<1>5. /\ field.pk => S = DOMAIN M \ {old} /\ \A n \in DOMAIN M \ {old} : ~M[n].pk
      /\ ~field.pk => S = DOMAIN R \ {old} /\ T.columns = R
  <2>1. S = DOMAIN R \ ((IF field.pk THEN {"id"} ELSE {}) \union {old})
    <3>1. S = DOMAIN R \ ((IF GivesKey(r) THEN {"id"} ELSE {}) \union (r.deleted \union {b.old : b \in r.altered}))
      <4>1. \A b \in r.altered : b.name # "id"
        BY <1>1
      <4> QED
        BY <4>1, StaysAre
    <3>2. r.deleted \union {b.old : b \in r.altered} = {old}
      OBVIOUS
    <3> HIDE DEF S, R
    <3> QED
      BY <1>2, <3>1, <3>2
  <2> HIDE DEF S
  <2>2. CASE field.pk
    <3>1. \A n \in DOMAIN M \ {old} : ~M[n].pk
      BY <1>1, <2>2
    <3>2. "id" \notin DOMAIN M
      BY <1>1, <3>1, IdIs DEF IsModel
    <3> HIDE DEF R
    <3> QED
      BY <1>1, <1>3, <2>1, <2>2, <3>1, <3>2
  <2>3. CASE ~field.pk
    <3>1. T.columns \in {M, Rendered(M)}
      BY DEF Fits
    <3>2. T.columns = R
      BY <1>2, <2>3, <3>1, KeyRenders
    <3> HIDE DEF R
    <3> QED
      BY <2>1, <2>3, <3>2
  <2> QED
    BY <2>2, <2>3
<1>6. DOMAIN M \ {old} \subseteq S /\ S \subseteq DOMAIN R /\ name \notin S /\ (GivesKey(r) => \A n \in S : ~R[n].pk)
  <2> HIDE DEF S, R
  <2> QED
    BY <1>2, <1>3, <1>4, <1>5
<1>7. DOMAIN B = S \union {name} /\ B[name] = field /\ (\A n \in S : B[n] = R[n]) /\ B = [n \in DOMAIN B |-> B[n]]
  <2>1. DOMAIN New(r.created) = {} /\ DOMAIN New(r.altered) = {name} /\ New(r.altered)[name] = field
    BY DEF New
  <2>2. ComposedOf(B, R, S, New(r.created), New(r.altered))
    <3>1. IsModel(r.fields) /\ KeysStay(r)
      BY <1>6 DEF KeysStay
    <3> QED
      BY <3>1, BodyIs
  <2> HIDE DEF S, R, B
  <2> QED
    BY <1>6, <2>1, <2>2 DEF ComposedOf
<1>8. map = MappingOfAltered(a, R) ++ KeptIn(r)
  BY MappingIs
<1>9. MappingOfAltered(a, R) = Only(name, Expression(old, default))
  <2>1. a.old = old /\ a.name = name /\ a.field = field
    OBVIOUS
  <2>2. R[old] = M[old]
    BY <1>3
  <2> HIDE DEF a, R
  <2> QED
    BY <2>1, <2>2 DEF MappingOfAltered
<1>10. /\ DOMAIN map = S \union {name} /\ map[name] = Expression(old, default)
       /\ \A n \in S : map[n] = Expression(n, "null")
  <2>1. KeptIn(r) = [n \in S |-> Expression(n, "null")]
    BY DEF KeptIn
  <2> HIDE DEF map, S, a, R, default
  <2> QED
    BY <1>6, <1>8, <1>9, <2>1 DEF ++, Only
<1>0. F = ReplacementFields(r) /\ map = Mapping(r)
  OBVIOUS
<1>11. F = Rendered(B)
  BY DEF ReplacementFields
<1>12. default = IF M[old].null /\ ~field.null THEN AnyDefault(field) ELSE "null"
  OBVIOUS
<1>13. R = Rendered(M)
  OBVIOUS
<1> HIDE DEF F, map, S, R, B, default
<1>14. F = Rendered(M1)
  <2>1. DOMAIN M1 \subseteq DOMAIN B /\ DOMAIN B \subseteq DOMAIN M1 \union {"id"} /\ \A n \in DOMAIN M1 : B[n] = M1[n]
    <3>1. DOMAIN M1 = (DOMAIN M \ {old}) \union {name} /\ DOMAIN B = S \union {name} /\ DOMAIN M \ {old} \subseteq S
      BY <1>1, <1>6, <1>7
    <3>2. \A n \in S : n \in DOMAIN M1 \union {"id"}
      BY <1>3, <1>5, <3>1
    <3>3. B[name] = M1[name] /\ \A n \in DOMAIN M \ {old} : B[n] = M1[n]
      BY <1>1, <1>3, <1>7, <3>1
    <3> QED
      BY <3>1, <3>2, <3>3
  <2>2. ASSUME "id" \in DOMAIN B \ DOMAIN M1 PROVE B["id"] = Id /\ \A n \in DOMAIN M1 : ~M1[n].pk
    <3>1. "id" \in DOMAIN R /\ B["id"] = Id /\ "id" \notin DOMAIN M
      BY <1>1, <1>3, <1>6, <1>7, <2>2
    <3>2. \A n \in DOMAIN M : ~M[n].pk
      BY <1>13, <3>1 DEF Rendered
    <3>3. ~field.pk
      BY <1>1, <1>5, <1>7, <2>2
    <3> QED
      BY <1>1, <3>1, <3>2, <3>3
  <2> QED
    BY <1>1, <1>7, <1>11, <2>1, <2>2, RenderedAlike
<1>15. /\ \A n \in DOMAIN M1 : n \in DOMAIN F /\ F[n] = M1[n]
       /\ \A n \in DOMAIN F \ DOMAIN M1 : n = "id"
       /\ "id" \in DOMAIN F => F["id"] = Id
  BY <1>1, <1>14, RenderedKeeps
<1>16. DOMAIN B \subseteq DOMAIN F
  <2>1. CASE \E n \in DOMAIN B : B[n].pk
    BY <1>11, <2>1 DEF Rendered
  <2>2. CASE ~ \E n \in DOMAIN B : B[n].pk
    BY <1>11, <2>2 DEF Rendered, ++
  <2> QED
    BY <2>1, <2>2
<1>17. \A n \in S : n \in DOMAIN F /\ F[n] = R[n]
  <2> SUFFICES ASSUME NEW n \in S PROVE n \in DOMAIN F /\ F[n] = R[n]
    OBVIOUS
  <2>1. n \in DOMAIN F
    BY <1>7, <1>16
  <2>2. CASE n \in DOMAIN M1
    BY <1>1, <1>3, <1>6, <1>15, <2>1, <2>2
  <2>3. CASE n \notin DOMAIN M1
    BY <1>1, <1>3, <1>6, <1>15, <2>1, <2>3
  <2> QED
    BY <2>2, <2>3
<1>18. \A n \in S : n \in AllColumns /\ n \in DOMAIN T.columns /\ T.columns[n] = R[n]
  <2>1. \A n \in DOMAIN R : n \in AllColumns
    BY <1>3 DEF IsModel
  <2>2. \A n \in DOMAIN M : n \in DOMAIN T.columns /\ T.columns[n] = M[n]
    BY <1>3, <1>13 DEF Fits
  <2> QED
    BY <1>3, <1>5, <1>6, <2>1, <2>2
<1>19. \A n \in DOMAIN F \ S : n = name \/ (n = "id" /\ n \notin DOMAIN map /\ n \notin DOMAIN M1 /\ F[n] = Id)
  BY <1>1, <1>6, <1>10, <1>15
<1>20. ASSUME NEW row \in DOMAIN D1
       PROVE  CellOf(name, F, map, T.rows[row]) = D1[row][name] /\ (D1[row][name] = "null" => field.null)
  <2>1. T.rows[row][old] = D[row][old] /\ (D[row][old] = "null" => M[old].null)
    BY NullsAllowed
  <2>2. map[name].column = old /\ map[name].default = default /\ name \in DOMAIN map
    BY <1>10 DEF Expression
  <2>3. old # "none"
    BY RemakeAssumption
  <2>4. CellOf(name, F, map, T.rows[row]) = IF D[row][old] # "null" THEN D[row][old] ELSE default
    BY <2>1, <2>2, <2>3, CellIs
  <2>5. D1[row][name] = IF D[row][old] # "null" \/ field.null THEN D[row][old] ELSE AnyDefault(field)
    OBVIOUS
  <2> QED
    BY <1>12, <2>1, <2>4, <2>5, DefaultIs
<1>21. \A n \in DOMAIN F \ S : n # name => \A cells : CellOf(n, F, map, cells) = "id"
  BY <1>19, CellIs, IdIs
<1>22. ASSUME NEW row \in DOMAIN D1
       PROVE  /\ DOMAIN D1[row] = DOMAIN M1
              /\ \A n \in S : /\ T.rows[row][n] = "null" => T.columns[n].null
                              /\ n \in DOMAIN M1 => T.rows[row][n] = D1[row][n]
              /\ \A n \in DOMAIN F \ S : /\ CellOf(n, F, map, T.rows[row]) = "null" => F[n].null
                                         /\ n \in DOMAIN M1 => CellOf(n, F, map, T.rows[row]) = D1[row][n]
  <2>1. \A n \in S : T.rows[row][n] = "null" => T.columns[n].null
    BY <1>18 DEF Fits, HasRows
  <2>2. \A n \in S : n \in DOMAIN M1 => T.rows[row][n] = D1[row][n]
    BY <1>1, <1>6 DEF Fits, HasRows
  <2>3. \A n \in DOMAIN F \ S : /\ CellOf(n, F, map, T.rows[row]) = "null" => F[n].null
                                /\ n \in DOMAIN M1 => CellOf(n, F, map, T.rows[row]) = D1[row][n]
    BY <1>1, <1>15, <1>19, <1>20, <1>21
  <2> QED
    BY <2>1, <2>2, <2>3
<1>23. CopiesBy(T, M1, D1, F, map, S)
  <2>1. DOMAIN T.rows = DOMAIN D1
    BY DEF Fits, HasRows
  <2>2. S \subseteq DOMAIN F /\ DOMAIN M1 \subseteq DOMAIN F /\ DOMAIN map \subseteq DOMAIN F
    BY <1>1, <1>10, <1>15, <1>17
  <2>3. \A n \in S : /\ n \in AllColumns /\ n \in DOMAIN map /\ map[n] = Expression(n, "null")
                     /\ n \in DOMAIN T.columns /\ T.columns[n].null = F[n].null
    BY <1>10, <1>17, <1>18
  <2>4. \A n \in DOMAIN map \ S : map[n].column \in DOMAIN T.columns \union {"none"}
    <3>1. old \in DOMAIN T.columns
      BY <1>3, <1>13 DEF Fits
    <3> QED
      BY <1>10, <3>1 DEF Expression
  <2>5. F \in {M1, Rendered(M1)}
    BY <1>14
  <2> QED
    BY <1>22, <2>1, <2>2, <2>3, <2>4, <2>5 DEF CopiesBy
<1> QED
  BY <1>0, <1>23, Copied

MovesRows(r, D1, D, M1, M, peer, new) ==
  /\ DOMAIN M = {"id", "ref", peer} /\ M1 = Renamed(M, peer, new)
  /\ r.fields = M /\ r.created = {} /\ r.deleted = {}
  /\ r.altered = {[old |-> "ref", name |-> "ref", field |-> M["ref"]],
                  [old |-> peer, name |-> new, field |-> M[peer]]}
  /\ D1 = [row \in DOMAIN D |-> Renamed(D[row], peer, new)]

\* _alter_many_to_many(): a remake, or a move, with both columns altered, the second one
\* getting another name.
LEMMA MoveCopies ==
  ASSUME NEW M, NEW T, NEW D, NEW r, NEW M1, NEW D1, NEW peer \in Peers, NEW new \in Peers,
         IsModel(M), Fits(T, M, D), MovesRows(r, D1, D, M1, M, peer, new)
  PROVE  Copies(r, T, M1, D1) /\ IsModel(M1) /\ DOMAIN M1 = {"id", "ref", new} /\ M1["ref"] = M["ref"]
<1> USE DEF MovesRows
<1> DEFINE F == ReplacementFields(r)
           map == Mapping(r)
           S == Stays(r)
           B == Body(r)
           a == [old |-> "ref", name |-> "ref", field |-> M["ref"]]
           b == [old |-> peer, name |-> new, field |-> M[peer]]
<1>1. /\ peer \notin {"id", "ref"} /\ new \notin {"id", "ref"} /\ peer \in AllColumns /\ new \in AllColumns
      /\ "id" \in AllColumns /\ "ref" \in AllColumns
  BY DEF Peers, AllColumns
<1>2. M["id"] = Id /\ M["id"].pk /\ M["id"].auto /\ M["ref"] \in Field /\ M[peer] \in Field
  BY IdIs DEF IsModel
<1>3. ~M["ref"].pk /\ ~M[peer].pk
  BY <1>1, <1>2 DEF IsModel
<1>4. Rendered(M) = M
  BY <1>2 DEF Rendered
<1>5. ~GivesKey(r)
  <2>1. \A x \in r.altered : ~x.field.pk
    BY <1>3
  <2> QED
    BY <2>1 DEF GivesKey
<1>6. S = {"id"}
  <2>1. \A x \in r.altered : x.name # "id"
    BY <1>1
  <2>2. S = DOMAIN M \ ((IF GivesKey(r) THEN {"id"} ELSE {}) \union (r.deleted \union {x.old : x \in r.altered}))
    BY <1>4, <2>1, StaysAre
  <2>3. {x.old : x \in r.altered} = {"ref", peer}
    OBVIOUS
  <2> HIDE DEF S
  <2> QED
    BY <1>1, <1>5, <2>2, <2>3
<1>7. /\ DOMAIN B = {"id", "ref", new} /\ B["id"] = M["id"] /\ B["ref"] = M["ref"] /\ B[new] = M[peer]
      /\ B = [n \in DOMAIN B |-> B[n]]
  <2>1. DOMAIN New({}) = {} /\ DOMAIN New({a, b}) = {"ref", new} /\ New({a, b})["ref"] = M["ref"] /\ New({a, b})[new] = M[peer]
    <3>1. a.name = "ref" /\ b.name = new /\ a.field = M["ref"] /\ b.field = M[peer] /\ a.name # b.name
      BY <1>1
    <3> HIDE DEF a, b
    <3>2. TwoNew(New({a, b}), a, b)
      BY <3>1, NewIs
    <3>3. DOMAIN New({}) = {}
      BY DEF New
    <3> QED
      BY <3>1, <3>2, <3>3 DEF TwoNew
  <2>2. ComposedOf(B, M, S, New(r.created), New(r.altered))
    <3>1. IsModel(r.fields) /\ KeysStay(r)
      BY <1>5 DEF KeysStay
    <3>2. ComposedOf(B, Rendered(M), S, New(r.created), New(r.altered))
      BY <3>1, BodyIs
    <3> QED
      BY <1>4, <3>2
  <2>3. r.created = {} /\ r.altered = {a, b}
    OBVIOUS
  <2> HIDE DEF S, B, a, b
  <2> QED
    BY <1>1, <1>6, <2>1, <2>2, <2>3 DEF ComposedOf
<1>8. /\ DOMAIN M1 = {"id", "ref", new} /\ M1["id"] = M["id"] /\ M1["ref"] = M["ref"] /\ M1[new] = M[peer]
      /\ M1 = [n \in DOMAIN M1 |-> M1[n]]
  <2>1. /\ DOMAIN M1 = (DOMAIN M \ {peer}) \union {new} /\ M1[new] = M[peer]
        /\ \A x \in DOMAIN M \ {peer} : M1[x] = M[x]
    <3>1. new \notin DOMAIN M \ {peer}
      BY <1>1
    <3>2. RenamesTo(M, peer, new, M1)
      BY <3>1, RenamedIs
    <3> QED
      BY <3>2 DEF RenamesTo
  <2>2. M1 = [n \in DOMAIN M1 |-> M1[n]]
    BY DEF Renamed, ++
  <2> QED
    BY <1>1, <2>1, <2>2
<1>9. B = M1
  <2>1. \A n \in {"id", "ref", new} : B[n] = M1[n]
    BY <1>7, <1>8
  <2> QED
    BY <1>7, <1>8, <2>1
<1>10. IsModel(M1)
  <2>1. \A n \in DOMAIN M1 : M1[n] = M[IF n = new THEN peer ELSE n] /\ (IF n = new THEN peer ELSE n) \in DOMAIN M
    BY <1>8
  <2>2. \A n \in DOMAIN M1 : M1[n] \in Field
    BY <2>1 DEF IsModel
  <2>3. \A n, m \in DOMAIN M1 : M1[n].pk /\ M1[m].pk => n = m
    BY <1>3, <1>8
  <2>4. \A n \in DOMAIN M1 : /\ M1[n].pk => M1[n].unique /\ ~M1[n].null
                             /\ M1[n].auto => n = "id"
                             /\ n # "ref" => M1[n].to = "none"
    BY <1>1, <1>2, <1>8 DEF IsModel
  <2>5. DOMAIN M1 \subseteq AllColumns
    BY <1>1, <1>8
  <2>6. M1 \in [DOMAIN M1 -> Field]
    BY <1>8, <2>2
  <2> QED
    BY <1>2, <1>8, <2>3, <2>4, <2>5, <2>6 DEF IsModel
<1>11. F = M1
  <2>1. F = Rendered(B)
    BY DEF ReplacementFields
  <2> QED
    BY <1>2, <1>8, <1>9, <2>1 DEF Rendered
<1>12. /\ DOMAIN map = {"id", "ref", new} /\ map["id"] = Expression("id", "null")
       /\ map["ref"] = Expression("ref", "null") /\ map[new] = Expression(peer, "null")
  <2> DEFINE x == MappingOfAltered(a, M)
             y == MappingOfAltered(b, M)
             k == KeptIn(r)
  <2>1. x = Only("ref", Expression("ref", "null")) /\ y = Only(new, Expression(peer, "null"))
    <3>1. /\ a.old = "ref" /\ a.name = "ref" /\ a.field = M["ref"]
          /\ b.old = peer /\ b.name = new /\ b.field = M[peer]
      OBVIOUS
    <3> HIDE DEF a, b
    <3> QED
      BY <3>1 DEF MappingOfAltered
  <2>2. x # y
    <3>1. DOMAIN x = {"ref"} /\ DOMAIN y = {new}
      BY <2>1 DEF Only
    <3> QED
      BY <1>1, <3>1
  <2>3. map \in {x ++ (y ++ k), y ++ (x ++ k)}
    <3> DEFINE P == {MappingOfCreated(c) : c \in r.created}
                    \union {MappingOfAltered(c, Rendered(r.fields)) : c \in r.altered}
    <3>1. map = FoldSet(LAMBDA f, g : f ++ g, k, P)
      BY DEF Mapping, KeptIn
    <3>2. P = {x, y}
      BY <1>4
    <3> HIDE DEF x, y, k, map, P
    <3> QED
      BY <2>2, <3>1, <3>2, FoldTwo
  <2>4. k = [n \in {"id"} |-> Expression(n, "null")]
    BY <1>6 DEF KeptIn
  <2> DEFINE v == Expression("ref", "null")
             w == Expression(peer, "null")
             u == Expression("id", "null")
  <2>5. k = [n \in {"id"} |-> u]
    BY <2>4
  <2> HIDE DEF x, y, k, map, v, w, u
  <2>6. x = [z \in {"ref"} |-> v] /\ y = [z \in {new} |-> w]
    BY <2>1 DEF Only, v, w
  <2>7. CASE map = x ++ (y ++ k)
    <3>1. DOMAIN map = {"id", "ref", new} /\ map["id"] = u /\ map["ref"] = v /\ map[new] = w
      BY <1>1, <2>5, <2>6, <2>7 DEF ++
    <3> QED
      BY <3>1 DEF u, v, w
  <2>8. CASE map = y ++ (x ++ k)
    <3>1. DOMAIN map = {"id", "ref", new} /\ map["id"] = u /\ map["ref"] = v /\ map[new] = w
      BY <1>1, <2>5, <2>6, <2>8 DEF ++
    <3> QED
      BY <3>1 DEF u, v, w
  <2> QED
    BY <2>3, <2>7, <2>8
<1>0. F = ReplacementFields(r) /\ map = Mapping(r)
  OBVIOUS
<1> HIDE DEF F, map, S, B
<1>13. T.columns = M /\ DOMAIN T.rows = DOMAIN D1 /\ DOMAIN D1 = DOMAIN D
  BY <1>4 DEF Fits, HasRows
<1>14. ASSUME NEW row \in DOMAIN D
       PROVE  /\ DOMAIN D1[row] = {"id", "ref", new}
              /\ D1[row]["id"] = T.rows[row]["id"] /\ D1[row]["ref"] = T.rows[row]["ref"] /\ D1[row][new] = T.rows[row][peer]
              /\ \A n \in {"id", "ref", peer} : T.rows[row][n] = "null" => M[n].null
  <2>1. DOMAIN D[row] = {"id", "ref", peer} /\ \A n \in {"id", "ref", peer} : T.rows[row][n] = D[row][n]
    BY DEF Fits, HasRows
  <2>2. \A n \in {"id", "ref", peer} : D[row][n] = "null" => M[n].null
    BY NullsAllowed
  <2>3. D1[row] = Renamed(D[row], peer, new)
    OBVIOUS
  <2>4. new \notin DOMAIN D[row] \ {peer}
    BY <1>1, <2>1
  <2>5. /\ DOMAIN D1[row] = (DOMAIN D[row] \ {peer}) \union {new} /\ D1[row][new] = D[row][peer]
        /\ \A x \in DOMAIN D[row] \ {peer} : D1[row][x] = D[row][x]
    <3>1. RenamesTo(D[row], peer, new, D1[row])
      BY <2>3, <2>4, RenamedIs
    <3> QED
      BY <3>1 DEF RenamesTo
  <2> QED
    BY <1>1, <2>1, <2>2, <2>5
<1>15. \A cells : CellOf("ref", F, map, cells) = cells["ref"] /\ CellOf(new, F, map, cells) = cells[peer]
  <2>1. /\ map["ref"].column = "ref" /\ map["ref"].default = "null"
        /\ map[new].column = peer /\ map[new].default = "null"
    BY <1>12 DEF Expression
  <2>2. peer # "none"
    BY <1>1, ColumnNames
  <2> QED
    BY <1>12, <2>1, <2>2, CellIs
<1>16. CopiesBy(T, M1, D1, F, map, {"id"})
  <2>1. \A n \in DOMAIN map \ {"id"} : map[n].column \in DOMAIN T.columns \union {"none"}
    BY <1>12, <1>13 DEF Expression
  <2>2. ASSUME NEW row \in DOMAIN D1
        PROVE  /\ DOMAIN D1[row] = DOMAIN M1
               /\ \A n \in {"id"} : /\ T.rows[row][n] = "null" => T.columns[n].null
                                    /\ n \in DOMAIN M1 => T.rows[row][n] = D1[row][n]
               /\ \A n \in DOMAIN F \ {"id"} :
                    /\ CellOf(n, F, map, T.rows[row]) = "null" => F[n].null
                    /\ n \in DOMAIN M1 => CellOf(n, F, map, T.rows[row]) = D1[row][n]
    BY <1>8, <1>11, <1>13, <1>14, <1>15, <2>2
  <2> QED
    BY <1>1, <1>8, <1>11, <1>12, <1>13, <2>1, <2>2 DEF CopiesBy
<1> QED
  BY <1>0, <1>8, <1>10, <1>16, Copied
--------------------------------------------------------------------------------
(* The indexes and the deferred statements.                                    *)

LEMMA Concatenated ==
  ASSUME NEW S, NEW a \in Seq(S), NEW b \in Seq(S), Distinct(a), Distinct(b), Range(a) \intersect Range(b) = {}
  PROVE  a \o b \in Seq(S) /\ Distinct(a \o b) /\ Range(a \o b) = Range(a) \union Range(b)
<1> DEFINE c == a \o b
<1>0. Len(a) \in Nat /\ Len(b) \in Nat /\ DOMAIN a = 1..Len(a) /\ DOMAIN b = 1..Len(b)
  OBVIOUS
<1>1. c \in Seq(S) /\ Len(c) = Len(a) + Len(b) /\ DOMAIN c = 1..(Len(a) + Len(b))
  OBVIOUS
<1>2. \A i \in DOMAIN c : c[i] = IF i <= Len(a) THEN a[i] ELSE b[i - Len(a)]
  BY <1>1, ConcatProperties
<1> HIDE DEF c
<1>3. \A i \in DOMAIN c : IF i <= Len(a) THEN i \in DOMAIN a ELSE i - Len(a) \in DOMAIN b
  BY <1>0, <1>1
<1>4. \A i \in DOMAIN c : c[i] \in Range(a) <=> i <= Len(a)
  <2>1. ASSUME NEW i \in DOMAIN c, i <= Len(a) PROVE c[i] \in Range(a)
    BY <1>2, <1>3, <2>1 DEF Range
  <2>2. ASSUME NEW i \in DOMAIN c, ~ (i <= Len(a)) PROVE c[i] \in Range(b)
    BY <1>2, <1>3, <2>2 DEF Range
  <2> QED
    BY <2>1, <2>2
<1>5. Distinct(c)
  <2> SUFFICES ASSUME NEW i \in DOMAIN c, NEW j \in DOMAIN c, c[i] = c[j] PROVE i = j
    BY DEF Distinct
  <2>1. CASE i <= Len(a) /\ j <= Len(a)
    BY <1>2, <1>3, <2>1 DEF Distinct
  <2>2. CASE ~ (i <= Len(a)) /\ ~ (j <= Len(a))
    <3>1. i - Len(a) = j - Len(a)
      BY <1>2, <1>3, <2>2 DEF Distinct
    <3> QED
      BY <1>0, <1>1, <3>1
  <2> QED
    BY <1>4, <2>1, <2>2
<1>6. Range(c) \subseteq Range(a) \union Range(b)
  BY <1>2, <1>3 DEF Range
<1>7. \A i \in DOMAIN a : i \in DOMAIN c /\ c[i] = a[i]
  BY <1>0, <1>1, <1>2
<1>8. \A i \in DOMAIN b : i + Len(a) \in DOMAIN c /\ c[i + Len(a)] = b[i]
  <2> SUFFICES ASSUME NEW i \in DOMAIN b PROVE i + Len(a) \in DOMAIN c /\ c[i + Len(a)] = b[i]
    OBVIOUS
  <2>1. i + Len(a) \in DOMAIN c /\ ~ (i + Len(a) <= Len(a)) /\ (i + Len(a)) - Len(a) = i
    BY <1>0, <1>1
  <2> QED
    BY <1>2, <2>1
<1>9. Range(a) \union Range(b) \subseteq Range(c)
  BY <1>7, <1>8 DEF Range
<1> QED
  BY <1>1, <1>5, <1>6, <1>9 DEF c

\* Statements are told apart by their table and their column.
LEMMA StatementsAre ==
  /\ \A s \in Statements : s = [table |-> s.table, column |-> s.column] /\ s.table \in AllTables /\ s.column \in AllColumns
  /\ \A t \in AllTables, n \in AllColumns :
       LET s == [table |-> t, column |-> n] IN s \in Statements /\ s.table = t /\ s.column = n
  BY DEF Statements

LEMMA FiniteColumns == IsFiniteSet(AllColumns)
<1>1. AllColumns = (((Names \union {"peer"}) \union {"other_peer"}) \union {"id"}) \union {"ref"}
  BY DEF AllColumns, Peers
<1> DEFINE C == (((Names \union {"peer"}) \union {"other_peer"}) \union {"id"}) \union {"ref"}
<1>2. IsFiniteSet(C)
  BY RemakeAssumption, FS_AddElement
<1> QED
  BY <1>1, <1>2

\* The indexes of a table that is created.
LEMMA IndexesOfIs ==
  ASSUME NEW name \in AllTables, NEW fields, DOMAIN fields \subseteq AllColumns
  PROVE  /\ IndexesOf(name, fields) \in Seq(Statements)
         /\ Distinct(IndexesOf(name, fields))
         /\ Range(IndexesOf(name, fields)) = {[table |-> name, column |-> n] : n \in {m \in DOMAIN fields : IsIndexed(fields[m])}}
<1> DEFINE I == {n \in DOMAIN fields : IsIndexed(fields[n])}
           E == {[table |-> name, column |-> n] : n \in I}
<1>1. IsFiniteSet(I)
  BY FiniteColumns, FS_Subset
<1>2. IsFiniteSet(E)
  <2> DEFINE f == [n \in I |-> [table |-> name, column |-> n]]
  <2>1. f \in Surjection(I, E)
    <3>1. f \in [I -> E] /\ \A e \in E : \E n \in I : f[n] = e
      OBVIOUS
    <3> QED
      BY <3>1 DEF Surjection
  <2> QED
    BY <1>1, <2>1, FS_Surjection
<1>3. IndexesOf(name, fields) = SetToSeq(E)
  BY DEF IndexesOf
<1>4. E \subseteq Statements
  BY DEF Statements
<1> HIDE DEF E
<1>5. SetToSeq(E) \in Seq(E) /\ Distinct(SetToSeq(E)) /\ Range(SetToSeq(E)) = E
  BY <1>2, SetToSeqHas
<1>6. SetToSeq(E) \in Seq(Statements)
  BY <1>4, <1>5
<1> QED
  BY <1>3, <1>5, <1>6 DEF E

CreatedIn(ts1, ts, name, fields) ==
  /\ DOMAIN ts1 = DOMAIN ts \union {name}
  /\ \A t \in DOMAIN ts : ts1[t] = ts[t]
  /\ ts1[name] = [columns |-> fields, rows |-> << >>, indexes |-> {}]

LEMMA IndexedCreated ==
  ASSUME NEW ts, NEW sql, Indexed(ts, sql), NEW name \in AllTables, name \notin DOMAIN ts,
         NEW fields, DOMAIN fields \subseteq AllColumns, NEW ts1, CreatedIn(ts1, ts, name, fields)
  PROVE  Indexed(ts1, sql \o IndexesOf(name, fields))
<1> DEFINE new == IndexesOf(name, fields)
<1>1. /\ new \in Seq(Statements) /\ Distinct(new)
      /\ Range(new) = {[table |-> name, column |-> n] : n \in {m \in DOMAIN fields : IsIndexed(fields[m])}}
  BY IndexesOfIs
<1> HIDE DEF new
<1>2. \A s \in Range(new) : s.table = name /\ s.column \in DOMAIN fields
  BY <1>1
<1>3. sql \in Seq(Statements) /\ Distinct(sql) /\ \A s \in Range(sql) : s.table \in DOMAIN ts
  BY DEF Indexed
<1>4. Range(sql) \intersect Range(new) = {}
  BY <1>2, <1>3
<1>5. /\ sql \o new \in Seq(Statements) /\ Distinct(sql \o new)
      /\ Range(sql \o new) = Range(sql) \union Range(new)
  BY <1>1, <1>3, <1>4, Concatenated
<1>6. ts1[name].columns = fields /\ ts1[name].indexes = {}
  BY DEF CreatedIn
<1>7. \A s \in Range(sql \o new) :
        s.table \in DOMAIN ts1 /\ s.column \in DOMAIN ts1[s.table].columns \ ts1[s.table].indexes
  <2>1. \A s \in Range(sql) :
          s.table \in DOMAIN ts1 /\ s.column \in DOMAIN ts1[s.table].columns \ ts1[s.table].indexes
    BY DEF Indexed, CreatedIn
  <2>2. \A s \in Range(new) :
          s.table \in DOMAIN ts1 /\ s.column \in DOMAIN ts1[s.table].columns \ ts1[s.table].indexes
    BY <1>2, <1>6 DEF CreatedIn
  <2> QED
    BY <1>5, <2>1, <2>2
<1>8. ASSUME NEW t \in DOMAIN ts1, NEW n \in DOMAIN ts1[t].columns
      PROVE  IsIndexed(ts1[t].columns[n]) <=> n \in ts1[t].indexes \/ [table |-> t, column |-> n] \in Range(sql \o new)
  <2> DEFINE s == [table |-> t, column |-> n]
  <2>0. s.table = t /\ s.column = n
    OBVIOUS
  <2>1. CASE t = name
    <3>1. s \in Range(new) <=> IsIndexed(fields[n])
      BY <1>1, <1>6, <2>1
    <3>2. s \notin Range(sql)
      BY <1>3, <2>0, <2>1
    <3> HIDE DEF s
    <3> QED
      BY <1>5, <1>6, <2>1, <3>1, <3>2 DEF s
  <2>2. CASE t # name
    <3>1. s \notin Range(new)
      BY <1>2, <2>0, <2>2
    <3>2. t \in DOMAIN ts /\ ts1[t] = ts[t]
      BY <2>2 DEF CreatedIn
    <3>3. IsIndexed(ts[t].columns[n]) <=> n \in ts[t].indexes \/ s \in Range(sql)
      BY <3>2 DEF Indexed
    <3> HIDE DEF s
    <3> QED
      BY <1>5, <3>1, <3>2, <3>3 DEF s
  <2> QED
    BY <2>1, <2>2
<1>9. Indexed(ts1, sql \o new)
  BY <1>5, <1>7, <1>8 DEF Indexed
<1> QED
  BY <1>9 DEF new

\* What leaves the columns and the indexes alone.
SameColumns(T1, T) ==
  /\ DOMAIN T1.columns = DOMAIN T.columns /\ T1.indexes = T.indexes
  /\ \A n \in DOMAIN T.columns : IsIndexed(T1.columns[n]) = IsIndexed(T.columns[n])

LEMMA IndexedSame ==
  ASSUME NEW ts, NEW sql, Indexed(ts, sql), NEW ts1,
         DOMAIN ts1 = DOMAIN ts, \A t \in DOMAIN ts : SameColumns(ts1[t], ts[t])
  PROVE  Indexed(ts1, sql)
<1>1. \A s \in Range(sql) :
        s.table \in DOMAIN ts1 /\ s.column \in DOMAIN ts1[s.table].columns \ ts1[s.table].indexes
  BY DEF Indexed, SameColumns
<1>2. ASSUME NEW t \in DOMAIN ts1, NEW n \in DOMAIN ts1[t].columns
      PROVE  IsIndexed(ts1[t].columns[n]) <=> n \in ts1[t].indexes \/ [table |-> t, column |-> n] \in Range(sql)
  <2>1. /\ t \in DOMAIN ts /\ n \in DOMAIN ts[t].columns /\ ts1[t].indexes = ts[t].indexes
        /\ IsIndexed(ts1[t].columns[n]) = IsIndexed(ts[t].columns[n])
    BY DEF SameColumns
  <2>2. IsIndexed(ts[t].columns[n]) <=> n \in ts[t].indexes \/ [table |-> t, column |-> n] \in Range(sql)
    BY <2>1 DEF Indexed
  <2> QED
    BY <2>1, <2>2
<1> QED
  BY <1>1, <1>2 DEF Indexed

DroppedFrom(ts1, ts, name) == DOMAIN ts1 = DOMAIN ts \ {name} /\ \A t \in DOMAIN ts1 : ts1[t] = ts[t]

\* A table is dropped, and its deferred statements are forgotten.
LEMMA IndexedDropped ==
  ASSUME NEW ts, NEW sql, Indexed(ts, sql), NEW name, NEW ts1, DroppedFrom(ts1, ts, name)
  PROVE  Indexed(ts1, Filtered({s \in Range(sql) : s.table = name}, sql))
<1> DEFINE gone == {s \in Range(sql) : s.table = name}
           left == Filtered(gone, sql)
<1>1. left \in Seq(Statements) /\ Distinct(left) /\ Range(left) = Range(sql) \ gone
  BY FilteredHas DEF Indexed
<1> HIDE DEF left
<1>2. \A s \in Range(left) : s \in Range(sql) /\ s.table # name
  BY <1>1
<1>3. \A s \in Range(left) :
        s.table \in DOMAIN ts1 /\ s.column \in DOMAIN ts1[s.table].columns \ ts1[s.table].indexes
  BY <1>2 DEF Indexed, DroppedFrom
<1>4. ASSUME NEW t \in DOMAIN ts1, NEW n \in DOMAIN ts1[t].columns
      PROVE  IsIndexed(ts1[t].columns[n]) <=> n \in ts1[t].indexes \/ [table |-> t, column |-> n] \in Range(left)
  <2> DEFINE s == [table |-> t, column |-> n]
  <2>1. t \in DOMAIN ts /\ ts1[t] = ts[t] /\ t # name
    BY DEF DroppedFrom
  <2>2. s.table # name
    BY <2>1
  <2>3. IsIndexed(ts[t].columns[n]) <=> n \in ts[t].indexes \/ s \in Range(sql)
    BY <2>1 DEF Indexed
  <2> HIDE DEF s
  <2>4. s \in Range(left) <=> s \in Range(sql)
    BY <1>1, <2>2
  <2> QED
    BY <2>1, <2>3, <2>4 DEF s
<1>5. Indexed(ts1, left)
  BY <1>1, <1>3, <1>4 DEF Indexed
<1> QED
  BY <1>5 DEF left

\* A column without an index is dropped.
ColumnDroppedFrom(ts1, ts, table, name) ==
  /\ DOMAIN ts1 = DOMAIN ts /\ \A t \in DOMAIN ts \ {table} : ts1[t] = ts[t]
  /\ ts1[table].columns = Without(ts[table].columns, name) /\ ts1[table].indexes = ts[table].indexes

LEMMA IndexedColumnDropped ==
  ASSUME NEW ts, NEW sql, Indexed(ts, sql), NEW table \in DOMAIN ts, NEW name \in DOMAIN ts[table].columns,
         ~IsIndexed(ts[table].columns[name]), NEW ts1, ColumnDroppedFrom(ts1, ts, table, name)
  PROVE  /\ Indexed(ts1, Filtered({s \in Range(sql) : s.table = table /\ s.column = name}, sql))
         /\ name \notin ts[table].indexes
<1> DEFINE gone == {s \in Range(sql) : s.table = table /\ s.column = name}
           left == Filtered(gone, sql)
<1>1. left \in Seq(Statements) /\ Distinct(left) /\ Range(left) = Range(sql) \ gone
  BY FilteredHas DEF Indexed
<1>2. name \notin ts[table].indexes /\ [table |-> table, column |-> name] \notin Range(sql)
  BY DEF Indexed
<1>3. /\ DOMAIN ts1[table].columns = DOMAIN ts[table].columns \ {name}
      /\ \A n \in DOMAIN ts1[table].columns : ts1[table].columns[n] = ts[table].columns[n]
  BY DEF ColumnDroppedFrom, Without
<1> HIDE DEF left
<1>4. \A s \in Range(left) : s \in Range(sql) /\ ~ (s.table = table /\ s.column = name)
  BY <1>1
<1>5. ASSUME NEW s \in Range(left)
      PROVE  s.table \in DOMAIN ts1 /\ s.column \in DOMAIN ts1[s.table].columns \ ts1[s.table].indexes
  <2>1. s.table \in DOMAIN ts /\ s.column \in DOMAIN ts[s.table].columns \ ts[s.table].indexes
    BY <1>4 DEF Indexed
  <2>2. CASE s.table = table
    BY <1>3, <1>4, <2>1, <2>2 DEF ColumnDroppedFrom
  <2>3. CASE s.table # table
    BY <2>1, <2>3 DEF ColumnDroppedFrom
  <2> QED
    BY <2>2, <2>3
<1>6. ASSUME NEW t \in DOMAIN ts1, NEW n \in DOMAIN ts1[t].columns
      PROVE  IsIndexed(ts1[t].columns[n]) <=> n \in ts1[t].indexes \/ [table |-> t, column |-> n] \in Range(left)
  <2> DEFINE s == [table |-> t, column |-> n]
  <2>1. t \in DOMAIN ts /\ n \in DOMAIN ts[t].columns /\ ts1[t].columns[n] = ts[t].columns[n] /\ ts1[t].indexes = ts[t].indexes
        /\ ~ (t = table /\ n = name)
    <3>1. CASE t = table
      BY <1>3, <3>1 DEF ColumnDroppedFrom
    <3>2. CASE t # table
      BY <3>2 DEF ColumnDroppedFrom
    <3> QED
      BY <3>1, <3>2
  <2>2. ~ (s.table = table /\ s.column = name)
    BY <2>1
  <2>3. IsIndexed(ts[t].columns[n]) <=> n \in ts[t].indexes \/ s \in Range(sql)
    BY <2>1 DEF Indexed
  <2> HIDE DEF s
  <2>4. s \in Range(left) <=> s \in Range(sql)
    BY <1>1, <2>2
  <2> QED
    BY <2>1, <2>3, <2>4 DEF s
<1>7. Indexed(ts1, left)
  BY <1>1, <1>5, <1>6 DEF Indexed
<1> QED
  BY <1>2, <1>7 DEF left

\* Every statement is rewritten, and no two of them alike.
RewrittenBy(sql1, sql, g) ==
  /\ sql1 = [i \in DOMAIN sql |-> sql1[i]]
  /\ \A i \in DOMAIN sql : sql1[i] = g[sql[i]] /\ g[sql[i]] \in Statements
  /\ \A s, t \in Range(sql) : g[s] = g[t] => s = t

LEMMA Rewritten ==
  ASSUME NEW sql \in Seq(Statements), Distinct(sql), NEW sql1, NEW g, RewrittenBy(sql1, sql, g)
  PROVE  sql1 \in Seq(Statements) /\ Distinct(sql1) /\ Range(sql1) = {g[s] : s \in Range(sql)}
<1> USE DEF RewrittenBy
<1>1. DOMAIN sql1 = 1..Len(sql) /\ Len(sql) \in Nat /\ DOMAIN sql = 1..Len(sql)
  OBVIOUS
<1>2. sql1 \in Seq(Statements)
  BY <1>1
<1>3. Distinct(sql1)
  <2> SUFFICES ASSUME NEW i \in DOMAIN sql1, NEW j \in DOMAIN sql1, sql1[i] = sql1[j] PROVE i = j
    BY DEF Distinct
  <2>1. i \in DOMAIN sql /\ j \in DOMAIN sql /\ sql[i] \in Range(sql) /\ sql[j] \in Range(sql)
    BY <1>1 DEF Range
  <2> QED
    BY <2>1 DEF Distinct
<1>4. Range(sql1) = {g[s] : s \in Range(sql)}
  <2>1. \A x \in Range(sql1) : x \in {g[s] : s \in Range(sql)}
    BY <1>1 DEF Range
  <2>2. \A s \in Range(sql) : g[s] \in Range(sql1)
    BY <1>1 DEF Range
  <2> QED
    BY <2>1, <2>2
<1> QED
  BY <1>2, <1>3, <1>4

\* A table is renamed, in the deferred statements, too.
LEMMA IndexedRenamed ==
  ASSUME NEW ts, NEW sql, Indexed(ts, sql), NEW old \in DOMAIN ts, NEW new \in AllTables, new \notin DOMAIN ts
  PROVE  Indexed(Renamed(ts, old, new),
                 [i \in DOMAIN sql |-> [sql[i] EXCEPT !.table = IF @ = old THEN new ELSE @]])
<1> DEFINE ts1 == Renamed(ts, old, new)
           sql1 == [i \in DOMAIN sql |-> [sql[i] EXCEPT !.table = IF @ = old THEN new ELSE @]]
           g == [s \in Range(sql) |-> [table |-> IF s.table = old THEN new ELSE s.table, column |-> s.column]]
<1>1. RenamesTo(ts, old, new, ts1)
  BY RenamedIs
<1>2. /\ DOMAIN ts1 = (DOMAIN ts \ {old}) \union {new} /\ ts1[new] = ts[old]
      /\ \A t \in DOMAIN ts \ {old} : ts1[t] = ts[t]
  BY <1>1 DEF RenamesTo
<1>3. sql \in Seq(Statements) /\ Distinct(sql)
  BY DEF Indexed
<1>4. \A i \in DOMAIN sql : sql[i] \in Range(sql) /\ sql[i] \in Statements
  BY <1>3 DEF Range
<1>5. \A s \in Range(sql) : s \in Statements /\ s.table \in DOMAIN ts
  BY <1>3 DEF Range, Indexed
<1>6. /\ \A s \in Range(sql) : g[s] \in Statements /\ g[s].table = (IF s.table = old THEN new ELSE s.table) /\ g[s].column = s.column
      /\ \A s \in Range(sql) : [s EXCEPT !.table = IF @ = old THEN new ELSE @] = g[s]
  BY <1>5 DEF Statements
<1>7. \A i \in DOMAIN sql : sql1[i] = g[sql[i]] /\ g[sql[i]] \in Statements
  <2> HIDE DEF g
  <2> QED
    BY <1>4, <1>6
<1>8. sql1 = [i \in DOMAIN sql |-> sql1[i]]
  OBVIOUS
<1> HIDE DEF ts1, sql1, g
<1>9. \A s, t \in Range(sql) : g[s] = g[t] => s = t
  <2> SUFFICES ASSUME NEW s \in Range(sql), NEW t \in Range(sql), g[s] = g[t] PROVE s = t
    OBVIOUS
  <2>1. s.table = t.table /\ s.column = t.column
    BY <1>5, <1>6
  <2> QED
    BY <1>5, <2>1, StatementsAre
<1>10. sql1 \in Seq(Statements) /\ Distinct(sql1) /\ Range(sql1) = {g[s] : s \in Range(sql)}
  BY <1>3, <1>7, <1>8, <1>9, Rewritten DEF RewrittenBy
<1>11. ASSUME NEW u \in Range(sql1)
       PROVE  u.table \in DOMAIN ts1 /\ u.column \in DOMAIN ts1[u.table].columns \ ts1[u.table].indexes
  <2>1. PICK s \in Range(sql) : u = g[s]
    BY <1>10
  <2>2. s.column \in DOMAIN ts[s.table].columns \ ts[s.table].indexes
    BY DEF Indexed
  <2> QED
    BY <1>2, <1>5, <1>6, <2>1, <2>2
<1>12. ASSUME NEW t \in DOMAIN ts1, NEW n \in DOMAIN ts1[t].columns
       PROVE  IsIndexed(ts1[t].columns[n]) <=> n \in ts1[t].indexes \/ [table |-> t, column |-> n] \in Range(sql1)
  <2> DEFINE o == IF t = new THEN old ELSE t
             s == [table |-> o, column |-> n]
             u == [table |-> t, column |-> n]
  <2>1. o \in DOMAIN ts /\ ts1[t] = ts[o]
    BY <1>2
  <2>2. IsIndexed(ts[o].columns[n]) <=> n \in ts[o].indexes \/ s \in Range(sql)
    BY <2>1 DEF Indexed
  <2>3. s.table = o /\ s.column = n /\ u.table = t /\ u.column = n
    OBVIOUS
  <2>4. u \in Range(sql1) <=> s \in Range(sql)
    <3>1. ASSUME s \in Range(sql) PROVE u \in Range(sql1)
      <4>1. g[s].table = t /\ g[s].column = n /\ g[s] \in Statements
        <5>1. g[s].table = (IF s.table = old THEN new ELSE s.table) /\ g[s].column = s.column /\ g[s] \in Statements
          BY <1>6, <3>1
        <5>2. (IF o = old THEN new ELSE o) = t
          BY <1>2
        <5> HIDE DEF s, o
        <5> QED
          BY <2>3, <5>1, <5>2
      <4>2. g[s] = u
        BY <4>1, StatementsAre
      <4> QED
        BY <1>10, <3>1, <4>2
    <3>2. ASSUME u \in Range(sql1) PROVE s \in Range(sql)
      <4>1. PICK x \in Range(sql) : u = g[x]
        BY <1>10, <3>2
      <4>2. t = (IF x.table = old THEN new ELSE x.table) /\ n = x.column /\ x.table \in DOMAIN ts
        <5> HIDE DEF u
        <5> QED
          BY <1>5, <1>6, <2>3, <4>1
      <4>3. x.table = o
        BY <4>2
      <4>4. x = [table |-> x.table, column |-> x.column]
        BY <1>5, StatementsAre
      <4> QED
        BY <4>2, <4>3, <4>4
    <3> QED
      BY <3>1, <3>2
  <2> HIDE DEF s, u, o
  <2> QED
    BY <2>1, <2>2, <2>4 DEF u
<1>13. Indexed(ts1, sql1)
  BY <1>10, <1>11, <1>12 DEF Indexed
<1> QED
  BY <1>13 DEF ts1, sql1

\* A column of a table is renamed, in its indexes and in the deferred statements, too.
ColumnRenamedIn(ts1, ts, table, old, new) ==
  /\ DOMAIN ts1 = DOMAIN ts
  /\ RenamesTo(ts[table].columns, old, new, ts1[table].columns)
  /\ ts1[table].indexes = {IF n = old THEN new ELSE n : n \in ts[table].indexes}
  /\ \A t \in DOMAIN ts \ {table} : SameColumns(ts1[t], ts[t])

LEMMA IndexedColumnRenamed ==
  ASSUME NEW ts, NEW sql, Indexed(ts, sql), NEW table \in DOMAIN ts, NEW old \in DOMAIN ts[table].columns,
         NEW new \in AllColumns, new \notin DOMAIN ts[table].columns, ts[table].indexes \subseteq DOMAIN ts[table].columns,
         NEW ts1, ColumnRenamedIn(ts1, ts, table, old, new)
  PROVE  Indexed(ts1, [i \in DOMAIN sql |-> [sql[i] EXCEPT !.column =
                         IF sql[i].table = table /\ @ = old THEN new ELSE @]])
<1> DEFINE sql1 == [i \in DOMAIN sql |-> [sql[i] EXCEPT !.column = IF sql[i].table = table /\ @ = old THEN new ELSE @]]
           to(s) == IF s.table = table /\ s.column = old THEN new ELSE s.column
           g == [s \in Range(sql) |-> [table |-> s.table, column |-> to(s)]]
<1>1. sql \in Seq(Statements) /\ Distinct(sql)
  BY DEF Indexed
<1>2. \A i \in DOMAIN sql : sql[i] \in Range(sql) /\ sql[i] \in Statements
  BY <1>1 DEF Range
<1>3. \A s \in Range(sql) : /\ s \in Statements /\ s.table \in DOMAIN ts
                            /\ s.column \in DOMAIN ts[s.table].columns \ ts[s.table].indexes
  BY <1>1 DEF Range, Indexed
<1>4. /\ \A s \in Range(sql) : g[s] \in Statements /\ g[s].table = s.table /\ g[s].column = to(s)
      /\ \A s \in Range(sql) : [s EXCEPT !.column = IF s.table = table /\ @ = old THEN new ELSE @] = g[s]
  BY <1>3 DEF Statements
<1>5. \A i \in DOMAIN sql : sql1[i] = g[sql[i]] /\ g[sql[i]] \in Statements
  <2> HIDE DEF g, to
  <2> QED
    BY <1>2, <1>4
<1>6. sql1 = [i \in DOMAIN sql |-> sql1[i]]
  OBVIOUS
<1> HIDE DEF sql1, g
<1>7. \A s, t \in Range(sql) : g[s] = g[t] => s = t
  <2> SUFFICES ASSUME NEW s \in Range(sql), NEW t \in Range(sql), g[s] = g[t] PROVE s = t
    OBVIOUS
  <2>1. s.table = t.table /\ to(s) = to(t)
    BY <1>4
  <2>2. s.column = t.column
    BY <1>3, <2>1
  <2> QED
    BY <1>3, <2>1, <2>2, StatementsAre
<1>8. sql1 \in Seq(Statements) /\ Distinct(sql1) /\ Range(sql1) = {g[s] : s \in Range(sql)}
  <2>1. RewrittenBy(sql1, sql, g)
    BY <1>5, <1>6, <1>7 DEF RewrittenBy
  <2> QED
    BY <1>1, <2>1, Rewritten
<1>9. /\ DOMAIN ts1[table].columns = (DOMAIN ts[table].columns \ {old}) \union {new}
      /\ ts1[table].columns[new] = ts[table].columns[old]
      /\ \A n \in DOMAIN ts[table].columns \ {old} : ts1[table].columns[n] = ts[table].columns[n]
  BY DEF ColumnRenamedIn, RenamesTo
<1>10. \A n \in DOMAIN ts[table].columns :
         (IF n = old THEN new ELSE n) \in ts1[table].indexes <=> n \in ts[table].indexes
  BY DEF ColumnRenamedIn
<1>11. ASSUME NEW u \in Range(sql1)
       PROVE  u.table \in DOMAIN ts1 /\ u.column \in DOMAIN ts1[u.table].columns \ ts1[u.table].indexes
  <2>1. PICK s \in Range(sql) : u = g[s]
    BY <1>8
  <2>2. s.table \in DOMAIN ts /\ s.column \in DOMAIN ts[s.table].columns \ ts[s.table].indexes
    BY <1>3
  <2>3. u.table = s.table /\ u.column = to(s)
    BY <1>4, <2>1
  <2>4. CASE s.table = table
    <3>1. to(s) = IF s.column = old THEN new ELSE s.column
      BY <2>4
    <3>2. to(s) \in DOMAIN ts1[table].columns /\ to(s) \notin ts1[table].indexes
      BY <1>9, <1>10, <2>2, <2>4, <3>1
    <3> QED
      BY <2>2, <2>3, <2>4, <3>2 DEF ColumnRenamedIn
  <2>5. CASE s.table # table
    <3>1. SameColumns(ts1[s.table], ts[s.table]) /\ to(s) = s.column
      BY <2>2, <2>5 DEF ColumnRenamedIn
    <3> QED
      BY <2>2, <2>3, <3>1 DEF ColumnRenamedIn, SameColumns
  <2> QED
    BY <2>4, <2>5
<1>12. ASSUME NEW t \in DOMAIN ts1, NEW n \in DOMAIN ts1[t].columns
       PROVE  IsIndexed(ts1[t].columns[n]) <=> n \in ts1[t].indexes \/ [table |-> t, column |-> n] \in Range(sql1)
  <2> DEFINE o == IF t = table /\ n = new THEN old ELSE n
             s == [table |-> t, column |-> o]
             u == [table |-> t, column |-> n]
  <2>1. /\ t \in DOMAIN ts /\ o \in DOMAIN ts[t].columns /\ IsIndexed(ts1[t].columns[n]) = IsIndexed(ts[t].columns[o])
        /\ n \in ts1[t].indexes <=> o \in ts[t].indexes
        /\ ~ (t = table /\ n = old)
    <3>1. CASE t = table
      <4>1. n # old
        BY <1>9, <3>1
      <4>2. o \in DOMAIN ts[table].columns /\ ts1[table].columns[n] = ts[table].columns[o] /\ (IF o = old THEN new ELSE o) = n
        BY <1>9, <3>1, <4>1
      <4> QED
        BY <1>10, <3>1, <4>1, <4>2 DEF ColumnRenamedIn
    <3>2. CASE t # table
      <4>1. SameColumns(ts1[t], ts[t]) /\ o = n /\ t \in DOMAIN ts
        BY <3>2 DEF ColumnRenamedIn
      <4> QED
        BY <3>2, <4>1 DEF SameColumns
    <3> QED
      BY <3>1, <3>2
  <2>2. IsIndexed(ts[t].columns[o]) <=> o \in ts[t].indexes \/ s \in Range(sql)
    BY <2>1 DEF Indexed
  <2>3. s.table = t /\ s.column = o /\ u.table = t /\ u.column = n
    OBVIOUS
  <2>4. u \in Range(sql1) <=> s \in Range(sql)
    <3>1. ASSUME s \in Range(sql) PROVE u \in Range(sql1)
      <4>1. g[s].table = t /\ g[s].column = to(s) /\ g[s] \in Statements
        <5> HIDE DEF s, o, to
        <5> QED
          BY <1>4, <2>3, <3>1
      <4>2. to(s) = n
        <5>1. to(s) = IF t = table /\ o = old THEN new ELSE o
          BY <2>3
        <5> HIDE DEF s, to
        <5> QED
          BY <2>1, <5>1
      <4>3. g[s] = u
        BY <4>1, <4>2, StatementsAre
      <4> QED
        BY <1>8, <3>1, <4>3
    <3>2. ASSUME u \in Range(sql1) PROVE s \in Range(sql)
      <4>1. PICK x \in Range(sql) : u = g[x]
        BY <1>8, <3>2
      <4>2. x.table = t /\ to(x) = n
        <5> HIDE DEF u, to
        <5> QED
          BY <1>4, <2>3, <4>1
      <4>3. x.column \in DOMAIN ts[t].columns
        BY <1>3, <4>2
      <4>4. x.column = o
        <5>1. to(x) = IF t = table /\ x.column = old THEN new ELSE x.column
          BY <4>2
        <5> HIDE DEF to
        <5> QED
          BY <4>2, <4>3, <5>1
      <4>5. x = [table |-> x.table, column |-> x.column]
        BY <1>3, StatementsAre
      <4> QED
        BY <4>2, <4>4, <4>5
    <3> QED
      BY <3>1, <3>2
  <2> HIDE DEF s, u, o
  <2> QED
    BY <2>1, <2>2, <2>4 DEF u
<1>13. DOMAIN ts1 = DOMAIN ts
  BY DEF ColumnRenamedIn
<1>14. Indexed(ts1, sql1)
  BY <1>8, <1>11, <1>12 DEF Indexed
<1> QED
  BY <1>14 DEF sql1

\* A deferred statement runs.
LEMMA IndexedRun ==
  ASSUME NEW ts, NEW sql, Indexed(ts, sql), sql # <<>>,
         NEW ts1, DOMAIN ts1 = DOMAIN ts, \A t \in DOMAIN ts \ {Head(sql).table} : ts1[t] = ts[t],
         ts1[Head(sql).table].columns = ts[Head(sql).table].columns,
         ts1[Head(sql).table].indexes = ts[Head(sql).table].indexes \union {Head(sql).column}
  PROVE  Indexed(ts1, Tail(sql))
<1> DEFINE h == Head(sql)
           rest == Tail(sql)
<1>1. sql \in Seq(Statements) /\ Distinct(sql) /\ Len(sql) \in Nat /\ Len(sql) >= 1
  BY DEF Indexed
<1>2. /\ h = sql[1] /\ rest \in Seq(Statements) /\ DOMAIN rest = 1..(Len(sql) - 1)
      /\ \A i \in DOMAIN rest : rest[i] = sql[i + 1]
  BY <1>1
<1> HIDE DEF h, rest
<1>3. Distinct(rest)
  <2> SUFFICES ASSUME NEW i \in DOMAIN rest, NEW j \in DOMAIN rest, rest[i] = rest[j] PROVE i = j
    BY DEF Distinct
  <2>1. i + 1 \in DOMAIN sql /\ j + 1 \in DOMAIN sql /\ sql[i + 1] = sql[j + 1]
    BY <1>1, <1>2
  <2>2. i + 1 = j + 1
    BY <1>1, <2>1 DEF Distinct
  <2> QED
    BY <1>2, <2>2
<1>4. Range(rest) = Range(sql) \ {h} /\ h \in Range(sql)
  <2>1. 1 \in DOMAIN sql /\ h \in Range(sql)
    BY <1>1, <1>2 DEF Range
  <2>2. \A s \in Range(rest) : s \in Range(sql) /\ s # h
    <3>1. \A i \in DOMAIN rest : i + 1 \in DOMAIN sql /\ i + 1 # 1
      BY <1>1, <1>2
    <3> QED
      BY <1>1, <1>2, <2>1, <3>1 DEF Range, Distinct
  <2>3. \A s \in Range(sql) \ {h} : s \in Range(rest)
    <3>1. \A i \in DOMAIN sql : i # 1 => i - 1 \in DOMAIN rest /\ (i - 1) + 1 = i
      BY <1>1, <1>2
    <3> QED
      BY <1>2, <3>1 DEF Range
  <2> QED
    BY <2>1, <2>2, <2>3
<1>5. h \in Statements /\ \A s \in Range(sql) : s \in Statements
  BY <1>1, <1>4 DEF Range
<1>6. ASSUME NEW s \in Range(rest)
      PROVE  s.table \in DOMAIN ts1 /\ s.column \in DOMAIN ts1[s.table].columns \ ts1[s.table].indexes
  <2>1. s \in Range(sql) /\ s # h
    BY <1>4
  <2>2. s.table \in DOMAIN ts /\ s.column \in DOMAIN ts[s.table].columns \ ts[s.table].indexes
    BY <2>1 DEF Indexed
  <2>3. CASE s.table = h.table
    <3>1. s.column # h.column
      BY <1>5, <2>1, <2>3, StatementsAre
    <3> QED
      BY <2>2, <2>3, <3>1 DEF h
  <2>4. CASE s.table # h.table
    BY <2>2, <2>4 DEF h
  <2> QED
    BY <2>3, <2>4
<1>7. ASSUME NEW t \in DOMAIN ts1, NEW n \in DOMAIN ts1[t].columns
      PROVE  IsIndexed(ts1[t].columns[n]) <=> n \in ts1[t].indexes \/ [table |-> t, column |-> n] \in Range(rest)
  <2> DEFINE s == [table |-> t, column |-> n]
  <2>1. t \in DOMAIN ts /\ ts1[t].columns = ts[t].columns
    BY DEF h
  <2>2. IsIndexed(ts[t].columns[n]) <=> n \in ts[t].indexes \/ s \in Range(sql)
    BY <2>1 DEF Indexed
  <2>3. s = h <=> t = h.table /\ n = h.column
    BY <1>5, StatementsAre
  <2> HIDE DEF s
  <2>4. n \in ts1[t].indexes <=> n \in ts[t].indexes \/ (t = h.table /\ n = h.column)
    BY <2>1 DEF h
  <2> QED
    BY <1>4, <2>1, <2>2, <2>3, <2>4 DEF s
<1>8. Indexed(ts1, rest)
  BY <1>2, <1>3, <1>6, <1>7 DEF Indexed
<1> QED
  BY <1>8 DEF rest
--------------------------------------------------------------------------------
(* The invariant, state by state.                                              *)

AsBefore(T1, T) == T1.columns = T.columns /\ T1.rows = T.rows

LEMMA SameRows ==
  ASSUME NEW T, NEW T1, AsBefore(T1, T), NEW M, NEW D
  PROVE  /\ Fits(T, M, D) => Fits(T1, M, D)
         /\ HoldsIn(T, D) => HoldsIn(T1, D)
         /\ \A r : Copies(r, T, M, D) => Copies(r, T1, M, D)
<1>1. Fits(T, M, D) => Fits(T1, M, D)
  BY DEF AsBefore, Fits, HasRows
<1>2. HoldsIn(T, D) => HoldsIn(T1, D)
  BY DEF AsBefore, HoldsIn
<1>3. ASSUME NEW r, Copies(r, T, M, D) PROVE Copies(r, T1, M, D)
  <2> DEFINE F == ReplacementFields(r)
             map == Mapping(r)
  <2>0. F = ReplacementFields(r) /\ map = Mapping(r)
    OBVIOUS
  <2> HIDE DEF F, map
  <2> QED
    BY <1>3, <2>0 DEF AsBefore, Copies
<1> QED
  BY <1>1, <1>2, <1>3

LEMMA FitHolds ==
  ASSUME NEW T, NEW M, NEW D, Fits(T, M, D)
  PROVE  HoldsIn(T, D)
  BY DEF Fits, HasRows, HoldsIn

\* Between the operations every table is that of its model.
Calm(ts, ms, ds) == DOMAIN ts = DOMAIN ms /\ \A m \in DOMAIN ms : Fits(ts[m], ms[m], ds[m])

LEMMA IsCalm ==
  ASSUME RemakeInv, step \in {"outside", "editing", "exit"}
  PROVE  /\ remakes = <<>> /\ Calm(tables, models, data) /\ Indexed(tables, deferred_sql)
         /\ Shape /\ Saved /\ refused = FALSE /\ step # "failed" /\ ~Remaking
<1>1. remakes = <<>>
  BY DEF RemakeInv, Shape, Remaking
<1>2. ~ (\E r : remakes = <<r>>) /\ ~ (\E r, s : remakes = <<r, s>>)
  BY <1>1
<1>3. DOMAIN tables = DOMAIN models /\ Rest({})
  BY <1>2 DEF RemakeInv, RemakesOK
<1> QED
  BY <1>1, <1>3 DEF RemakeInv, Calm, Rest, IndexesOK, Remaking

\* What is left to show of an operation that is done at once.
LEMMA StaysCalm ==
  ASSUME Shape', Saved', refused' = FALSE, step' # "failed",
         remakes' = <<>>, Calm(tables', models', data'), Indexed(tables', deferred_sql')
  PROVE  RemakeInv'
<1>1. RemakesOK'
  BY DEF RemakesOK, Calm, Rest
<1> QED
  BY <1>1 DEF RemakeInv, IndexesOK

\* The remake in progress, and the one that may follow it.
LEMMA InProgress ==
  ASSUME RemakeInv, Remaking
  PROVE  /\ Shape /\ Saved /\ refused = FALSE /\ Indexed(tables, deferred_sql) /\ step # "failed"
         /\ Making(remake)
         /\ \/ remakes = <<remake>> /\ Rest({Model(remake)})
            \/ \E s : remakes = <<remake, s>> /\ remake.table = "parent" /\ Waiting(s)
<1>1. Shape /\ Saved /\ refused = FALSE /\ Indexed(tables, deferred_sql) /\ step # "failed" /\ RemakesOK
  BY DEF RemakeInv, Remaking, IndexesOK
<1>2. remakes # <<>>
  BY <1>1 DEF Shape
<1>3. CASE \E r : remakes = <<r>> /\ Making(r) /\ Rest({Model(r)})
  <2>1. PICK r : remakes = <<r>> /\ Making(r) /\ Rest({Model(r)})
    BY <1>3
  <2>2. remake = r
    BY <2>1, ShortSequences DEF remake
  <2> QED
    BY <1>1, <2>1, <2>2
<1>4. CASE \E r, s : remakes = <<r, s>> /\ r.table = "parent" /\ Making(r) /\ Waiting(s)
  <2>1. PICK r, s : remakes = <<r, s>> /\ r.table = "parent" /\ Making(r) /\ Waiting(s)
    BY <1>4
  <2>2. remake = r
    BY <2>1, ShortSequences DEF remake
  <2> QED
    BY <1>1, <2>1, <2>2
<1> QED
  BY <1>1, <1>2, <1>3, <1>4 DEF RemakesOK

\* What is left to show of a statement of a remake.
LEMMA GoesOn ==
  ASSUME RemakeInv, Remaking, Shape', step' # "failed", remakes' = remakes,
         UNCHANGED <<migration, atomic_migration, snapshot, refused>>,
         step' # "outside", Indexed(tables', deferred_sql'),
         NEW r, r = remake, Making(r)',
         \A t \in DOMAIN models \ {Model(r)} : AsBefore(tables'[t], tables[t])
  PROVE  RemakeInv'
<1>1. models' = models /\ data' = data /\ before' = before
  BY DEF migration
<1>2. Saved'
  <2>1. step \notin {"outside", "failed"} /\ Saved
    BY DEF RemakeInv, Remaking
  <2> QED
    BY <2>1 DEF Saved
<1>3. Making(r)
  BY InProgress
<1>4. CASE remakes = <<r>> /\ Rest({Model(r)})
  <2>1. ASSUME NEW m \in DOMAIN models \ {Model(r)} PROVE Fits(tables'[m], models[m], data[m])
    BY <1>4, SameRows DEF Rest
  <2>2. Rest({Model(r)})'
    BY <1>1, <2>1 DEF Rest
  <2> QED
    BY <1>2, <1>4, <2>2 DEF RemakeInv, RemakesOK, IndexesOK
<1>5. CASE \E s : remakes = <<r, s>> /\ r.table = "parent" /\ Waiting(s)
  <2>1. PICK s : remakes = <<r, s>> /\ r.table = "parent" /\ Waiting(s)
    BY <1>5
  <2>2. Model(r) = "parent"
    <3>1. ~Moves(r)
      <4>1. r.target = Replacement("parent") \/ r.table \in Throughs
        BY <2>1, <1>3 DEF Making
      <4>2. "parent" \in Tables /\ "parent" \notin Throughs
        BY DEF Tables, Throughs
      <4> QED
        BY <2>1, <4>1, <4>2, ReplacementIs DEF Moves
    <3> QED
      BY <2>1, <3>1 DEF Model
  <2>3. AsBefore(tables'[s.table], tables[s.table])
    BY <2>1, <2>2 DEF Waiting
  <2>4. Waiting(s)'
    BY <1>1, <2>1, <2>3, SameRows DEF Waiting
  <2> QED
    BY <1>2, <2>1, <2>4 DEF RemakeInv, RemakesOK, IndexesOK
<1> QED
  BY <1>4, <1>5, InProgress

LEMMA Survival ==
  ASSUME RemakeInv
  PROVE  RowsSurvive
<1>1. CASE step = "failed"
  BY <1>1 DEF RemakeInv
<1>2. CASE step \in {"outside", "editing", "exit"}
  <2>1. Calm(tables, models, data)
    BY <1>2, IsCalm
  <2>2. \A m \in DOMAIN models : Holds(m, data[m])
    BY <2>1, FitHolds DEF Calm, Holds, HoldsIn
  <2> QED
    BY <2>2 DEF RowsSurvive
<1>3. CASE Remaking
  <2> DEFINE r == remake
             m == Model(r)
  <2>1. /\ Making(r)
        /\ \/ remakes = <<r>> /\ Rest({m})
           \/ \E s : remakes = <<r, s>> /\ r.table = "parent" /\ Waiting(s)
    BY <1>3, InProgress
  <2>2. Shape
    BY DEF RemakeInv
  <2> HIDE DEF r
  <2>3. /\ step = "create" \/ step = "copy" => Holds(r.table, before[m])
        /\ step = "drop" \/ step = "rename" => Holds(r.target, data[m])
        /\ step = "deferred" => Holds(m, data[m])
    <3>1. step = "create" => Holds(r.table, before[m])
      BY <2>1 DEF Making, Holds, HoldsIn
    <3>2. step = "copy" => Holds(r.table, before[m])
      BY <2>1 DEF Making, Holds, HoldsIn
    <3>3. step = "drop" \/ step = "rename" => Holds(r.target, data[m])
      BY <2>1, FitHolds DEF Making, Holds, HoldsIn
    <3>4. step = "deferred" => Holds(m, data[m])
      <4>1. m \in DOMAIN models
        BY <2>1 DEF Making
      <4> QED
        BY <2>1, <4>1, FitHolds DEF Making, Holds, HoldsIn
    <3> QED
      BY <3>1, <3>2, <3>3, <3>4
  <2>4. \/ m = r.table /\ r.target = Replacement(m)
        \/ m = r.target /\ m \in Throughs /\ r.table \in Throughs
    <3>1. \/ Moves(r) /\ r.table \in Throughs /\ r.target \in Throughs
          \/ r.target = Replacement(r.table) /\ r.table \in Tables
      BY <2>1 DEF Making
    <3>2. r.table \in Tables /\ r.target = Replacement(r.table) => ~Moves(r)
      BY ReplacementIs DEF Moves
    <3>3. m = IF Moves(r) THEN r.target ELSE r.table
      BY DEF Model
    <3> QED
      BY <3>1, <3>2, <3>3
  <2>5. \/ Holds(m, before[m]) \/ Holds(m, data[m]) \/ Holds(Replacement(m), data[m])
        \/ m \in Throughs /\ \E t \in Throughs : Holds(t, before[m])
    BY <1>3, <2>3, <2>4 DEF Remaking
  <2>6. \A n \in DOMAIN models \ {m} : Holds(n, data[n])
    <3>1. \A n \in DOMAIN models \ {m} : n \in DOMAIN tables
      BY <1>3, <2>1 DEF Making, Remaking
    <3>2. CASE Rest({m})
      BY <3>1, <3>2, FitHolds DEF Rest, Holds, HoldsIn
    <3>3. CASE \E s : remakes = <<r, s>> /\ r.table = "parent" /\ Waiting(s)
      <4>1. PICK s : r.table = "parent" /\ Waiting(s)
        BY <3>3
      <4>2. m = "parent"
        <5>1. "parent" \notin Throughs
          BY DEF Throughs
        <5> QED
          BY <2>4, <4>1, <5>1
      <4>3. \A n \in DOMAIN models \ {m} : n = s.table
        BY <2>2, <4>1, <4>2 DEF Shape, AreModels, Waiting
      <4>4. HoldsIn(tables[s.table], data[s.table])
        BY <4>1 DEF Waiting
      <4> QED
        BY <3>1, <4>3, <4>4 DEF Holds, HoldsIn
    <3> QED
      BY <2>1, <3>2, <3>3
  <2> QED
    BY <2>5, <2>6 DEF RowsSurvive
<1> QED
  BY <1>1, <1>2, <1>3 DEF RemakeInv, Shape, Remaking

\* When there is nothing to go back to, the snapshot is that of an empty database.
LEMMA NothingSaved == snapshot' = NoSnapshot => Saved'
<1>1. Settled(<< >>, << >>, << >>)
  BY DEF Settled, AreModels
<1>2. NoSnapshot.tables = << >> /\ NoSnapshot.models = << >> /\ NoSnapshot.data = << >>
  BY DEF NoSnapshot
<1> QED
  BY <1>1, <1>2 DEF Saved

\* What was saved is what an abandoned migration goes back to.
LEMMA AbandonKeeps ==
  ASSUME RemakeInv, step \notin {"outside", "failed"}, Abandon, refused' = FALSE
  PROVE  RemakeInv'
<1>1. Shape /\ Saved
  BY DEF RemakeInv
<1>2. CASE atomic_migration
  <2> DEFINE ts == snapshot.tables
             ms == snapshot.models
             ds == snapshot.data
  <2>1. Settled(ts, ms, ds)
    BY <1>1, <1>2 DEF Saved
  <2>2. /\ tables' = ts /\ models' = ms /\ data' = ds /\ before' = ds /\ step' = "outside" /\ remakes' = <<>> /\ deferred_sql' = <<>>
        /\ UNCHANGED <<atomic_migration, operations>>
    BY <1>2 DEF Abandon
  <2> HIDE DEF ts, ms, ds
  <2>3. Shape'
    <3>1. \A t \in DOMAIN ts : IsTable(ts[t]) /\ t \in AllTables
      BY <2>1 DEF Settled, AreModels, AllTables
    <3> QED
      BY <1>1, <2>1, <2>2, <3>1 DEF Shape, Settled, Remaking
  <2>4. Saved'
    BY NothingSaved DEF Abandon
  <2>5. Calm(ts, ms, ds)
    BY <2>1 DEF Settled, Calm
  <2>6. Indexed(ts, <<>>)
    <3>1. <<>> \in Seq(Statements) /\ Distinct(<<>>) /\ Range(<<>>) = {}
      BY DEF Distinct, Range
    <3> QED
      BY <2>1, <3>1 DEF Indexed, Settled, IndexesFit
  <2> QED
    BY <2>2, <2>3, <2>4, <2>5, <2>6, StaysCalm
<1>3. CASE ~atomic_migration
  <2>1. /\ UNCHANGED <<tables, migration, atomic_migration, operations>>
        /\ step' = "failed" /\ remakes' = <<>> /\ deferred_sql' = <<>>
    BY <1>3 DEF Abandon
  <2>2. Shape'
    BY <1>1, <2>1 DEF Shape, Remaking, migration
  <2>3. RowsSurvive'
    BY <2>1, Survival DEF RowsSurvive, Holds, migration
  <2>4. Saved'
    BY NothingSaved DEF Abandon
  <2> QED
    BY <2>1, <2>2, <2>3, <2>4 DEF RemakeInv
<1> QED
  BY <1>2, <1>3

LEMMA FailsKeeps ==
  ASSUME RemakeInv, Fails
  PROVE  RemakeInv'
<1>1. refused' = FALSE
  BY DEF Fails, RemakeInv
<1> QED
  BY <1>1, AbandonKeeps DEF Fails

LEMMA InitHolds ==
  ASSUME Init
  PROVE  RemakeInv
<1>1. DOMAIN << >> = {}
  OBVIOUS
<1>2. <<>> \in Seq(Statements) /\ Distinct(<<>>) /\ Range(<<>>) = {}
  BY DEF Distinct, Range
<1>3. Indexed(<< >>, <<>>)
  BY <1>1, <1>2 DEF Indexed
<1>4. AreModels(<< >>)
  BY <1>1 DEF AreModels
<1>5. Shape
  BY <1>1, <1>4, RemakeAssumption DEF Init, Shape, Remaking
<1>6. RemakesOK
  BY <1>1 DEF Init, RemakesOK, Rest
<1>7. Saved
  <2>1. Settled(<< >>, << >>, << >>)
    BY <1>1, <1>4 DEF Settled
  <2>2. NoSnapshot.tables = << >> /\ NoSnapshot.models = << >> /\ NoSnapshot.data = << >>
    BY DEF NoSnapshot
  <2> QED
    BY <2>1, <2>2 DEF Init, Saved
<1> QED
  BY <1>3, <1>5, <1>6, <1>7 DEF Init, RemakeInv, IndexesOK

\* The editor is entered and left.
LEMMA EditorKeeps ==
  ASSUME RemakeInv, EndBody \/ Exit \/ \E atomic \in BOOLEAN : Enter(atomic)
  PROVE  RemakeInv'
<1>1. step \in {"outside", "editing", "exit"}
  BY DEF EndBody, Exit, Enter
<1>2. /\ remakes = <<>> /\ Calm(tables, models, data) /\ Indexed(tables, deferred_sql)
      /\ Shape /\ Saved /\ refused = FALSE
  BY <1>1, IsCalm
<1>3. UNCHANGED <<tables, refused, models, data, before, remakes, deferred_sql, operations>>
  BY DEF EndBody, Exit, Enter, database, migration
<1>4. step' # "failed" /\ Shape'
  <2>1. step' \in {"outside", "editing", "exit"} /\ atomic_migration' \in BOOLEAN /\ (step' = "outside" => deferred_sql = <<>>)
    BY <1>2 DEF EndBody, Exit, Enter, Shape
  <2> QED
    BY <1>2, <1>3, <2>1 DEF Shape, Remaking
<1>5. Saved'
  <2>1. CASE EndBody
    BY <1>2, <2>1 DEF EndBody, Saved
  <2>2. CASE Exit
    BY <2>2, NothingSaved DEF Exit
  <2>3. ASSUME NEW atomic \in BOOLEAN, Enter(atomic) PROVE Saved'
    <3>1. CASE atomic
      <4>1. /\ snapshot' = [tables |-> tables, models |-> models, data |-> data]
        BY <2>3, <3>1 DEF Enter
      <4>2. deferred_sql = <<>>
        BY <1>2, <2>3 DEF Enter, Shape
      <4>3. \A t \in DOMAIN tables : IndexesFit(tables[t])
        <5>1. Range(<<>>) = {}
          BY DEF Range
        <5> QED
          BY <1>2, <4>2, <5>1 DEF Indexed, IndexesFit
      <4>4. Settled(tables, models, data)
        BY <1>2, <4>3 DEF Settled, Calm, Shape
      <4>5. snapshot'.tables = tables /\ snapshot'.models = models /\ snapshot'.data = data
        BY <4>1
      <4> QED
        BY <4>4, <4>5 DEF Saved
    <3>2. CASE ~atomic
      BY <2>3, <3>2, NothingSaved DEF Enter
    <3> QED
      BY <3>1, <3>2
  <2> QED
    BY <2>1, <2>2, <2>3
<1>6. Calm(tables', models', data') /\ Indexed(tables', deferred_sql')
  BY <1>2, <1>3
<1> QED
  BY <1>2, <1>3, <1>4, <1>5, <1>6, StaysCalm
--------------------------------------------------------------------------------
(* The statements of a remake.                                                 *)

\* The names of a remake in progress.
LEMMA RemakeNames ==
  ASSUME RemakeInv, Remaking, NEW r, r = remake
  PROVE  /\ Making(r) /\ Model(r) \in DOMAIN models /\ IsModel(models[Model(r)])
         /\ r.table \notin DOMAIN models \ {Model(r)} /\ r.target \notin DOMAIN models \ {Model(r)}
         /\ r.table # r.target /\ r.table \in AllTables /\ r.target \in AllTables
         /\ ~Moves(r) => Model(r) = r.table
         /\ Moves(r) => Model(r) = r.target
         /\ Model(r) \in AllTables
<1>1. Making(r) /\ Shape
  BY InProgress
<1>2. \/ Moves(r) /\ r.table \in Throughs /\ r.target \in Throughs \ {r.table}
      \/ r.target = Replacement(r.table) /\ ~Moves(r)
  BY <1>1, ReplacementIs DEF Making, Moves
<1>3. /\ ~Moves(r) => Model(r) = r.table
      /\ Moves(r) => Model(r) = r.target
  BY DEF Model
<1>4. Model(r) \in DOMAIN models /\ DOMAIN models \subseteq Tables /\ r.table \in Tables /\ Throughs \subseteq Tables \ {"parent"}
  BY <1>1 DEF Making, Shape, AreModels, Tables, Throughs
<1>5. /\ r.table # r.target /\ r.table \in AllTables /\ r.target \in AllTables
      /\ Model(r) \in AllTables /\ r.target \notin DOMAIN models \ {Model(r)}
  BY <1>2, <1>3, <1>4, ReplacementIs DEF AllTables
<1>6. r.table \notin DOMAIN models \ {Model(r)}
  <2>1. CASE Moves(r)
    BY <1>1, <1>2, <1>3, <1>4, <2>1 DEF Shape, AreModels
  <2>2. CASE ~Moves(r)
    BY <1>3, <2>2
  <2> QED
    BY <2>1, <2>2
<1>7. IsModel(models[Model(r)])
  BY <1>1, <1>4 DEF Shape, AreModels
<1> QED
  BY <1>1, <1>3, <1>4, <1>5, <1>6, <1>7

LEMMA RenderedIsModel ==
  ASSUME NEW M, IsModel(M), NEW F, F \in {M, Rendered(M)}
  PROVE  DOMAIN F \subseteq AllColumns /\ F \in [DOMAIN F -> Field]
<1>1. IsModel(Rendered(M))
  BY RenderedIs
<1>2. IsModel(F)
  BY <1>1
<1> QED
  BY <1>2 DEF IsModel

LEMMA RemainingIs ==
  ASSUME NEW gone
  PROVE  Remaining(gone) = Filtered(gone, deferred_sql)
  BY DEF Remaining, Filtered

LEMMA ForgottenIs ==
  ASSUME NEW table
  PROVE  Forgotten(table) = Filtered({s \in Range(deferred_sql) : s.table = table}, deferred_sql)
<1>1. {s \in Range(deferred_sql) : References(s, table)} = {s \in Range(deferred_sql) : s.table = table}
  BY DEF References
<1>2. Forgotten(table) = Remaining({s \in Range(deferred_sql) : s.table = table})
  BY <1>1 DEF Forgotten
<1> QED
  BY <1>2, RemainingIs

LEMMA CreateReplacementKeeps ==
  ASSUME RemakeInv, CreateReplacement
  PROVE  RemakeInv'
<1> DEFINE F == ReplacementFields(remake)
<1>0. step = "create" /\ Remaking /\ UNCHANGED <<atomic_migration, snapshot, operations>>
  BY DEF CreateReplacement, Statement, Remaking
<1> PICK r : r = remake
  OBVIOUS
<1>1. /\ Making(r) /\ Model(r) \in DOMAIN models /\ IsModel(models[Model(r)])
      /\ r.table \notin DOMAIN models \ {Model(r)} /\ r.target \notin DOMAIN models \ {Model(r)}
      /\ r.table # r.target /\ r.target \in AllTables
  BY <1>0, RemakeNames
<1>2. Shape /\ Indexed(tables, deferred_sql)
  BY <1>0, InProgress
<1>3. /\ DOMAIN tables = (DOMAIN models \ {Model(r)}) \union {r.table}
      /\ Copies(r, tables[r.table], models[Model(r)], data[Model(r)])
      /\ HoldsIn(tables[r.table], before[Model(r)])
  BY <1>0, <1>1 DEF Making
<1>4. target = r.target /\ r.target \notin DOMAIN tables
  BY <1>1, <1>3 DEF target
<1>5. F \in {models[Model(r)], Rendered(models[Model(r)])} /\ F = ReplacementFields(r)
  BY <1>3 DEF Copies
<1>6. /\ CreateTable(r.target, F)
      /\ deferred_sql' = deferred_sql \o IndexesOf(r.target, F)
      /\ Goes
  BY <1>4 DEF CreateReplacement
<1> HIDE DEF F
<1>7. DOMAIN F \subseteq AllColumns /\ F \in [DOMAIN F -> Field]
  BY <1>1, <1>5, RenderedIsModel
<1>8. CreatedIn(tables', tables, r.target, F)
  <2> DEFINE T == [columns |-> F, rows |-> << >>, indexes |-> {}]
  <2>1. tables' = tables ++ Only(r.target, T)
    BY <1>6 DEF CreateTable
  <2> HIDE DEF T
  <2>2. /\ DOMAIN tables' = DOMAIN tables \union {r.target} /\ tables'[r.target] = T
        /\ \A t \in DOMAIN tables : tables'[t] = tables[t]
    BY <1>4, <2>1 DEF ++, Only
  <2> QED
    BY <2>2 DEF CreatedIn, T
<1>9. Indexed(tables', deferred_sql')
  BY <1>1, <1>2, <1>4, <1>6, <1>7, <1>8, IndexedCreated
<1>10. /\ step' = "copy" /\ remakes' = remakes /\ UNCHANGED <<migration, refused>>
       /\ models' = models /\ data' = data /\ before' = before
  BY <1>0, <1>6, StepAfterIs DEF Goes, migration
<1>11. IsTable(tables'[r.target]) /\ tables'[r.target].columns = F
  BY <1>7, <1>8 DEF CreatedIn, IsTable
<1>12. Shape'
  <2>1. \A t \in DOMAIN tables' : IsTable(tables'[t]) /\ t \in AllTables
    BY <1>1, <1>2, <1>8, <1>11 DEF CreatedIn, Shape
  <2> QED
    BY <1>0, <1>2, <1>10, <2>1 DEF Shape, Remaking
<1>13. Making(r)'
  <2>1. tables'[r.table] = tables[r.table] /\ DOMAIN tables' = (DOMAIN models \ {Model(r)}) \union {r.table, r.target}
    BY <1>3, <1>8 DEF CreatedIn
  <2> QED
    BY <1>1, <1>3, <1>5, <1>10, <1>11, <2>1 DEF Making
<1>14. \A t \in DOMAIN models \ {Model(r)} : AsBefore(tables'[t], tables[t])
  BY <1>3, <1>8 DEF AsBefore, CreatedIn
<1> QED
  BY <1>0, <1>9, <1>10, <1>12, <1>13, <1>14, GoesOn

LEMMA CopyRowsKeeps ==
  ASSUME RemakeInv, CopyRows
  PROVE  RemakeInv'
<1>0. step = "copy" /\ Remaking /\ UNCHANGED <<atomic_migration, snapshot, operations>>
  BY DEF CopyRows, Statement, Remaking
<1> PICK r : r = remake
  OBVIOUS
<1> DEFINE m == Model(r)
           M == models[m]
           D == data[m]
           T == tables[r.table]
           F == tables[r.target].columns
           map == Mapping(r)
<1>1. Making(r) /\ m \in DOMAIN models /\ IsModel(M) /\ r.target \notin DOMAIN models \ {m} /\ r.table # r.target
  BY <1>0, RemakeNames
<1>2. Shape /\ Indexed(tables, deferred_sql)
  BY <1>0, InProgress
<1>3. /\ DOMAIN tables = (DOMAIN models \ {m}) \union {r.table, r.target}
      /\ F = ReplacementFields(r) /\ Copies(r, T, M, D)
  BY <1>0, <1>1 DEF Making
<1>4. /\ F \in {M, Rendered(M)} /\ DOMAIN map \subseteq DOMAIN F
      /\ \A n \in DOMAIN map : map[n].column \in DOMAIN T.columns \union {"none"}
      /\ DOMAIN T.rows = DOMAIN D
      /\ \A row \in DOMAIN D :
           /\ DOMAIN D[row] = DOMAIN M
           /\ \A n \in DOMAIN M : n \in DOMAIN F /\ CellOf(n, F, map, T.rows[row]) = D[row][n]
           /\ \A n \in DOMAIN F : CellOf(n, F, map, T.rows[row]) = "null" => F[n].null
  BY <1>3 DEF Copies
<1>5. \A n \in DOMAIN F : F[n].null \in BOOLEAN
  <2>1. F \in [DOMAIN F -> Field]
    BY <1>1, <1>4, RenderedIsModel
  <2> QED
    BY <2>1 DEF Field
<1>6. CanSelect(remake, tables[target].columns)
  <2>1. target = r.target /\ remake = r
    BY DEF target
  <2>2. CanSelect(r, F)
    <3>0. T = tables[r.table] /\ map = Mapping(r)
      OBVIOUS
    <3> HIDE DEF F, T, map, M, D
    <3> QED
      BY <1>4, <1>5, <3>0 DEF CanSelect
  <2> QED
    BY <2>1, <2>2
<1> DEFINE rows == [row \in DOMAIN T.rows |-> [n \in DOMAIN F |-> CellOf(n, F, map, T.rows[row])]]
<1>7. /\ tables' = [tables EXCEPT ![r.target].rows = rows]
      /\ UNCHANGED deferred_sql
      /\ Goes
  <2>1. target = r.target /\ remake = r
    BY DEF target
  <2>2. Selected(r, F) = rows
    BY DEF Selected
  <2> QED
    BY <1>6, <2>1, <2>2 DEF CopyRows
<1>8. rows = [row \in DOMAIN D |-> [n \in DOMAIN F |-> CellOf(n, F, map, T.rows[row])]]
  BY <1>4
<1> HIDE DEF rows
<1>9. /\ DOMAIN tables' = DOMAIN tables /\ \A t \in DOMAIN tables \ {r.target} : tables'[t] = tables[t]
      /\ tables'[r.target] = [tables[r.target] EXCEPT !.rows = rows]
  BY <1>3, <1>7
<1>10. /\ DOMAIN tables'[r.target] = {"columns", "rows", "indexes"} /\ tables'[r.target].rows = rows
       /\ tables'[r.target].columns = F /\ tables'[r.target].indexes = tables[r.target].indexes
       /\ IsTable(tables[r.target])
  <2>1. DOMAIN tables[r.target] = {"columns", "rows", "indexes"} /\ IsTable(tables[r.target])
    BY <1>2, <1>3 DEF Shape, IsTable
  <2> QED
    BY <1>9, <2>1
<1>11. \A row \in DOMAIN D : DOMAIN rows[row] = DOMAIN F /\ \A n \in DOMAIN F : rows[row][n] = CellOf(n, F, map, T.rows[row])
  BY <1>8
<1>12. DOMAIN rows = DOMAIN D
  BY <1>8
<1> HIDE DEF F, T, map
<1>13. HasRows(tables'[r.target], M, D)
  <2>1. ASSUME NEW row \in DOMAIN D
        PROVE  /\ DOMAIN D[row] = DOMAIN M
               /\ DOMAIN rows[row] = DOMAIN F
               /\ \A n \in DOMAIN M : n \in DOMAIN F /\ rows[row][n] = D[row][n]
               /\ \A n \in DOMAIN F : rows[row][n] = "null" => F[n].null
    BY <1>4, <1>11
  <2> HIDE DEF D, M
  <2> QED
    BY <1>10, <1>12, <2>1 DEF HasRows
<1>14. Fits(tables'[r.target], M, D)
  BY <1>4, <1>10, <1>13 DEF Fits
<1>15. /\ step' = "drop" /\ remakes' = remakes /\ UNCHANGED <<migration, refused>>
       /\ models' = models /\ data' = data /\ before' = before
  BY <1>0, <1>7, StepAfterIs DEF Goes, migration
<1>16. Indexed(tables', deferred_sql')
  <2>1. \A t \in DOMAIN tables : SameColumns(tables'[t], tables[t])
    BY <1>9, <1>10 DEF SameColumns, F
  <2> QED
    BY <1>2, <1>7, <1>9, <2>1, IndexedSame
<1>17. Shape'
  <2>1. IsTable(tables'[r.target])
    <3>1. DOMAIN rows \subseteq Rows
      <4>1. IsTable(tables[r.table])
        BY <1>2, <1>3 DEF Shape
      <4> QED
        BY <1>4, <1>12, <4>1 DEF IsTable, T
    <3> QED
      BY <1>10, <1>11, <1>12, <3>1 DEF IsTable, F
  <2>2. \A t \in DOMAIN tables' : IsTable(tables'[t]) /\ t \in AllTables
    BY <1>2, <1>9, <2>1 DEF Shape
  <2> QED
    BY <1>0, <1>2, <1>15, <2>2 DEF Shape, Remaking
<1>18. Making(r)'
  BY <1>1, <1>3, <1>9, <1>14, <1>15 DEF Making
<1>19. \A t \in DOMAIN models \ {Model(r)} : AsBefore(tables'[t], tables[t])
  BY <1>1, <1>3, <1>9 DEF AsBefore
<1> QED
  BY <1>0, <1>15, <1>16, <1>17, <1>18, <1>19, GoesOn

LEMMA DropOriginalKeeps ==
  ASSUME RemakeInv, DropOriginal
  PROVE  RemakeInv'
<1>0. step = "drop" /\ Remaking /\ UNCHANGED <<atomic_migration, snapshot, operations>>
  BY DEF DropOriginal, Statement, Remaking
<1> PICK r : r = remake
  OBVIOUS
<1> DEFINE m == Model(r)
<1>1. /\ Making(r) /\ m \in DOMAIN models /\ r.table \notin DOMAIN models \ {m} /\ r.table # r.target
      /\ ~Moves(r) => m = r.table
      /\ Moves(r) => m = r.target
  BY <1>0, RemakeNames
<1>2. Shape /\ Saved /\ Indexed(tables, deferred_sql)
  BY <1>0, InProgress
<1>3. DOMAIN tables = (DOMAIN models \ {m}) \union {r.table, r.target} /\ Fits(tables[r.target], models[m], data[m])
  BY <1>0, <1>1 DEF Making
<1>4. tables' = Without(tables, r.table) /\ deferred_sql' = Filtered({s \in Range(deferred_sql) : s.table = r.table}, deferred_sql)
  BY ForgottenIs DEF DropOriginal
<1>5. DroppedFrom(tables', tables, r.table)
  BY <1>4 DEF DroppedFrom, Without
<1>6. Indexed(tables', deferred_sql')
  BY <1>2, <1>4, <1>5, IndexedDropped
<1>7. DOMAIN tables' = (DOMAIN models \ {m}) \union {r.target} /\ \A t \in DOMAIN tables' : tables'[t] = tables[t]
  BY <1>1, <1>3, <1>5 DEF DroppedFrom
<1>8. \A t \in DOMAIN tables' : t \in AllTables /\ IsTable(tables'[t])
  BY <1>2, <1>3, <1>7 DEF Shape
<1>9. target = r.target
  BY DEF target
<1>10. CASE Moves(r)
  <2>1. /\ step' = "editing" /\ remakes' = <<>> /\ UNCHANGED <<migration, refused>>
        /\ models' = models /\ data' = data /\ before' = before
    BY <1>9, <1>10 DEF DropOriginal, Moves, migration
  <2>2. Shape' /\ Saved' /\ refused' = FALSE
    <3>1. Shape'
      BY <1>0, <1>2, <1>8, <2>1 DEF Shape, Remaking
    <3>2. Saved'
      BY <1>0, <1>2, <2>1 DEF Saved
    <3> QED
      BY <2>1, <3>1, <3>2 DEF RemakeInv
  <2>3. Rest({m})
    <3>1. r.table # "parent"
      BY <1>1, <1>10 DEF Making, Throughs, Moves, Tables, Replacement
    <3> QED
      BY <1>0, <3>1, InProgress
  <2>4. Calm(tables', models', data')
    BY <1>1, <1>3, <1>7, <1>10, <2>1, <2>3 DEF Calm, Rest
  <2> QED
    BY <1>6, <2>1, <2>2, <2>4, StaysCalm
<1>11. CASE ~Moves(r)
  <2>1. /\ step' = "rename" /\ remakes' = remakes /\ UNCHANGED <<migration, refused>>
        /\ models' = models /\ data' = data /\ before' = before
    BY <1>0, <1>9, <1>11, StepAfterIs DEF DropOriginal, Moves, migration, Goes
  <2>2. Shape'
    BY <1>0, <1>2, <1>8, <2>1 DEF Shape, Remaking
  <2>3. Making(r)'
    BY <1>1, <1>3, <1>7, <1>11, <2>1 DEF Making
  <2>4. \A t \in DOMAIN models \ {Model(r)} : AsBefore(tables'[t], tables[t])
    BY <1>7 DEF AsBefore
  <2> QED
    BY <1>0, <1>6, <2>1, <2>2, <2>3, <2>4, GoesOn
<1> QED
  BY <1>10, <1>11

LEMMA RenameReplacementKeeps ==
  ASSUME RemakeInv, RenameReplacement
  PROVE  RemakeInv'
<1>0. step = "rename" /\ Remaking /\ UNCHANGED <<atomic_migration, snapshot, operations>>
  BY DEF RenameReplacement, Statement, Remaking
<1> PICK r : r = remake
  OBVIOUS
<1> DEFINE m == Model(r)
<1>1. /\ Making(r) /\ m \in DOMAIN models /\ r.table \notin DOMAIN models \ {m} /\ r.table # r.target
      /\ r.target \notin DOMAIN models \ {m} /\ r.table \in AllTables
      /\ ~Moves(r) => m = r.table
  BY <1>0, RemakeNames
<1>2. Shape /\ Indexed(tables, deferred_sql)
  BY <1>0, InProgress
<1>3. DOMAIN tables = (DOMAIN models \ {m}) \union {r.target} /\ ~Moves(r) /\ Fits(tables[r.target], models[m], data[m])
  BY <1>0, <1>1 DEF Making
<1>4. r.table \notin DOMAIN tables /\ r.target \in DOMAIN tables /\ m = r.table
  BY <1>1, <1>3
<1>5. /\ tables' = Renamed(tables, r.target, r.table)
      /\ deferred_sql' = [i \in DOMAIN deferred_sql |->
           [deferred_sql[i] EXCEPT !.table = IF @ = r.target THEN r.table ELSE @]]
      /\ Goes
  BY DEF RenameReplacement, target
<1>6. Indexed(tables', deferred_sql')
  BY <1>1, <1>2, <1>4, <1>5, IndexedRenamed
<1>7. /\ DOMAIN tables' = DOMAIN models /\ tables'[m] = tables[r.target]
      /\ \A t \in DOMAIN models \ {m} : tables'[t] = tables[t]
  <2>1. RenamesTo(tables, r.target, r.table, tables')
    BY <1>4, <1>5, RenamedIs
  <2> QED
    BY <1>1, <1>3, <1>4, <2>1 DEF RenamesTo
<1>8. /\ step' = "deferred" /\ remakes' = remakes /\ UNCHANGED <<migration, refused>>
      /\ models' = models /\ data' = data /\ before' = before
  BY <1>0, <1>5, StepAfterIs DEF Goes, migration
<1>9. Shape'
  <2>1. \A t \in DOMAIN tables' : t \in AllTables /\ IsTable(tables'[t])
    BY <1>1, <1>2, <1>3, <1>4, <1>7 DEF Shape
  <2> QED
    BY <1>0, <1>2, <1>8, <2>1 DEF Shape, Remaking
<1>10. Making(r)'
  BY <1>1, <1>3, <1>7, <1>8 DEF Making
<1>11. \A t \in DOMAIN models \ {Model(r)} : AsBefore(tables'[t], tables[t])
  BY <1>7 DEF AsBefore
<1> QED
  BY <1>0, <1>6, <1>8, <1>9, <1>10, <1>11, GoesOn

LEMMA RunDeferredKeeps ==
  ASSUME RemakeInv, RunDeferred
  PROVE  RemakeInv'
<1> DEFINE s == Head(deferred_sql)
<1>0. /\ step \in {"deferred", "exit"} /\ deferred_sql # <<>>
      /\ UNCHANGED <<atomic_migration, snapshot, operations>>
  BY DEF RunDeferred, Statement
<1>1. Shape /\ Saved /\ refused = FALSE /\ Indexed(tables, deferred_sql)
  <2>1. Remaking \/ step \in {"outside", "editing", "exit"}
    BY <1>0 DEF Remaking
  <2> QED
    BY <2>1, IsCalm, InProgress
<1>2. s \in Range(deferred_sql)
  <2>1. deferred_sql \in Seq(Statements)
    BY <1>1 DEF Indexed
  <2>2. 1 \in DOMAIN deferred_sql /\ s = deferred_sql[1]
    BY <1>0, <2>1
  <2> QED
    BY <2>2 DEF Range
<1> HIDE DEF s
<1>3. s.table \in DOMAIN tables /\ s.column \in DOMAIN tables[s.table].columns \ tables[s.table].indexes
  BY <1>1, <1>2 DEF Indexed
<1>4. CanIndex(s)
  BY <1>3 DEF CanIndex
<1>5. /\ tables' = [tables EXCEPT ![s.table].indexes = @ \union {s.column}]
      /\ deferred_sql' = Tail(deferred_sql)
      /\ UNCHANGED <<step, remakes, migration, refused>>
  BY <1>4 DEF RunDeferred, s
<1>6. /\ DOMAIN tables' = DOMAIN tables /\ \A t \in DOMAIN tables \ {s.table} : tables'[t] = tables[t]
      /\ tables'[s.table] = [tables[s.table] EXCEPT !.indexes = @ \union {s.column}]
  BY <1>3, <1>5
<1>7. /\ DOMAIN tables'[s.table] = {"columns", "rows", "indexes"}
      /\ tables'[s.table].columns = tables[s.table].columns /\ tables'[s.table].rows = tables[s.table].rows
      /\ tables'[s.table].indexes = tables[s.table].indexes \union {s.column}
      /\ IsTable(tables[s.table])
  <2>1. IsTable(tables[s.table]) /\ DOMAIN tables[s.table] = {"columns", "rows", "indexes"}
    BY <1>1, <1>3 DEF Shape, IsTable
  <2> QED
    BY <1>6, <2>1
<1>8. \A t \in DOMAIN tables : AsBefore(tables'[t], tables[t])
  BY <1>6, <1>7 DEF AsBefore
<1>9. Indexed(tables', deferred_sql')
  BY <1>0, <1>1, <1>5, <1>6, <1>7, IndexedRun DEF s
<1>10. /\ step' = step /\ remakes' = remakes /\ models' = models /\ data' = data /\ before' = before
  BY <1>5 DEF migration
<1>11. Shape'
  <2>1. IsTable(tables'[s.table])
    BY <1>3, <1>7 DEF IsTable
  <2>2. \A t \in DOMAIN tables' : t \in AllTables /\ IsTable(tables'[t])
    BY <1>1, <1>6, <2>1 DEF Shape
  <2> QED
    BY <1>0, <1>1, <1>6, <1>10, <2>2 DEF Shape, Remaking
<1>12. CASE step = "deferred"
  <2> PICK r : r = remake
    OBVIOUS
  <2>1. Remaking /\ Making(r)
    BY <1>12, InProgress DEF Remaking
  <2>2. DOMAIN tables = DOMAIN models
    BY <1>12, <2>1 DEF Making
  <2>3. Making(r)'
    <3>1. Fits(tables'[Model(r)], models[Model(r)], data[Model(r)])
      BY <1>8, <1>12, <2>1, <2>2, SameRows DEF Making
    <3> QED
      BY <1>6, <1>10, <1>12, <2>1, <3>1 DEF Making
  <2>4. \A t \in DOMAIN models \ {Model(r)} : AsBefore(tables'[t], tables[t])
    BY <1>8, <2>2
  <2> QED
    BY <1>0, <1>5, <1>9, <1>10, <1>11, <1>12, <2>1, <2>3, <2>4, GoesOn
<1>13. CASE step = "exit"
  <2>1. remakes = <<>> /\ Calm(tables, models, data)
    BY <1>13, IsCalm
  <2>2. Calm(tables', models', data')
    BY <1>6, <1>8, <1>10, <2>1, SameRows DEF Calm
  <2>3. Saved'
    BY <1>0, <1>1, <1>10 DEF Saved
  <2> QED
    BY <1>1, <1>5, <1>9, <1>10, <1>11, <1>13, <2>1, <2>2, <2>3, StaysCalm
<1> QED
  BY <1>0, <1>12, <1>13

LEMMA FinishRemakeKeeps ==
  ASSUME RemakeInv, FinishRemake
  PROVE  RemakeInv'
<1>0. /\ step = "deferred" /\ Remaking /\ remakes' = Tail(remakes) /\ step' = StepAfterRemake /\ before' = data
      /\ UNCHANGED <<database, models, data, deferred_sql, atomic_migration, snapshot, operations>>
      /\ UNCHANGED <<tables, refused>>
  BY DEF FinishRemake, Remaking, database
<1> PICK r : r = remake
  OBVIOUS
<1> DEFINE m == Model(r)
<1>1. /\ Making(r) /\ Shape /\ Saved /\ refused = FALSE /\ Indexed(tables, deferred_sql)
      /\ \/ remakes = <<r>> /\ Rest({m})
         \/ \E s : remakes = <<r, s>> /\ r.table = "parent" /\ Waiting(s)
  BY <1>0, InProgress
<1>2. DOMAIN tables = DOMAIN models /\ ~Moves(r) /\ m = r.table /\ Fits(tables[m], models[m], data[m])
  BY <1>0, <1>1 DEF Making, Model
<1>3. CASE remakes = <<r>> /\ Rest({m})
  <2>1. step' = "editing" /\ remakes' = <<>>
    BY <1>0, <1>3, ShortSequences DEF StepAfterRemake
  <2>2. Calm(tables', models', data')
    BY <1>0, <1>2, <1>3 DEF Calm, Rest
  <2>3. Shape' /\ Saved'
    BY <1>0, <1>1, <2>1 DEF Shape, Remaking, Saved
  <2> QED
    BY <1>0, <1>1, <2>1, <2>2, <2>3, StaysCalm
<1>4. CASE \E s : remakes = <<r, s>> /\ r.table = "parent" /\ Waiting(s)
  <2>1. PICK s : remakes = <<r, s>> /\ r.table = "parent" /\ Waiting(s)
    BY <1>4
  <2>2. step' = "create" /\ remakes' = <<s>> /\ <<s>> # <<>>
    BY <1>0, <2>1, ShortSequences DEF StepAfterRemake
  <2>3. ~Moves(s) /\ Model(s) = s.table /\ s.table \in DOMAIN models \ {"parent"} /\ s.table \in Tables /\ s.target = Replacement(s.table)
    <3>1. s.table \in Tables /\ s.table \in DOMAIN models \ {"parent"} /\ s.target = Replacement(s.table)
      BY <1>1, <2>1 DEF Waiting, Shape, AreModels
    <3> QED
      BY <3>1, ReplacementIs DEF Moves, Model
  <2>4. Making(s)'
    <3>1. DOMAIN tables = (DOMAIN models \ {s.table}) \union {s.table}
      BY <1>2, <2>3
    <3> QED
      BY <1>0, <2>1, <2>2, <2>3, <3>1 DEF Making, Waiting
  <2>5. Rest({Model(s)})'
    <3>1. \A n \in DOMAIN models \ {s.table} : n = m
      BY <1>1, <1>2, <2>1, <2>3 DEF Shape, AreModels
    <3> QED
      BY <1>0, <1>2, <2>3, <3>1 DEF Rest
  <2>6. Shape' /\ Saved'
    BY <1>0, <1>1, <2>2 DEF Shape, Remaking, Saved
  <2>7. RemakesOK'
    BY <2>2, <2>4, <2>5 DEF RemakesOK
  <2> QED
    BY <1>0, <1>1, <2>2, <2>6, <2>7 DEF RemakeInv, IndexesOK
<1> QED
  BY <1>1, <1>3, <1>4
--------------------------------------------------------------------------------
(* The operations that are done at once.                                       *)

\* A model is created with its table.
LEMMA CreateModelKeeps ==
  ASSUME RemakeInv, NEW name \in Tables, NEW fields, IsModel(fields), CreateModel(name, fields), AreModels(models')
  PROVE  RemakeInv'
<1>0. /\ step = "editing" /\ name \notin DOMAIN models /\ operations' \in 0..MaxOperations
      /\ UNCHANGED <<atomic_migration, snapshot, step, remakes, refused>>
  <2>1. operations < MaxOperations /\ operations' = operations + 1 /\ operations \in 0..MaxOperations
    BY DEF CreateModel, Operate, RemakeInv, Shape
  <2>2. operations' \in 0..MaxOperations
    BY <2>1, RemakeAssumption
  <2> QED
    BY <2>2 DEF CreateModel, Operate, AtOnce
<1>1. /\ remakes = <<>> /\ Calm(tables, models, data) /\ Indexed(tables, deferred_sql)
      /\ Shape /\ Saved /\ refused = FALSE
  BY <1>0, IsCalm
<1> DEFINE T == [columns |-> fields, rows |-> << >>, indexes |-> {}]
           none == << >>
<1>2. /\ tables' = tables ++ Only(name, T) /\ models' = models ++ Only(name, fields)
      /\ data' = data ++ Only(name, none) /\ before' = data'
      /\ deferred_sql' = deferred_sql \o IndexesOf(name, fields)
  BY DEF CreateModel, CreateTable
<1>3. DOMAIN tables = DOMAIN models /\ DOMAIN data = DOMAIN models
  BY <1>1 DEF Calm, Shape
<1>4. /\ T.columns = fields /\ T.rows = none /\ T.indexes = {} /\ DOMAIN none = {}
      /\ DOMAIN T = {"columns", "rows", "indexes"}
  OBVIOUS
<1>5. IsTable(T)
  BY <1>4 DEF IsTable, IsModel
<1>6. Fits(T, fields, none)
  BY <1>4 DEF Fits, HasRows
<1> HIDE DEF T, none
<1>7. /\ DOMAIN tables' = DOMAIN tables \union {name} /\ tables'[name] = T
      /\ \A t \in DOMAIN tables : tables'[t] = tables[t]
  BY <1>0, <1>2, <1>3 DEF ++, Only
<1>8. /\ DOMAIN models' = DOMAIN models \union {name} /\ models'[name] = fields
      /\ \A t \in DOMAIN models : models'[t] = models[t]
  BY <1>0, <1>2, <1>3 DEF ++, Only
<1>9. /\ DOMAIN data' = DOMAIN data \union {name} /\ data'[name] = none
      /\ \A t \in DOMAIN data : data'[t] = data[t]
  BY <1>0, <1>2, <1>3 DEF ++, Only
<1>10. Calm(tables', models', data')
  <2>1. ASSUME NEW m \in DOMAIN models' PROVE Fits(tables'[m], models'[m], data'[m])
    <3>1. CASE m = name
      BY <1>6, <1>7, <1>8, <1>9, <3>1
    <3>2. CASE m # name
      BY <1>1, <1>3, <1>7, <1>8, <1>9, <3>2 DEF Calm
    <3> QED
      BY <3>1, <3>2
  <2> QED
    BY <1>3, <1>7, <1>8, <2>1 DEF Calm
<1>11. Indexed(tables', deferred_sql')
  <2>1. CreatedIn(tables', tables, name, fields)
    BY <1>7 DEF CreatedIn, T
  <2>2. name \in AllTables /\ name \notin DOMAIN tables /\ DOMAIN fields \subseteq AllColumns
    BY <1>0, <1>3 DEF AllTables, IsModel
  <2> QED
    BY <1>1, <1>2, <2>1, <2>2, IndexedCreated
<1>12. Shape'
  <2>1. \A t \in DOMAIN tables' : t \in AllTables /\ IsTable(tables'[t])
    BY <1>1, <1>5, <1>7 DEF Shape, AllTables
  <2> QED
    BY <1>0, <1>1, <1>2, <1>3, <1>8, <1>9, <2>1 DEF Shape, Remaking
<1>13. Saved'
  BY <1>0, <1>1 DEF Saved
<1> QED
  BY <1>0, <1>1, <1>10, <1>11, <1>12, <1>13, StaysCalm

\* A model is deleted with its table.
LEMMA DeleteModelKeeps ==
  ASSUME RemakeInv, NEW name \in Tables, DeleteModel(name)
  PROVE  RemakeInv'
<1>0. /\ step = "editing" /\ name \in DOMAIN models /\ operations' \in 0..MaxOperations
      /\ UNCHANGED <<atomic_migration, snapshot, step, remakes, refused>>
  <2>1. operations < MaxOperations /\ operations' = operations + 1 /\ operations \in 0..MaxOperations
    BY DEF DeleteModel, Operate, RemakeInv, Shape
  <2>2. operations' \in 0..MaxOperations
    BY <2>1, RemakeAssumption
  <2> QED
    BY <2>2 DEF DeleteModel, Operate, AtOnce
<1>1. /\ remakes = <<>> /\ Calm(tables, models, data) /\ Indexed(tables, deferred_sql)
      /\ Shape /\ Saved /\ refused = FALSE
  BY <1>0, IsCalm
<1>2. /\ tables' = Without(tables, name) /\ models' = Without(models, name)
      /\ data' = Without(data, name) /\ before' = data'
      /\ deferred_sql' = Filtered({s \in Range(deferred_sql) : s.table = name}, deferred_sql)
      /\ DOMAIN models \ {"parent"} \subseteq {name}
  BY ForgottenIs DEF DeleteModel, Referring
<1>3. DOMAIN tables = DOMAIN models /\ DOMAIN data = DOMAIN models
  BY <1>1 DEF Calm, Shape
<1>4. DroppedFrom(tables', tables, name)
  BY <1>2 DEF DroppedFrom, Without
<1>5. /\ DOMAIN models' = DOMAIN models \ {name} /\ \A m \in DOMAIN models' : models'[m] = models[m]
      /\ DOMAIN data' = DOMAIN models \ {name} /\ \A m \in DOMAIN data' : data'[m] = data[m]
      /\ DOMAIN tables' = DOMAIN models \ {name} /\ \A m \in DOMAIN tables' : tables'[m] = tables[m]
  BY <1>2, <1>3 DEF Without
<1>6. Calm(tables', models', data')
  BY <1>1, <1>5 DEF Calm
<1>7. Indexed(tables', deferred_sql')
  BY <1>1, <1>2, <1>4, IndexedDropped
<1>8. AreModels(models')
  <2>1. AreModels(models)
    BY <1>1 DEF Shape
  <2>2. DOMAIN models' \subseteq {"parent"}
    BY <1>2, <1>5
  <2> QED
    BY <1>5, <2>1, <2>2 DEF AreModels
<1>9. Shape'
  <2>1. \A t \in DOMAIN tables' : t \in AllTables /\ IsTable(tables'[t])
    BY <1>1, <1>3, <1>5 DEF Shape
  <2>2. deferred_sql' \in Seq(Statements)
    BY <1>7 DEF Indexed
  <2> QED
    BY <1>0, <1>1, <1>2, <1>5, <1>8, <2>1 DEF Shape, Remaking
<1>10. Saved'
  BY <1>0, <1>1 DEF Saved
<1> QED
  BY <1>0, <1>1, <1>6, <1>7, <1>9, <1>10, StaysCalm

\* A row is inserted.
LEMMA InsertKeeps ==
  ASSUME RemakeInv, NEW name, NEW row \in Rows, NEW nulls, Insert(name, row, nulls)
  PROVE  RemakeInv'
<1>0. /\ step \in {"outside", "editing"} /\ name \in DOMAIN models /\ row \notin DOMAIN data[name]
      /\ UNCHANGED <<models, refused, step, remakes, deferred_sql, atomic_migration, snapshot, operations>>
  BY DEF Insert, editor
<1>1. /\ remakes = <<>> /\ Calm(tables, models, data) /\ Indexed(tables, deferred_sql)
      /\ Shape /\ Saved /\ refused = FALSE
  BY <1>0, IsCalm
<1> DEFINE T == tables[name]
           M == models[name]
           D == data[name]
           cells == [n \in DOMAIN T.columns |-> IF n \in nulls THEN "null" ELSE n]
           known == [n \in DOMAIN M |-> cells[n]]
           rows1 == T.rows ++ Only(row, cells)
           D1 == D ++ Only(row, known)
<1>2. /\ tables' = [tables EXCEPT ![name].rows = rows1] /\ data' = [data EXCEPT ![name] = D1] /\ before' = data'
      /\ nulls \subseteq {n \in DOMAIN M : M[n].null}
  BY DEF Insert
<1>3. /\ DOMAIN tables = DOMAIN models /\ DOMAIN data = DOMAIN models /\ IsTable(T) /\ Fits(T, M, D) /\ IsModel(M)
      /\ name \in DOMAIN tables
  BY <1>0, <1>1 DEF Calm, Shape, AreModels
<1>4. DOMAIN T = {"columns", "rows", "indexes"}
  BY <1>3 DEF IsTable
<1>5. /\ \A t \in DOMAIN tables \ {name} : tables'[t] = tables[t] /\ data'[t] = data[t]
      /\ tables'[name] = [T EXCEPT !.rows = rows1] /\ data'[name] = D1
      /\ DOMAIN tables' = DOMAIN tables /\ DOMAIN data' = DOMAIN data
  <2> HIDE DEF D1, rows1
  <2> QED
    BY <1>0, <1>2, <1>3
<1>6. \A n \in DOMAIN T.columns : n # "null"
  BY <1>3, ColumnNames DEF IsTable
<1>7. DOMAIN cells = DOMAIN T.columns /\ \A n \in DOMAIN T.columns : cells[n] = "null" => n \in nulls
  BY <1>6
<1>8. DOMAIN known = DOMAIN M /\ \A n \in DOMAIN M : known[n] = cells[n]
  OBVIOUS
<1>9. DOMAIN T.rows = DOMAIN D
  BY <1>3 DEF Fits, HasRows
<1> HIDE DEF cells, known
<1>10. /\ DOMAIN rows1 = DOMAIN D \union {row} /\ rows1[row] = cells /\ \A r \in DOMAIN D : rows1[r] = T.rows[r]
       /\ DOMAIN D1 = DOMAIN D \union {row} /\ D1[row] = known /\ \A r \in DOMAIN D : D1[r] = D[r]
  <2> HIDE DEF D, T
  <2>1. row \notin DOMAIN D
    BY <1>0 DEF D
  <2> QED
    BY <1>9, <2>1 DEF ++, Only
<1> DEFINE T1 == tables'[name]
<1>11. /\ T1.columns = T.columns /\ T1.rows = rows1 /\ T1.indexes = T.indexes
       /\ DOMAIN T1 = {"columns", "rows", "indexes"}
  <2> HIDE DEF rows1, T
  <2> QED
    BY <1>4, <1>5
<1> HIDE DEF rows1, D1, T1, T, M, D
<1>12. IsTable(T1)
  <2>1. DOMAIN T.rows \subseteq Rows /\ \A r \in DOMAIN T.rows : DOMAIN T.rows[r] = DOMAIN T.columns
    BY <1>3 DEF IsTable
  <2>2. \A r \in DOMAIN rows1 : r \in Rows /\ DOMAIN rows1[r] = DOMAIN T.columns
    BY <1>7, <1>9, <1>10, <2>1
  <2> QED
    BY <1>3, <1>11, <2>2 DEF IsTable
<1>13. Fits(T1, M, D1)
  <2>1. T.columns \in {M, Rendered(M)} /\ HasRows(T, M, D) /\ \A n \in DOMAIN M : n \in DOMAIN T.columns /\ T.columns[n] = M[n]
    BY <1>3, RenderedKeeps DEF Fits
  <2>2. ASSUME NEW r \in DOMAIN D1
        PROVE  /\ DOMAIN D1[r] = DOMAIN M
               /\ DOMAIN T1.rows[r] = DOMAIN T1.columns
               /\ \A n \in DOMAIN M : n \in DOMAIN T1.columns /\ T1.rows[r][n] = D1[r][n]
               /\ \A n \in DOMAIN T1.columns : T1.rows[r][n] = "null" => T1.columns[n].null
    <3>1. CASE r = row
      <4>1. T1.rows[r] = cells /\ D1[r] = known
        BY <1>10, <1>11, <3>1
      <4>2. \A n \in nulls : n \in DOMAIN M /\ M[n].null
        BY <1>2 DEF M
      <4> QED
        BY <1>7, <1>8, <1>11, <2>1, <4>1, <4>2
    <3>2. CASE r # row
      <4>1. r \in DOMAIN D /\ T1.rows[r] = T.rows[r] /\ D1[r] = D[r]
        BY <1>10, <1>11, <3>2
      <4> QED
        BY <1>11, <2>1, <4>1 DEF HasRows
    <3> QED
      BY <3>1, <3>2
  <2>3. HasRows(T1, M, D1)
    BY <1>10, <1>11, <2>2 DEF HasRows
  <2> QED
    BY <1>11, <2>1, <2>3 DEF Fits
<1>14. Calm(tables', models', data')
  <2>1. ASSUME NEW m \in DOMAIN models PROVE Fits(tables'[m], models[m], data'[m])
    <3>1. CASE m = name
      BY <1>5, <1>13, <3>1 DEF T1, M
    <3>2. CASE m # name
      BY <1>1, <1>3, <1>5, <3>2 DEF Calm
    <3> QED
      BY <3>1, <3>2
  <2> QED
    BY <1>0, <1>3, <1>5, <2>1 DEF Calm
<1>15. Indexed(tables', deferred_sql')
  <2>1. \A t \in DOMAIN tables : SameColumns(tables'[t], tables[t])
    BY <1>5, <1>11 DEF SameColumns, T1, T
  <2> QED
    BY <1>0, <1>1, <1>5, <2>1, IndexedSame
<1>16. Shape'
  <2>1. \A t \in DOMAIN tables' : t \in AllTables /\ IsTable(tables'[t])
    BY <1>1, <1>5, <1>12 DEF Shape, T1
  <2> QED
    BY <1>0, <1>1, <1>2, <1>5, <2>1 DEF Shape, Remaking
<1>17. Saved'
  BY <1>0, <1>1 DEF Saved
<1> QED
  BY <1>0, <1>1, <1>14, <1>15, <1>16, <1>17, StaysCalm
--------------------------------------------------------------------------------
(* The operations that change the parent.                                      *)

\* The same fields, but for what the foreign key refers to.
Retargeted(M1, M, to) ==
  /\ DOMAIN M1 = DOMAIN M /\ M1 = [n \in DOMAIN M1 |-> M1[n]]
  /\ \A n \in DOMAIN M \ {"ref"} : M1[n] = M[n]
  /\ M1["ref"] = [M["ref"] EXCEPT !.to = to]

LEMMA RetargetedModel ==
  ASSUME NEW M, IsModel(M), "ref" \in DOMAIN M, NEW to \in Names \union {"id"}, NEW M1, Retargeted(M1, M, to)
  PROVE  /\ IsModel(M1) /\ M1["ref"].to = to /\ M1["ref"].index = M["ref"].index /\ M1["ref"].null = M["ref"].null
         /\ M["ref"].to = to => M1 = M
<1>1. M["ref"] \in Field
  BY DEF IsModel
<1>2. /\ M1["ref"] \in Field /\ M1["ref"].to = to /\ M1["ref"].index = M["ref"].index /\ M1["ref"].null = M["ref"].null
      /\ M1["ref"].pk = M["ref"].pk /\ M1["ref"].auto = M["ref"].auto /\ M1["ref"].unique = M["ref"].unique
      /\ M["ref"].to = to => M1["ref"] = M["ref"]
  <2>1. M1["ref"] = [M["ref"] EXCEPT !.to = to]
    BY DEF Retargeted
  <2> QED
    BY <1>1, <2>1 DEF Field
<1>3. IsModel(M1)
  <2>1. DOMAIN M1 \subseteq AllColumns /\ M1 \in [DOMAIN M1 -> Field]
    <3>1. DOMAIN M1 = DOMAIN M /\ M1 = [n \in DOMAIN M1 |-> M1[n]]
      BY DEF Retargeted
    <3>2. \A n \in DOMAIN M \ {"ref"} : M1[n] \in Field
      BY DEF Retargeted, IsModel
    <3>3. DOMAIN M \subseteq AllColumns
      BY DEF IsModel
    <3> QED
      BY <1>2, <3>1, <3>2, <3>3
  <2>2. \A n, m \in DOMAIN M1 : M1[n].pk /\ M1[m].pk => n = m
    BY <1>2 DEF Retargeted, IsModel
  <2>3. \A n \in DOMAIN M1 : /\ M1[n].pk => M1[n].unique /\ ~M1[n].null
                             /\ M1[n].auto => n = "id"
                             /\ n # "ref" => M1[n].to = "none"
    <3> SUFFICES ASSUME NEW n \in DOMAIN M1
                 PROVE  /\ M1[n].pk => M1[n].unique /\ ~M1[n].null
                        /\ M1[n].auto => n = "id"
                        /\ n # "ref" => M1[n].to = "none"
      OBVIOUS
    <3>1. n \in DOMAIN M /\ (n # "ref" => M1[n] = M[n])
      BY DEF Retargeted
    <3>2. M1[n].pk = M[n].pk /\ M1[n].unique = M[n].unique /\ M1[n].null = M[n].null /\ M1[n].auto = M[n].auto
      BY <1>2, <3>1
    <3>3. /\ M[n].pk => M[n].unique /\ ~M[n].null
          /\ M[n].auto => n = "id"
          /\ n # "ref" => M[n].to = "none"
      BY <3>1 DEF IsModel
    <3> QED
      BY <3>1, <3>2, <3>3
  <2>4. "id" \in DOMAIN M1 => M1["id"] = Id
    BY DEF Retargeted, IsModel
  <2> QED
    BY <2>1, <2>2, <2>3, <2>4 DEF IsModel
<1>4. ASSUME M["ref"].to = to PROVE M1 = M
  <2>1. M = [n \in DOMAIN M |-> M[n]]
    BY DEF IsModel
  <2>2. \A n \in DOMAIN M : M1[n] = M[n]
    BY <1>2, <1>4 DEF Retargeted
  <2> QED
    BY <2>1, <2>2 DEF Retargeted
<1> QED
  BY <1>2, <1>3, <1>4

\* The models after an operation on the parent.
LEMMA BecomesModels ==
  ASSUME AreModels(models), DOMAIN data = DOMAIN models, "parent" \in DOMAIN models,
         NEW fields, IsModel(fields), DOMAIN fields \subseteq Names \union {"id"},
         NEW change, MayBecome(fields, change), Becomes(fields, change)
  PROVE  /\ AreModels(models') /\ DOMAIN models' = DOMAIN models /\ models'["parent"] = fields
         /\ DOMAIN data' = DOMAIN models /\ before' = data /\ UNCHANGED refused
         /\ \A m \in DOMAIN models \ {"parent"} :
              /\ data'[m] = data[m]
              /\ Retargeted(models'[m], models[m], Target(m, change))
              /\ Target(m, change) \in Names \union {"id"}
<1>1. models' = [m \in DOMAIN models |->
                   IF m = "parent" THEN fields ELSE [models[m] EXCEPT !["ref"].to = Target(m, change)]]
  BY DEF Becomes
<1>2. before' = data /\ UNCHANGED refused
  BY DEF Becomes
<1>3. DOMAIN models' = DOMAIN models /\ models'["parent"] = fields
  BY <1>1
<1>4. DOMAIN data' = DOMAIN models /\ \A m \in DOMAIN models \ {"parent"} : data'[m] = data[m]
  <2> DEFINE D1 == [r \in DOMAIN data["parent"] |-> [n \in DOMAIN fields |->
                      IF /\ (IF \E a \in change.altered : a.name = n
                             THEN (CHOOSE a \in change.altered : a.name = n).old ELSE n) \in DOMAIN data["parent"][r]
                         /\ \/ data["parent"][r][IF \E a \in change.altered : a.name = n
                                                 THEN (CHOOSE a \in change.altered : a.name = n).old ELSE n] # "null"
                            \/ fields[n].null
                      THEN data["parent"][r][IF \E a \in change.altered : a.name = n
                                             THEN (CHOOSE a \in change.altered : a.name = n).old ELSE n]
                      ELSE AnyDefault(fields[n])]]
  <2>1. data' = [data EXCEPT !["parent"] = D1]
    BY DEF Becomes
  <2> HIDE DEF D1
  <2> QED
    BY <2>1
<1>5. ASSUME NEW m \in DOMAIN models \ {"parent"}
      PROVE  /\ Retargeted(models'[m], models[m], Target(m, change))
             /\ Target(m, change) \in DOMAIN fields /\ fields[Target(m, change)].unique
             /\ "ref" \in DOMAIN models[m] /\ IsModel(models[m])
  <2> DEFINE to == Target(m, change)
             M == models[m]
  <2>1. to \in DOMAIN fields /\ fields[to].unique
    BY DEF MayBecome, Referring
  <2>2. "ref" \in DOMAIN M /\ IsModel(M)
    BY DEF AreModels
  <2>3. models'[m] = [M EXCEPT !["ref"].to = to]
    BY <1>1
  <2> HIDE DEF to, M
  <2>4. models'[m] = [M EXCEPT !["ref"] = [M["ref"] EXCEPT !.to = to]]
    BY <2>2, <2>3
  <2>5. Retargeted(models'[m], M, to)
    BY <2>2, <2>4 DEF Retargeted
  <2> QED
    BY <2>1, <2>2, <2>5 DEF to, M
<1>6. \A m \in DOMAIN models \ {"parent"} : Target(m, change) \in Names \union {"id"}
  BY <1>5
<1>7. AreModels(models')
  <2>1. DOMAIN models' \subseteq Tables /\ \A m, n \in DOMAIN models' \ {"parent"} : m = n
    BY <1>3 DEF AreModels
  <2>2. \A m \in DOMAIN models' \ {"parent"} : IsModel(models'[m]) /\ models'[m]["ref"].to = Target(m, change)
    BY <1>3, <1>5, <1>6, RetargetedModel
  <2>3. \A m \in DOMAIN models' \ {"parent"} : DOMAIN models'[m] = DOMAIN models[m]
    BY <1>3, <1>5 DEF Retargeted
  <2>4. \A m \in DOMAIN models' \ {"parent"} :
          /\ {"id", "ref"} \subseteq DOMAIN models'[m]
          /\ models'[m]["ref"].to \in DOMAIN models'["parent"] /\ models'["parent"][models'[m]["ref"].to].unique
          /\ m = "child" => DOMAIN models'[m] = {"id", "ref"}
          /\ m \in Throughs => \E peer \in Peers : DOMAIN models'[m] = {"id", "ref", peer}
    <3> SUFFICES ASSUME NEW m \in DOMAIN models \ {"parent"}
                 PROVE  /\ {"id", "ref"} \subseteq DOMAIN models'[m]
                        /\ models'[m]["ref"].to \in DOMAIN fields /\ fields[models'[m]["ref"].to].unique
                        /\ m = "child" => DOMAIN models'[m] = {"id", "ref"}
                        /\ m \in Throughs => \E peer \in Peers : DOMAIN models'[m] = {"id", "ref", peer}
      BY <1>3
    <3>1. DOMAIN models'[m] = DOMAIN models[m]
      BY <1>3, <2>3
    <3>2. models'[m]["ref"].to \in DOMAIN fields /\ fields[models'[m]["ref"].to].unique
      BY <1>3, <1>5, <2>2
    <3>3. /\ {"id", "ref"} \subseteq DOMAIN models[m]
          /\ m = "child" => DOMAIN models[m] = {"id", "ref"}
          /\ m \in Throughs => \E peer \in Peers : DOMAIN models[m] = {"id", "ref", peer}
      BY DEF AreModels
    <3> QED
      BY <3>1, <3>2, <3>3
  <2>5. \A m \in DOMAIN models' : IsModel(models'[m])
    BY <1>3, <2>2
  <2> QED
    BY <1>3, <2>1, <2>4, <2>5 DEF AreModels
<1> QED
  BY <1>2, <1>3, <1>4, <1>5, <1>6, <1>7

\* The column that a field had before.
Source(change, n) ==
  IF \E a \in change.altered : a.name = n THEN (CHOOSE a \in change.altered : a.name = n).old ELSE n

LEMMA BecomesRows ==
  ASSUME "parent" \in DOMAIN data, NEW fields, NEW change, Becomes(fields, change)
  PROVE  /\ DOMAIN data'["parent"] = DOMAIN data["parent"]
         /\ \A row \in DOMAIN data["parent"] :
              /\ DOMAIN data'["parent"][row] = DOMAIN fields
              /\ \A n \in DOMAIN fields :
                   data'["parent"][row][n] =
                     IF /\ Source(change, n) \in DOMAIN data["parent"][row]
                        /\ data["parent"][row][Source(change, n)] # "null" \/ fields[n].null
                     THEN data["parent"][row][Source(change, n)] ELSE AnyDefault(fields[n])
<1> DEFINE D == data["parent"]
           D1 == [r \in DOMAIN D |-> [n \in DOMAIN fields |->
                    IF Source(change, n) \in DOMAIN D[r] /\ (D[r][Source(change, n)] # "null" \/ fields[n].null)
                    THEN D[r][Source(change, n)] ELSE AnyDefault(fields[n])]]
<1>1. data' = [data EXCEPT !["parent"] = D1]
  BY DEF Becomes, Source
<1>2. data'["parent"] = D1
  BY <1>1
<1> QED
  BY <1>2

\* What is left to show of an operation that starts a remake.
LEMMA StartsRemake ==
  ASSUME RemakeInv, Operate, step' = "create", UNCHANGED <<tables, deferred_sql, refused>>,
         AreModels(models'), DOMAIN data' = DOMAIN models', DOMAIN before' = DOMAIN models',
         remakes' # <<>>, RemakesOK'
  PROVE  RemakeInv'
<1>1. /\ step = "editing" /\ operations' \in 0..MaxOperations /\ UNCHANGED <<atomic_migration, snapshot>>
  <2>1. operations < MaxOperations /\ operations' = operations + 1 /\ operations \in 0..MaxOperations
    BY DEF Operate, RemakeInv, Shape
  <2>2. operations' \in 0..MaxOperations
    BY <2>1, RemakeAssumption
  <2> QED
    BY <2>2 DEF Operate
<1>2. Shape /\ Saved /\ refused = FALSE /\ Indexed(tables, deferred_sql)
  BY <1>1, IsCalm
<1>3. Shape'
  BY <1>1, <1>2 DEF Shape, Remaking
<1>4. Saved'
  BY <1>1, <1>2 DEF Saved
<1> QED
  BY <1>2, <1>3, <1>4 DEF RemakeInv, IndexesOK

\* A remake of the parent starts, with another one for the table that refers to it, if any.
LEMMA ParentRemade ==
  ASSUME RemakeInv, Operate, "parent" \in DOMAIN models,
         NEW fields, IsModel(fields), DOMAIN fields \subseteq Names \union {"id"},
         NEW r, r.table = "parent", r.target = Replacement("parent"), MayBecome(fields, r), Becomes(fields, r),
         Copies(r, tables["parent"], fields, data'["parent"]),
         step' = "create", UNCHANGED <<tables, deferred_sql>>,
         \/ remakes' = <<r>> /\ \A m \in DOMAIN models \ {"parent"} : models'[m] = models[m]
         \/ \E s : remakes' = <<r, s>> /\ Waiting(s)'
  PROVE  RemakeInv'
<1>1. Calm(tables, models, data) /\ Shape
  BY IsCalm DEF Operate
<1>2. AreModels(models) /\ DOMAIN data = DOMAIN models /\ DOMAIN tables = DOMAIN models /\ Fits(tables["parent"], models["parent"], data["parent"])
  BY <1>1 DEF Calm, Shape
<1>3. /\ AreModels(models') /\ DOMAIN models' = DOMAIN models /\ models'["parent"] = fields
      /\ DOMAIN data' = DOMAIN models /\ before' = data /\ UNCHANGED refused
      /\ \A m \in DOMAIN models \ {"parent"} : data'[m] = data[m]
  BY <1>2, BecomesModels
<1>4. ~Moves(r) /\ Model(r) = "parent" /\ "parent" \in Tables
  <2>1. "parent" \in Tables
    BY DEF Tables
  <2> QED
    BY <2>1, ReplacementIs DEF Moves, Model
<1>5. Making(r)'
  <2>1. DOMAIN tables = (DOMAIN models \ {"parent"}) \union {"parent"}
    BY <1>2
  <2>2. HoldsIn(tables["parent"], data["parent"])
    BY <1>2, FitHolds
  <2> QED
    BY <1>3, <1>4, <2>1, <2>2 DEF Making
<1>6. RemakesOK' /\ remakes' # <<>>
  <2>1. CASE remakes' = <<r>> /\ \A m \in DOMAIN models \ {"parent"} : models'[m] = models[m]
    <3>1. Rest({Model(r)})'
      BY <1>1, <1>3, <1>4, <2>1 DEF Rest, Calm
    <3> QED
      BY <1>5, <2>1, <3>1 DEF RemakesOK
  <2>2. CASE \E s : remakes' = <<r, s>> /\ Waiting(s)'
    <3>1. PICK s : remakes' = <<r, s>> /\ Waiting(s)'
      BY <2>2
    <3> QED
      BY <1>5, <3>1 DEF RemakesOK
  <2> QED
    BY <2>1, <2>2
<1>7. UNCHANGED <<tables, deferred_sql, refused>> /\ DOMAIN data' = DOMAIN models' /\ DOMAIN before' = DOMAIN models'
  BY <1>2, <1>3
<1> QED
  BY <1>3, <1>6, <1>7, StartsRemake

LEMMA TargetStays ==
  ASSUME NEW m, NEW change, change.altered = {}
  PROVE  Target(m, change) = models[m]["ref"].to
  BY DEF Target

\* What the operations on the parent start from.
LEMMA TheParent ==
  ASSUME RemakeInv, Operate, "parent" \in DOMAIN models
  PROVE  /\ AreModels(models) /\ IsModel(models["parent"]) /\ DOMAIN models["parent"] \subseteq Names \union {"id"}
         /\ Fits(tables["parent"], models["parent"], data["parent"]) /\ IsTable(tables["parent"])
         /\ DOMAIN data = DOMAIN models /\ DOMAIN tables = DOMAIN models
         /\ \A row \in DOMAIN data["parent"] : DOMAIN data["parent"][row] = DOMAIN models["parent"]
         /\ \A m \in DOMAIN models : IsTable(tables[m]) /\ Fits(tables[m], models[m], data[m])
         /\ remakes = <<>> /\ Indexed(tables, deferred_sql) /\ Shape /\ Saved /\ refused = FALSE
         /\ step = "editing" /\ operations' \in 0..MaxOperations /\ UNCHANGED <<atomic_migration, snapshot>>
<1>1. step = "editing" /\ operations' \in 0..MaxOperations /\ UNCHANGED <<atomic_migration, snapshot>>
  <2>1. operations < MaxOperations /\ operations' = operations + 1 /\ operations \in 0..MaxOperations
    BY DEF Operate, RemakeInv, Shape
  <2>2. operations' \in 0..MaxOperations
    BY <2>1, RemakeAssumption
  <2> QED
    BY <2>2 DEF Operate
<1>2. /\ remakes = <<>> /\ Calm(tables, models, data) /\ Indexed(tables, deferred_sql)
      /\ Shape /\ Saved /\ refused = FALSE
  BY <1>1, IsCalm
<1> QED
  BY <1>1, <1>2 DEF Calm, Shape, AreModels, Fits, HasRows

LEMMA AddFieldKeeps ==
  ASSUME RemakeInv, NEW name \in Names, NEW field \in Declarable, AddField(name, field)
  PROVE  RemakeInv'
<1> DEFINE M == models["parent"]
           T == tables["parent"]
           D == data["parent"]
           M1 == M ++ Only(name, field)
           D1 == data'["parent"]
           change == [NoChange("parent") EXCEPT !.created = {[name |-> name, field |-> field]}]
<1>1. /\ Operate /\ "parent" \in DOMAIN models /\ name \notin DOMAIN M
      /\ MayBecome(M1, change) /\ Becomes(M1, change) /\ Remakes(<<change>>)
  BY DEF AddField
<1> PICK r : r = change
  OBVIOUS
<1>2. /\ r.table = "parent" /\ r.target = Replacement("parent") /\ r.fields = M
      /\ r.created = {[name |-> name, field |-> field]} /\ r.deleted = {} /\ r.altered = {}
  BY DEF NoChange
<1>3. /\ MayBecome(M1, r) /\ Becomes(M1, r) /\ remakes' = <<r>> /\ step' = "create" /\ UNCHANGED <<tables, deferred_sql>>
  BY <1>1 DEF Remakes
<1>4. /\ AreModels(models) /\ IsModel(M) /\ DOMAIN M \subseteq Names \union {"id"} /\ Fits(T, M, D)
      /\ DOMAIN data = DOMAIN models /\ \A row \in DOMAIN D : DOMAIN D[row] = DOMAIN M
  BY <1>1, TheParent
<1>5. /\ field \in Field /\ ~field.auto /\ field.to = "none" /\ (field.pk => field.unique /\ ~field.null)
  BY RemakeAssumption
<1>6. OneKey(M1)
  BY <1>3 DEF MayBecome, OneKey
<1>7. KeepsKey(r, T)
  BY <1>3 DEF MayBecome, HasKey, KeepsKey
<1>0. M1 = M ++ Only(name, field)
  OBVIOUS
<1>8. /\ DOMAIN M1 = DOMAIN M \union {name} /\ M1[name] = field /\ (\A n \in DOMAIN M : M1[n] = M[n])
      /\ M1 = [n \in DOMAIN M1 |-> M1[n]]
  <2> HIDE DEF M
  <2> QED
    BY <1>1 DEF ++, Only
<1> HIDE DEF M1, change
<1>9. IsModel(M1) /\ DOMAIN M1 \subseteq Names \union {"id"}
  BY <1>1, <1>4, <1>5, <1>6, <1>8, Grown
<1>10. \A n : Source(r, n) = n
  BY <1>2 DEF Source
<1>11. /\ DOMAIN D1 = DOMAIN D
       /\ \A row \in DOMAIN D :
            /\ DOMAIN D1[row] = DOMAIN M1
            /\ \A n \in DOMAIN M1 : D1[row][n] = IF n \in DOMAIN D[row] /\ (D[row][n] # "null" \/ M1[n].null)
                                                 THEN D[row][n] ELSE AnyDefault(M1[n])
  BY <1>1, <1>3, <1>4, <1>10, BecomesRows
<1>12. \A row \in DOMAIN D : \A n \in DOMAIN M : D[row][n] = "null" => M[n].null
  BY <1>4, NullsAllowed
<1> HIDE DEF M, T, D, D1
<1>13. RowsGrown(D1, D, M, M1, name, field)
  BY <1>1, <1>4, <1>8, <1>11, <1>12 DEF RowsGrown
<1>14. Copies(r, T, M1, D1)
  <2>1. Changes(r, M, {[name |-> name, field |-> field]}, {}, {})
    BY <1>2 DEF Changes
  <2> QED
    BY <1>0, <1>1, <1>4, <1>5, <1>6, <1>7, <1>13, <2>1, AddCopies
<1>15. \A m \in DOMAIN models \ {"parent"} : models'[m] = models[m]
  <2> SUFFICES ASSUME NEW m \in DOMAIN models \ {"parent"} PROVE models'[m] = models[m]
    OBVIOUS
  <2>1. Retargeted(models'[m], models[m], Target(m, r)) /\ Target(m, r) \in Names \union {"id"}
    BY <1>1, <1>3, <1>4, <1>9, BecomesModels
  <2>2. Target(m, r) = models[m]["ref"].to
    BY <1>2, TargetStays
  <2>3. "ref" \in DOMAIN models[m] /\ IsModel(models[m])
    BY <1>4 DEF AreModels
  <2> QED
    BY <2>1, <2>2, <2>3, RetargetedModel
<1> QED
  BY <1>1, <1>2, <1>3, <1>9, <1>14, <1>15, ParentRemade DEF T, D1

\* What is left to show of an operation on the parent that one statement does.
LEMMA ParentAtOnce ==
  ASSUME RemakeInv, Operate, "parent" \in DOMAIN models,
         NEW fields, IsModel(fields), DOMAIN fields \subseteq Names \union {"id"},
         NEW change, MayBecome(fields, change), Becomes(fields, change), AtOnce,
         DOMAIN tables' = DOMAIN tables,
         \A m \in DOMAIN models : IsTable(tables'[m]) /\ Fits(tables'[m], models'[m], data'[m]),
         Indexed(tables', deferred_sql')
  PROVE  RemakeInv'
<1>1. /\ AreModels(models) /\ DOMAIN data = DOMAIN models /\ DOMAIN tables = DOMAIN models
      /\ remakes = <<>> /\ Shape /\ Saved /\ refused = FALSE
      /\ step = "editing" /\ operations' \in 0..MaxOperations /\ UNCHANGED <<atomic_migration, snapshot>>
  BY TheParent
<1>2. /\ AreModels(models') /\ DOMAIN models' = DOMAIN models
      /\ DOMAIN data' = DOMAIN models /\ before' = data /\ UNCHANGED refused
  BY <1>1, BecomesModels
<1>3. UNCHANGED <<step, remakes>>
  BY DEF AtOnce
<1>4. Calm(tables', models', data')
  BY <1>1, <1>2 DEF Calm
<1>5. Shape'
  BY <1>1, <1>2, <1>3 DEF Shape, Remaking
<1>6. Saved'
  BY <1>1, <1>3 DEF Saved
<1> QED
  BY <1>1, <1>2, <1>3, <1>4, <1>5, <1>6, StaysCalm

\* DROP COLUMN
LosesColumn(T1, T, name) ==
  /\ DOMAIN T1 = {"columns", "rows", "indexes"} /\ T1.columns = Without(T.columns, name) /\ T1.indexes = T.indexes
  /\ DOMAIN T1.rows = DOMAIN T.rows
  /\ \A r \in DOMAIN T.rows : T1.rows[r] = Without(T.rows[r], name)

LEMMA ColumnDropped ==
  ASSUME NEW M, NEW T, NEW D, NEW T1, NEW M1, NEW D1, NEW name \in DOMAIN M,
         IsModel(M), IsTable(T), Fits(T, M, D), M1 = Without(M, name), ~M[name].pk, ~M[name].index,
         \E n \in DOMAIN T.columns : T.columns[n].pk, RowsShrunk(D1, D, M1), name \notin T.indexes,
         LosesColumn(T1, T, name)
  PROVE  IsTable(T1) /\ Fits(T1, M1, D1)
<1>1. /\ DOMAIN M1 = DOMAIN M \ {name} /\ \A n \in DOMAIN M1 : M1[n] = M[n]
  BY DEF Without
<1>2. name # "id" /\ T.columns = Rendered(M)
  <2>1. name # "id"
    BY IdIs DEF IsModel
  <2>2. T.columns \in {M, Rendered(M)}
    BY DEF Fits
  <2> QED
    BY <2>1, <2>2, KeyRenders
<1>3. Rendered(M1) = Without(Rendered(M), name)
  <2>1. CASE \E n \in DOMAIN M : M[n].pk
    <3>1. \E n \in DOMAIN M1 : M1[n].pk
      BY <1>1, <2>1
    <3> QED
      BY <2>1, <3>1 DEF Rendered
  <2>2. CASE ~ \E n \in DOMAIN M : M[n].pk
    <3>1. ~ \E n \in DOMAIN M1 : M1[n].pk
      BY <1>1, <2>2
    <3>2. Rendered(M) = Only("id", Id) ++ M /\ Rendered(M1) = Only("id", Id) ++ Without(M, name)
      BY <2>2, <3>1 DEF Rendered
    <3>3. Only("id", Id) ++ Without(M, name) = Without(Only("id", Id) ++ M, name)
      <4> DEFINE x == Id
      <4> HIDE DEF x
      <4>1. Only("id", x) ++ Without(M, name) = Without(Only("id", x) ++ M, name)
        BY <1>2 DEF ++, Only, Without
      <4> QED
        BY <4>1 DEF x
    <3> QED
      BY <3>2, <3>3
  <2> QED
    BY <2>1, <2>2
<1>4. T1.columns = Rendered(M1) /\ DOMAIN T1.columns = DOMAIN T.columns \ {name} /\ \A n \in DOMAIN T1.columns : T1.columns[n] = T.columns[n]
  <2>1. T1.columns = Without(T.columns, name)
    BY DEF LosesColumn
  <2>2. DOMAIN T1.columns = DOMAIN T.columns \ {name} /\ \A n \in DOMAIN T.columns \ {name} : T1.columns[n] = T.columns[n]
    BY <2>1 DEF Without
  <2> QED
    BY <1>2, <1>3, <2>1, <2>2
<1>5. /\ DOMAIN T1.rows = DOMAIN T.rows
      /\ \A r \in DOMAIN T.rows : /\ DOMAIN T1.rows[r] = DOMAIN T.rows[r] \ {name}
                                  /\ \A n \in DOMAIN T.rows[r] \ {name} : T1.rows[r][n] = T.rows[r][n]
  <2>1. DOMAIN T1.rows = DOMAIN T.rows /\ \A r \in DOMAIN T.rows : T1.rows[r] = Without(T.rows[r], name)
    BY DEF LosesColumn
  <2> SUFFICES ASSUME NEW r \in DOMAIN T.rows
               PROVE  /\ DOMAIN T1.rows[r] = DOMAIN T.rows[r] \ {name}
                      /\ \A n \in DOMAIN T.rows[r] \ {name} : T1.rows[r][n] = T.rows[r][n]
    BY <2>1
  <2>2. T1.rows[r] = Without(T.rows[r], name)
    BY <2>1
  <2> QED
    BY <2>2 DEF Without
<1>6. IsTable(T1)
  <2>1. T1.columns \in [DOMAIN T1.columns -> Field]
    <3>1. T1.columns = [n \in DOMAIN T1.columns |-> T.columns[n]]
      BY <1>4 DEF Without, LosesColumn
    <3>2. \A n \in DOMAIN T1.columns : T.columns[n] \in Field
      BY <1>4 DEF IsTable
    <3> QED
      BY <3>1, <3>2
  <2>2. \A r \in DOMAIN T1.rows : DOMAIN T1.rows[r] = DOMAIN T1.columns
    BY <1>4, <1>5 DEF IsTable
  <2> QED
    BY <1>4, <1>5, <2>1, <2>2 DEF IsTable, LosesColumn
<1>7. HasRows(T1, M1, D1)
  <2>1. /\ DOMAIN T.rows = DOMAIN D
        /\ \A r \in DOMAIN D :
             /\ DOMAIN T.rows[r] = DOMAIN T.columns
             /\ \A n \in DOMAIN M : n \in DOMAIN T.columns /\ T.rows[r][n] = D[r][n]
             /\ \A n \in DOMAIN T.columns : T.rows[r][n] = "null" => T.columns[n].null
    BY DEF Fits, HasRows
  <2>2. DOMAIN D1 = DOMAIN D /\ \A r \in DOMAIN D : DOMAIN D1[r] = DOMAIN M1 /\ \A n \in DOMAIN M1 : D1[r][n] = D[r][n]
    BY DEF RowsShrunk
  <2>3. ASSUME NEW r \in DOMAIN D1
        PROVE  /\ DOMAIN D1[r] = DOMAIN M1
               /\ DOMAIN T1.rows[r] = DOMAIN T1.columns
               /\ \A n \in DOMAIN M1 : n \in DOMAIN T1.columns /\ T1.rows[r][n] = D1[r][n]
               /\ \A n \in DOMAIN T1.columns : T1.rows[r][n] = "null" => T1.columns[n].null
    BY <1>1, <1>4, <1>5, <2>1, <2>2
  <2> QED
    BY <1>5, <2>1, <2>2, <2>3 DEF HasRows
<1> QED
  BY <1>4, <1>6, <1>7 DEF Fits

LEMMA RemoveFieldKeeps ==
  ASSUME RemakeInv, NEW name \in Names \union {"id"}, RemoveField(name)
  PROVE  RemakeInv'
<1> DEFINE M == models["parent"]
           T == tables["parent"]
           D == data["parent"]
           M1 == Without(M, name)
           D1 == data'["parent"]
           change == [NoChange("parent") EXCEPT !.deleted = {name}]
<1>1. /\ Operate /\ "parent" \in DOMAIN models /\ name \in DOMAIN M
      /\ MayBecome(M1, change) /\ Becomes(M1, change)
      /\ \/ /\ ~M[name].pk /\ ~M[name].unique /\ ~M[name].index
            /\ DropColumn(name)
            /\ deferred_sql' = Remaining({s \in Range(deferred_sql) : s.table = "parent" /\ s.column = name})
            /\ AtOnce
         \/ Remakes(<<change>>)
  BY DEF RemoveField, References
<1> PICK r : r = change
  OBVIOUS
<1>2. /\ r.table = "parent" /\ r.target = Replacement("parent") /\ r.fields = M
      /\ r.created = {} /\ r.deleted = {name} /\ r.altered = {}
  BY DEF NoChange
<1>3. MayBecome(M1, r) /\ Becomes(M1, r) /\ (Remakes(<<change>>) => Remakes(<<r>>))
  BY <1>1
<1>4. /\ AreModels(models) /\ IsModel(M) /\ DOMAIN M \subseteq Names \union {"id"} /\ Fits(T, M, D) /\ IsTable(T)
      /\ DOMAIN data = DOMAIN models /\ DOMAIN tables = DOMAIN models
      /\ \A row \in DOMAIN D : DOMAIN D[row] = DOMAIN M
      /\ \A m \in DOMAIN models : IsTable(tables[m]) /\ Fits(tables[m], models[m], data[m])
      /\ Indexed(tables, deferred_sql)
  BY <1>1, TheParent
<1>5. KeepsKey(r, T)
  BY <1>3 DEF MayBecome, HasKey, KeepsKey
<1>0. M1 = Without(M, name)
  OBVIOUS
<1>6. DOMAIN M1 = DOMAIN M \ {name} /\ (\A n \in DOMAIN M1 : M1[n] = M[n]) /\ IsModel(M1)
  <2>1. DOMAIN M1 = DOMAIN M \ {name} /\ \A n \in DOMAIN M1 : M1[n] = M[n]
    BY DEF Without
  <2>2. IsModel(M1)
    <3> HIDE DEF M
    <3> QED
      BY <1>4, Shrunk
  <2> QED
    BY <2>1, <2>2
<1> HIDE DEF M1, change
<1>7. DOMAIN M1 \subseteq Names \union {"id"}
  BY <1>4, <1>6
<1>8. \A n : Source(r, n) = n
  BY <1>2 DEF Source
<1>9. /\ DOMAIN D1 = DOMAIN D
      /\ \A row \in DOMAIN D :
           /\ DOMAIN D1[row] = DOMAIN M1
           /\ \A n \in DOMAIN M1 : D1[row][n] = IF n \in DOMAIN D[row] /\ (D[row][n] # "null" \/ M1[n].null)
                                                THEN D[row][n] ELSE AnyDefault(M1[n])
  BY <1>1, <1>3, <1>4, <1>8, BecomesRows
<1>10. \A row \in DOMAIN D : \A n \in DOMAIN M : D[row][n] = "null" => M[n].null
  BY <1>4, NullsAllowed
<1>11. \A m \in DOMAIN models \ {"parent"} : models'[m] = models[m] /\ data'[m] = data[m]
  <2> SUFFICES ASSUME NEW m \in DOMAIN models \ {"parent"} PROVE models'[m] = models[m] /\ data'[m] = data[m]
    OBVIOUS
  <2>1. Retargeted(models'[m], models[m], Target(m, r)) /\ Target(m, r) \in Names \union {"id"} /\ data'[m] = data[m]
    BY <1>1, <1>3, <1>4, <1>6, <1>7, BecomesModels
  <2>2. Target(m, r) = models[m]["ref"].to
    BY <1>2, TargetStays
  <2>3. "ref" \in DOMAIN models[m] /\ IsModel(models[m])
    BY <1>4 DEF AreModels
  <2> QED
    BY <2>1, <2>2, <2>3, RetargetedModel
<1>12. models'["parent"] = M1
  BY <1>1, <1>3, <1>4, <1>6, <1>7, BecomesModels
<1> HIDE DEF M, T, D, D1
<1>13. RowsShrunk(D1, D, M1)
  BY <1>4, <1>6, <1>9, <1>10 DEF RowsShrunk
<1>14. CASE Remakes(<<r>>)
  <2>1. Changes(r, M, {}, {name}, {})
    BY <1>2 DEF Changes
  <2>2. Copies(r, T, M1, D1)
    BY <1>0, <1>1, <1>4, <1>5, <1>13, <2>1, RemoveCopies
  <2>3. remakes' = <<r>> /\ step' = "create" /\ UNCHANGED <<tables, deferred_sql>>
    BY <1>14 DEF Remakes
  <2> QED
    BY <1>1, <1>2, <1>3, <1>6, <1>7, <1>11, <2>2, <2>3, ParentRemade DEF T, D1
<1>15. CASE /\ ~M[name].pk /\ ~M[name].unique /\ ~M[name].index
            /\ DropColumn(name)
            /\ deferred_sql' = Remaining({s \in Range(deferred_sql) : s.table = "parent" /\ s.column = name})
            /\ AtOnce
  <2> DEFINE C1 == Without(T.columns, name)
             rows1 == [x \in DOMAIN T.rows |-> Without(T.rows[x], name)]
             T1 == tables'["parent"]
  <2>1. tables' = [tables EXCEPT !["parent"] = [columns |-> C1, rows |-> rows1, indexes |-> T.indexes]]
    BY <1>15 DEF DropColumn, T
  <2>2. C1 = Without(T.columns, name) /\ DOMAIN rows1 = DOMAIN T.rows /\ \A x \in DOMAIN T.rows : rows1[x] = Without(T.rows[x], name)
    OBVIOUS
  <2> HIDE DEF C1, rows1
  <2>3. /\ DOMAIN tables' = DOMAIN tables /\ (\A t \in DOMAIN tables \ {"parent"} : tables'[t] = tables[t])
        /\ T1 = [columns |-> C1, rows |-> rows1, indexes |-> T.indexes]
    BY <1>1, <1>4, <2>1
  <2>4. ColumnDroppedFrom(tables', tables, "parent", name)
    BY <2>2, <2>3 DEF ColumnDroppedFrom, T
  <2>5. T.columns[name] = M[name] /\ name \in DOMAIN T.columns
    BY <1>1, <1>4, RenderedKeeps DEF Fits, M
  <2>6. /\ Indexed(tables', Filtered({s \in Range(deferred_sql) : s.table = "parent" /\ s.column = name}, deferred_sql))
        /\ name \notin T.indexes
    <3>1. /\ "parent" \in DOMAIN tables /\ name \in DOMAIN tables["parent"].columns
          /\ ~IsIndexed(tables["parent"].columns[name]) /\ Indexed(tables, deferred_sql)
      BY <1>1, <1>4, <1>15, <2>5 DEF T, IsIndexed
    <3> QED
      BY <2>4, <3>1, IndexedColumnDropped DEF T
  <2>7. Indexed(tables', deferred_sql')
    BY <1>15, <2>6, RemainingIs
  <2>8. ~GivesKey(r)
    BY <1>2 DEF GivesKey
  <2>9. LosesColumn(T1, T, name)
    <3> HIDE DEF T1
    <3> QED
      BY <2>2, <2>3 DEF LosesColumn
  <2>10. \E n \in DOMAIN T.columns : T.columns[n].pk
    BY <1>5, <2>8 DEF KeepsKey
  <2>11. IsTable(T1) /\ Fits(T1, M1, D1)
    <3> HIDE DEF T1
    <3> QED
      BY <1>0, <1>1, <1>4, <1>13, <1>15, <2>6, <2>9, <2>10, ColumnDropped DEF M
  <2>12. \A m \in DOMAIN models : IsTable(tables'[m]) /\ Fits(tables'[m], models'[m], data'[m])
    BY <1>4, <1>11, <1>12, <2>3, <2>11 DEF D1
  <2> QED
    BY <1>1, <1>3, <1>6, <1>7, <1>15, <2>3, <2>7, <2>12, ParentAtOnce
<1> QED
  BY <1>1, <1>3, <1>14, <1>15 DEF M

\* RENAME COLUMN, in the table of the parent.
RenamesColumn(T1, T, old, name) ==
  /\ DOMAIN T1 = {"columns", "rows", "indexes"} /\ T1.columns = Renamed(T.columns, old, name)
  /\ T1.indexes = {IF n = old THEN name ELSE n : n \in T.indexes}
  /\ DOMAIN T1.rows = DOMAIN T.rows
  /\ \A r \in DOMAIN T.rows : T1.rows[r] = Renamed(T.rows[r], old, name)

LEMMA RenamedKey ==
  ASSUME NEW M, NEW old \in DOMAIN M, NEW name, old # "id", name # "id", name \notin DOMAIN M, "id" \in DOMAIN M => M["id"].pk
  PROVE  Rendered(Renamed(M, old, name)) = Renamed(Rendered(M), old, name)
<1> DEFINE M1 == Renamed(M, old, name)
<1>1. DOMAIN M1 = (DOMAIN M \ {old}) \union {name} /\ M1[name] = M[old] /\ \A n \in DOMAIN M \ {old} : M1[n] = M[n]
  <2>1. RenamesTo(M, old, name, M1)
    BY RenamedIs
  <2> QED
    BY <2>1 DEF RenamesTo
<1> HIDE DEF M1
<1>2. CASE \E n \in DOMAIN M : M[n].pk
  <2>1. PICK n \in DOMAIN M : M[n].pk
    BY <1>2
  <2>2. \E k \in DOMAIN M1 : M1[k].pk
    <3>1. CASE n = old
      BY <1>1, <2>1, <3>1
    <3>2. CASE n # old
      BY <1>1, <2>1, <3>2
    <3> QED
      BY <3>1, <3>2
  <2>3. Rendered(M1) = M1 /\ Rendered(M) = M
    BY <1>2, <2>2 DEF Rendered
  <2> QED
    BY <2>3 DEF M1
<1>3. CASE ~ \E n \in DOMAIN M : M[n].pk
  <2>1. ~ \E n \in DOMAIN M1 : M1[n].pk
    BY <1>1, <1>3
  <2>2. Rendered(M) = Only("id", Id) ++ M /\ Rendered(M1) = Only("id", Id) ++ M1
    BY <1>3, <2>1 DEF Rendered
  <2> DEFINE x == Id
             R == Only("id", x) ++ M
             N == Renamed(R, old, name)
             R1 == Only("id", x) ++ M1
  <2> HIDE DEF x
  <2>3. DOMAIN R = DOMAIN M \union {"id"} /\ R["id"] = x /\ \A n \in DOMAIN M \ {"id"} : R[n] = M[n]
    BY DEF ++, Only
  <2>4. DOMAIN R1 = DOMAIN M1 \union {"id"} /\ R1["id"] = x /\ \A n \in DOMAIN M1 \ {"id"} : R1[n] = M1[n]
    BY DEF ++, Only
  <2>5. R1 = [n \in DOMAIN R1 |-> R1[n]]
    BY DEF ++
  <2> HIDE DEF R, R1
  <2>6. RenamesTo(R, old, name, N)
    BY <2>3, RenamedIs
  <2> HIDE DEF N
  <2>7. /\ DOMAIN N = (DOMAIN R \ {old}) \union {name} /\ N[name] = R[old]
        /\ \A n \in DOMAIN R \ {old} : N[n] = R[n]
        /\ N = [n \in DOMAIN N |-> N[n]]
    BY <2>6 DEF RenamesTo
  <2>8. DOMAIN N = DOMAIN R1
    BY <1>1, <2>3, <2>4, <2>7
  <2>9. \A n \in DOMAIN R1 : N[n] = R1[n]
    <3> SUFFICES ASSUME NEW n \in DOMAIN R1 PROVE N[n] = R1[n]
      OBVIOUS
    <3>1. CASE n = "id"
      BY <2>3, <2>4, <2>7, <3>1
    <3>2. CASE n = name
      BY <1>1, <2>3, <2>4, <2>7, <3>2
    <3>3. CASE n # "id" /\ n # name
      <4>1. n \in DOMAIN M \ {old, "id"} /\ n \in DOMAIN R \ {old} /\ n \in DOMAIN M1 \ {"id"}
        BY <1>1, <2>3, <2>4, <3>3
      <4> QED
        BY <1>1, <2>3, <2>4, <2>7, <4>1
    <3> QED
      BY <3>1, <3>2, <3>3
  <2>10. N = R1
    BY <2>5, <2>7, <2>8, <2>9
  <2> QED
    BY <2>2, <2>10 DEF x, R, R1, N, M1
<1> QED
  BY <1>2, <1>3

LEMMA ColumnRenamed ==
  ASSUME NEW M, NEW T, NEW D, NEW T1, NEW M1, NEW D1, NEW old \in DOMAIN M, NEW name \in Names,
         old \in Names, name \notin DOMAIN M, IsModel(M), IsTable(T), Fits(T, M, D), M1 = Renamed(M, old, name),
         M[old].pk \/ \E n \in DOMAIN T.columns : T.columns[n].pk,
         RowsAltered(D1, D, M1, old, name, M[old]), RenamesColumn(T1, T, old, name)
  PROVE  IsTable(T1) /\ Fits(T1, M1, D1) /\ RenamesTo(T.columns, old, name, T1.columns) /\ name \notin DOMAIN T.columns
<1>1. old # "id" /\ name # "id" /\ name \in AllColumns
  BY RemakeAssumption DEF AllColumns
<1>2. T.columns = Rendered(M)
  <2>1. T.columns \in {M, Rendered(M)}
    BY DEF Fits
  <2>2. M[old].pk => Rendered(M) = M
    BY RenderedIs
  <2> QED
    BY <2>1, <2>2, KeyRenders
<1>3. \A n \in DOMAIN M : n \in DOMAIN T.columns /\ T.columns[n] = M[n]
  BY <1>2, RenderedKeeps
<1>4. name \notin DOMAIN T.columns
  BY <1>1, <1>2, RenderedKeeps
<1>5. T1.columns = Rendered(M1)
  <2>1. "id" \in DOMAIN M => M["id"].pk
    BY IdIs DEF IsModel
  <2>2. Rendered(Renamed(M, old, name)) = Renamed(Rendered(M), old, name)
    BY <1>1, <2>1, RenamedKey
  <2> QED
    BY <1>2, <2>2 DEF RenamesColumn
<1>6. RenamesTo(T.columns, old, name, T1.columns)
  BY <1>4, RenamedIs DEF RenamesColumn
<1>7. /\ DOMAIN T1.columns = (DOMAIN T.columns \ {old}) \union {name} /\ T1.columns[name] = T.columns[old]
      /\ \A n \in DOMAIN T.columns \ {old} : T1.columns[n] = T.columns[n]
      /\ T1.columns = [n \in DOMAIN T1.columns |-> T1.columns[n]]
  BY <1>6 DEF RenamesTo
<1>8. /\ DOMAIN M1 = (DOMAIN M \ {old}) \union {name} /\ M1[name] = M[old] /\ \A n \in DOMAIN M \ {old} : M1[n] = M[n]
  <2>1. RenamesTo(M, old, name, M1)
    BY RenamedIs
  <2> QED
    BY <2>1 DEF RenamesTo
<1>9. ASSUME NEW r \in DOMAIN T.rows
      PROVE  /\ DOMAIN T.rows[r] = DOMAIN T.columns
             /\ DOMAIN T1.rows[r] = DOMAIN T1.columns /\ T1.rows[r][name] = T.rows[r][old]
             /\ \A n \in DOMAIN T.columns \ {old} : T1.rows[r][n] = T.rows[r][n]
  <2>1. DOMAIN T.rows[r] = DOMAIN T.columns
    BY DEF IsTable
  <2>2. RenamesTo(T.rows[r], old, name, Renamed(T.rows[r], old, name))
    BY <1>4, <2>1, RenamedIs
  <2>3. T1.rows[r] = Renamed(T.rows[r], old, name)
    BY DEF RenamesColumn
  <2> QED
    BY <1>7, <2>1, <2>2, <2>3 DEF RenamesTo
<1>10. IsTable(T1)
  <2>1. T1.columns \in [DOMAIN T1.columns -> Field] /\ DOMAIN T1.columns \subseteq AllColumns
    <3>1. \A n \in DOMAIN T.columns : T.columns[n] \in Field /\ n \in AllColumns
      BY DEF IsTable
    <3>2. \A n \in DOMAIN T1.columns : T1.columns[n] \in Field /\ n \in AllColumns
      BY <1>1, <1>3, <1>7, <3>1
    <3> QED
      BY <1>7, <3>2
  <2>2. T1.indexes \subseteq DOMAIN T1.columns
    <3>1. T.indexes \subseteq DOMAIN T.columns /\ T1.indexes = {IF n = old THEN name ELSE n : n \in T.indexes}
      BY DEF IsTable, RenamesColumn
    <3> QED
      BY <1>7, <3>1
  <2>3. DOMAIN T1.rows \subseteq Rows /\ \A r \in DOMAIN T1.rows : DOMAIN T1.rows[r] = DOMAIN T1.columns
    BY <1>9 DEF IsTable, RenamesColumn
  <2>4. DOMAIN T1 = {"columns", "rows", "indexes"}
    BY DEF RenamesColumn
  <2> QED
    BY <2>1, <2>2, <2>3, <2>4 DEF IsTable
<1>11. HasRows(T1, M1, D1)
  <2>1. /\ DOMAIN T.rows = DOMAIN D
        /\ \A r \in DOMAIN D :
             /\ \A n \in DOMAIN M : T.rows[r][n] = D[r][n]
             /\ \A n \in DOMAIN T.columns : T.rows[r][n] = "null" => T.columns[n].null
    BY DEF Fits, HasRows
  <2>2. /\ DOMAIN D1 = DOMAIN D
        /\ \A r \in DOMAIN D : /\ DOMAIN D1[r] = DOMAIN M1
                               /\ \A n \in DOMAIN M1 \ {name} : D1[r][n] = D[r][n]
    BY DEF RowsAltered
  <2>3. \A r \in DOMAIN D : D1[r][name] = D[r][old]
    <3> SUFFICES ASSUME NEW r \in DOMAIN D PROVE D1[r][name] = D[r][old]
      OBVIOUS
    <3>1. D1[r][name] = IF D[r][old] # "null" \/ M[old].null THEN D[r][old] ELSE AnyDefault(M[old])
      BY DEF RowsAltered
    <3>2. D[r][old] = "null" => M[old].null
      BY NullsAllowed
    <3> QED
      BY <3>1, <3>2
  <2>4. ASSUME NEW r \in DOMAIN D1
        PROVE  /\ DOMAIN D1[r] = DOMAIN M1
               /\ DOMAIN T1.rows[r] = DOMAIN T1.columns
               /\ \A n \in DOMAIN M1 : n \in DOMAIN T1.columns /\ T1.rows[r][n] = D1[r][n]
               /\ \A n \in DOMAIN T1.columns : T1.rows[r][n] = "null" => T1.columns[n].null
    <3>1. r \in DOMAIN T.rows /\ r \in DOMAIN D
      BY <2>1, <2>2
    <3>2. \A n \in DOMAIN M1 : n \in DOMAIN T1.columns /\ T1.rows[r][n] = D1[r][n]
      BY <1>3, <1>7, <1>8, <1>9, <2>1, <2>2, <2>3, <3>1
    <3>3. \A n \in DOMAIN T1.columns : T1.rows[r][n] = "null" => T1.columns[n].null
      BY <1>3, <1>7, <1>9, <2>1, <3>1
    <3> QED
      BY <1>9, <2>2, <3>1, <3>2, <3>3
  <2>5. DOMAIN T1.rows = DOMAIN D1
    BY <2>1, <2>2 DEF RenamesColumn
  <2> QED
    BY <2>4, <2>5 DEF HasRows
<1> QED
  BY <1>4, <1>5, <1>6, <1>10, <1>11 DEF Fits

\* RENAME COLUMN, in a table that refers to the column.
Refers(T1, T, old, name) ==
  /\ DOMAIN T1 = {"columns", "rows", "indexes"} /\ T1.rows = T.rows /\ T1.indexes = T.indexes
  /\ DOMAIN T1.columns = DOMAIN T.columns /\ T1.columns = [n \in DOMAIN T1.columns |-> T1.columns[n]]
  /\ \A n \in DOMAIN T.columns :
       T1.columns[n] = [T.columns[n] EXCEPT !.to = IF T.columns[n].to = old THEN name ELSE T.columns[n].to]

LEMMA ReferenceRenamed ==
  ASSUME NEW M, NEW T, NEW D, NEW T1, NEW M1, NEW old \in Names, NEW name \in Names,
         IsModel(M), IsTable(T), Fits(T, M, D), {"id", "ref"} \subseteq DOMAIN M,
         Retargeted(M1, M, IF M["ref"].to = old THEN name ELSE M["ref"].to), Refers(T1, T, old, name)
  PROVE  IsTable(T1) /\ Fits(T1, M1, D) /\ SameColumns(T1, T)
<1>1. T.columns = M
  <2>1. M["id"].pk
    BY IdIs DEF IsModel
  <2>2. Rendered(M) = M
    BY <2>1 DEF Rendered
  <2> QED
    BY <2>2 DEF Fits
<1>2. ASSUME NEW n \in DOMAIN M
      PROVE  /\ T1.columns[n] \in Field /\ T1.columns[n].null = M[n].null
             /\ T1.columns[n].index = M[n].index /\ T1.columns[n].unique = M[n].unique
             /\ n # "ref" => T1.columns[n] = M[n]
             /\ T1.columns[n] = [M[n] EXCEPT !.to = IF M[n].to = old THEN name ELSE M[n].to]
  <2>1. M[n] \in Field /\ (n # "ref" => M[n].to = "none") /\ old # "none"
    BY RemakeAssumption DEF IsModel
  <2>2. T1.columns[n] = [M[n] EXCEPT !.to = IF M[n].to = old THEN name ELSE M[n].to]
    BY <1>1 DEF Refers
  <2> QED
    BY <2>1, <2>2 DEF Field
<1>3. DOMAIN T1.columns = DOMAIN M /\ T1.columns = [n \in DOMAIN T1.columns |-> T1.columns[n]]
  BY <1>1 DEF Refers
<1>4. T1.columns = M1
  <2>1. DOMAIN M1 = DOMAIN M /\ M1 = [n \in DOMAIN M1 |-> M1[n]]
    BY DEF Retargeted
  <2>2. ASSUME NEW n \in DOMAIN M PROVE M1[n] = T1.columns[n]
    <3>1. CASE n = "ref"
      <4>1. M1["ref"] = [M["ref"] EXCEPT !.to = IF M["ref"].to = old THEN name ELSE M["ref"].to]
        BY DEF Retargeted
      <4> QED
        BY <1>2, <3>1, <4>1
    <3>2. CASE n # "ref"
      <4>1. M1[n] = M[n]
        BY <3>2 DEF Retargeted
      <4> QED
        BY <1>2, <3>2, <4>1
    <3> QED
      BY <3>1, <3>2
  <2> QED
    BY <1>3, <2>1, <2>2
<1>5. IsTable(T1)
  <2>1. T1.columns \in [DOMAIN T1.columns -> Field]
    BY <1>2, <1>3
  <2> QED
    BY <1>1, <1>3, <2>1 DEF IsTable, Refers
<1>6. HasRows(T1, M1, D)
  <2>1. /\ DOMAIN T.rows = DOMAIN D
        /\ \A r \in DOMAIN D :
             /\ DOMAIN D[r] = DOMAIN M
             /\ DOMAIN T.rows[r] = DOMAIN M
             /\ \A n \in DOMAIN M : T.rows[r][n] = D[r][n]
             /\ \A n \in DOMAIN M : T.rows[r][n] = "null" => M[n].null
    BY <1>1 DEF Fits, HasRows
  <2>2. T1.rows = T.rows
    BY DEF Refers
  <2> QED
    BY <1>2, <1>3, <1>4, <2>1, <2>2 DEF HasRows
<1>7. SameColumns(T1, T)
  BY <1>1, <1>2 DEF SameColumns, Refers, IsIndexed
<1> QED
  BY <1>4, <1>5, <1>6, <1>7 DEF Fits

\* The remake of a table that refers to a column with a new name.
LEMMA FollowerCopies ==
  ASSUME NEW M, NEW T, NEW D, NEW M1, NEW to, NEW s, IsModel(M), IsModel(M1), Fits(T, M, D),
         {"id", "ref"} \subseteq DOMAIN M, Retargeted(M1, M, to), Changes(s, M1, {}, {}, {})
  PROVE  Copies(s, T, M1, D)
<1>1. DOMAIN M1 = DOMAIN M /\ M["id"].pk /\ M1["id"].pk
  BY IdIs DEF IsModel, Retargeted
<1>2. Rendered(M) = M /\ Rendered(M1) = M1
  BY <1>1 DEF Rendered
<1>3. T.columns = M
  BY <1>2 DEF Fits
<1>4. \A n \in DOMAIN M : M1[n].null = M[n].null
  <2>1. M1["ref"].null = M["ref"].null
    BY DEF Retargeted, IsModel, Field
  <2> QED
    BY <2>1 DEF Retargeted
<1>5. HasRows(T, M1, D)
  BY <1>1 DEF Fits, HasRows
<1> QED
  BY <1>1, <1>2, <1>3, <1>4, <1>5, UnchangedCopies DEF Changes

Alters(change, old, name, field) == change.altered = {[old |-> old, name |-> name, field |-> field]}

LEMMA TargetIs ==
  ASSUME NEW m, NEW change, NEW old, NEW name, NEW field, Alters(change, old, name, field)
  PROVE  Target(m, change) = IF models[m]["ref"].to = old THEN name ELSE models[m]["ref"].to
<1> USE DEF Alters
<1> DEFINE a == [old |-> old, name |-> name, field |-> field]
           to == models[m]["ref"].to
<1>1. a.old = old /\ a.name = name
  OBVIOUS
<1> HIDE DEF a, to
<1>2. CASE to = old
  <2>1. \E x \in change.altered : x.old = to
    BY <1>1, <1>2 DEF a
  <2>2. (CHOOSE x \in change.altered : x.old = to) = a
    BY <1>1, <1>2 DEF a
  <2> QED
    BY <1>1, <1>2, <2>1, <2>2 DEF Target, to
<1>3. CASE to # old
  <2>1. ~ \E x \in change.altered : x.old = to
    BY <1>1, <1>3 DEF a
  <2> QED
    BY <1>3, <2>1 DEF Target, to
<1> QED
  BY <1>2, <1>3 DEF to

LEMMA SourceIs ==
  ASSUME NEW change, NEW old, NEW name, NEW field, NEW n, Alters(change, old, name, field)
  PROVE  Source(change, n) = IF n = name THEN old ELSE n
<1> USE DEF Alters
<1> DEFINE a == [old |-> old, name |-> name, field |-> field]
<1>1. a.old = old /\ a.name = name
  OBVIOUS
<1> HIDE DEF a
<1>2. CASE n = name
  <2>1. \E x \in change.altered : x.name = n
    BY <1>1, <1>2 DEF a
  <2>2. (CHOOSE x \in change.altered : x.name = n) = a
    BY <1>1, <1>2 DEF a
  <2> QED
    BY <1>1, <1>2, <2>1, <2>2 DEF Source
<1>3. CASE n # name
  <2>1. ~ \E x \in change.altered : x.name = n
    BY <1>1, <1>3 DEF a
  <2> QED
    BY <1>3, <2>1 DEF Source
<1> QED
  BY <1>2, <1>3

\* The models that refer to the parent are one at most.
LEMMA OneRelated ==
  ASSUME AreModels(models), NEW S, S \subseteq DOMAIN models \ {"parent"}, S # {}
  PROVE  \E m \in DOMAIN models \ {"parent"} : S = {m} /\ DOMAIN models = {"parent", m}
<1>1. PICK m : m \in S
  OBVIOUS
<1>2. \A n \in DOMAIN models \ {"parent"} : n = m
  BY <1>1 DEF AreModels
<1>3. "parent" \in DOMAIN models
  BY <1>1 DEF AreModels
<1> QED
  BY <1>1, <1>2, <1>3

LEMMA Followed ==
  ASSUME NEW r, NEW S
  PROVE  /\ S = {} => <<r>> \o SetToSeq(S) = <<r>>
         /\ \A s : S = {s} => <<r>> \o SetToSeq(S) = <<r, s>>
<1>1. ASSUME S = {} PROVE <<r>> \o SetToSeq(S) = <<r>>
  <2>1. SetToSeq(S) = <<>>
    BY <1>1, SetToSeqSmall
  <2> QED
    BY <2>1, ShortSequences
<1>2. ASSUME NEW s, S = {s} PROVE <<r>> \o SetToSeq(S) = <<r, s>>
  <2>1. SetToSeq(S) = <<s>>
    BY <1>2, SetToSeqSmall
  <2> QED
    BY <2>1, ShortSequences
<1> QED
  BY <1>1, <1>2

LEMMA AlterFieldKeeps ==
  ASSUME RemakeInv, NEW old \in Names, NEW name \in Names, NEW field \in Declarable, AlterField(old, name, field)
  PROVE  RemakeInv'
<1> DEFINE M == models["parent"]
           T == tables["parent"]
           D == data["parent"]
           M1 == Without(M, old) ++ Only(name, field)
           D1 == data'["parent"]
           a == [old |-> old, name |-> name, field |-> field]
           change == [NoChange("parent") EXCEPT !.altered = {a}]
           followers == {[NoChange(m) EXCEPT !.fields = models'[m]] : m \in Related(a)}
           sql1 == [i \in DOMAIN deferred_sql |-> [deferred_sql[i] EXCEPT !.column =
                      IF deferred_sql[i].table = "parent" /\ @ = old THEN name ELSE @]]
<1>1. /\ Operate /\ "parent" \in DOMAIN models /\ old \in DOMAIN M
      /\ old # name => name \notin DOMAIN M
      /\ MayBecome(M1, change) /\ Becomes(M1, change)
      /\ \/ old # name /\ field = M[old] /\ RenameColumn(old, name) /\ deferred_sql' = sql1 /\ AtOnce
         \/ Remakes(<<change>> \o SetToSeq(followers))
  BY DEF AlterField, References
<1> PICK r : r = change
  OBVIOUS
<1>2. /\ r.table = "parent" /\ r.target = Replacement("parent") /\ r.fields = M
      /\ r.created = {} /\ r.deleted = {} /\ r.altered = {a}
  BY DEF NoChange
<1>3. /\ MayBecome(M1, r) /\ Becomes(M1, r)
      /\ Remakes(<<change>> \o SetToSeq(followers)) => Remakes(<<r>> \o SetToSeq(followers))
  BY <1>1
<1>4. /\ AreModels(models) /\ IsModel(M) /\ DOMAIN M \subseteq Names \union {"id"} /\ Fits(T, M, D) /\ IsTable(T)
      /\ DOMAIN data = DOMAIN models /\ DOMAIN tables = DOMAIN models
      /\ \A row \in DOMAIN D : DOMAIN D[row] = DOMAIN M
      /\ \A m \in DOMAIN models : IsTable(tables[m]) /\ Fits(tables[m], models[m], data[m])
      /\ Indexed(tables, deferred_sql)
  BY <1>1, TheParent
<1>5. /\ field \in Field /\ ~field.auto /\ field.to = "none" /\ (field.pk => field.unique /\ ~field.null)
  BY RemakeAssumption
<1>6. OneKey(M1)
  BY <1>3 DEF MayBecome, OneKey
<1>7. KeepsKey(r, T)
  BY <1>3 DEF MayBecome, HasKey, KeepsKey
<1>0. M1 = Without(M, old) ++ Only(name, field)
  OBVIOUS
<1> HIDE DEF M1, change
<1>17. Alters(r, old, name, field)
  BY <1>2 DEF Alters
<1>18. name \notin DOMAIN M \ {old}
  BY <1>1
<1>8. /\ IsModel(M1) /\ DOMAIN M1 = (DOMAIN M \ {old}) \union {name} /\ M1[name] = field
      /\ \A n \in DOMAIN M \ {old} : M1[n] = M[n]
  <2>1. IsModel(M)
    BY <1>4
  <2> HIDE DEF M, T, D, D1
  <2> QED
    BY <1>0, <1>5, <1>6, <1>18, <2>1, Altered DEF OneKey
<1>9. DOMAIN M1 \subseteq Names \union {"id"}
  BY <1>4, <1>8
<1>10. \A n : Source(r, n) = IF n = name THEN old ELSE n
  BY <1>17, SourceIs
<1>11. /\ DOMAIN D1 = DOMAIN D
       /\ \A row \in DOMAIN D :
            /\ DOMAIN D1[row] = DOMAIN M1
            /\ \A n \in DOMAIN M1 :
                 D1[row][n] = IF Source(r, n) \in DOMAIN D[row] /\ (D[row][Source(r, n)] # "null" \/ M1[n].null)
                              THEN D[row][Source(r, n)] ELSE AnyDefault(M1[n])
  BY <1>1, <1>3, <1>4, BecomesRows
<1>12. \A row \in DOMAIN D : \A n \in DOMAIN M : D[row][n] = "null" => M[n].null
  BY <1>4, NullsAllowed
<1>13. /\ models'["parent"] = M1 /\ AreModels(models') /\ DOMAIN models' = DOMAIN models /\ DOMAIN data' = DOMAIN models
       /\ \A m \in DOMAIN models \ {"parent"} :
            /\ data'[m] = data[m] /\ "ref" \in DOMAIN models[m] /\ IsModel(models[m]) /\ IsModel(models'[m])
            /\ {"id", "ref"} \subseteq DOMAIN models[m]
            /\ Retargeted(models'[m], models[m], IF models[m]["ref"].to = old THEN name ELSE models[m]["ref"].to)
  <2>1. /\ models'["parent"] = M1 /\ AreModels(models') /\ DOMAIN models' = DOMAIN models /\ DOMAIN data' = DOMAIN models
        /\ \A m \in DOMAIN models \ {"parent"} : data'[m] = data[m] /\ Retargeted(models'[m], models[m], Target(m, r))
    BY <1>1, <1>3, <1>4, <1>8, <1>9, BecomesModels
  <2>2. \A m : Target(m, r) = IF models[m]["ref"].to = old THEN name ELSE models[m]["ref"].to
    BY <1>17, TargetIs
  <2>3. \A m \in DOMAIN models \ {"parent"} : IsModel(models[m]) /\ IsModel(models'[m]) /\ {"id", "ref"} \subseteq DOMAIN models[m]
    BY <1>4, <2>1 DEF AreModels
  <2> QED
    BY <2>1, <2>2, <2>3
<1> HIDE DEF M, T, D, D1
<1>14. RowsAltered(D1, D, M1, old, name, field)
  <2>1. ASSUME NEW row \in DOMAIN D
        PROVE  /\ DOMAIN D1[row] = DOMAIN M1
               /\ \A n \in DOMAIN M1 \ {name} : D1[row][n] = D[row][n]
               /\ D1[row][name] = IF D[row][old] # "null" \/ field.null THEN D[row][old] ELSE AnyDefault(field)
    <3>1. DOMAIN D[row] = DOMAIN M /\ DOMAIN D1[row] = DOMAIN M1 /\ \A n \in DOMAIN M : D[row][n] = "null" => M[n].null
      BY <1>4, <1>11, <1>12
    <3>2. ASSUME NEW n \in DOMAIN M1 \ {name} PROVE D1[row][n] = D[row][n]
      <4>1. n \in DOMAIN M /\ M1[n] = M[n] /\ Source(r, n) = n
        BY <1>8, <1>10, <3>2
      <4> QED
        BY <1>11, <3>1, <4>1
    <3>3. D1[row][name] = IF D[row][old] # "null" \/ field.null THEN D[row][old] ELSE AnyDefault(field)
      <4>1. Source(r, name) = old /\ M1[name] = field /\ name \in DOMAIN M1 /\ old \in DOMAIN D[row]
        BY <1>1, <1>8, <1>10, <3>1
      <4> QED
        BY <1>11, <4>1
    <3> QED
      BY <3>1, <3>2, <3>3
  <2> QED
    BY <1>11, <2>1 DEF RowsAltered
<1>15. CASE Remakes(<<r>> \o SetToSeq(followers))
  <2>1. Changes(r, M, {}, {}, {a})
    BY <1>2 DEF Changes
  <2>2. Copies(r, T, M1, D1)
    BY <1>0, <1>1, <1>4, <1>5, <1>6, <1>7, <1>14, <1>18, <2>1, AlterCopies
  <2>3. step' = "create" /\ UNCHANGED <<tables, deferred_sql>> /\ remakes' = <<r>> \o SetToSeq(followers)
    BY <1>15 DEF Remakes
  <2>4. Related(a) \subseteq DOMAIN models \ {"parent"}
    BY <1>13 DEF Related, Referring
  <2>5. CASE Related(a) = {}
    <3>1. remakes' = <<r>>
      <4>1. followers = {}
        BY <2>5
      <4> HIDE DEF followers
      <4> QED
        BY <2>3, <4>1, Followed, Zenon
    <3>2. ASSUME NEW m \in DOMAIN models \ {"parent"} PROVE models'[m] = models[m]
      <4> DEFINE to == models[m]["ref"].to
      <4>1. to \in Names \union {"id"}
        BY <1>4, <1>1 DEF AreModels, M
      <4>2. CASE to = old /\ name # old
        <5>1. Target(m, r) = name
          BY <1>17, <4>2, TargetIs
        <5>2. field.unique /\ (m \in Throughs => field.pk)
          <6>1. m \in Referring(models)
            BY DEF Referring
          <6> QED
            BY <1>3, <1>8, <5>1, <6>1 DEF MayBecome
        <5>3. models'[m]["ref"].to = name
          BY <1>13, <4>2, RetargetedModel
        <5>4. m \in Related(a)
          <6>1. a.field = field /\ a.name = name /\ a.old = old /\ m \in Referring(models')
            BY <1>13 DEF Referring
          <6> HIDE DEF a
          <6> QED
            BY <4>2, <5>2, <5>3, <6>1 DEF Related
        <5> QED
          BY <2>5, <5>4
      <4>3. CASE ~ (to = old /\ name # old)
        <5>1. Retargeted(models'[m], models[m], to) /\ IsModel(models[m]) /\ "ref" \in DOMAIN models[m]
          BY <1>13, <4>3
        <5> QED
          BY <4>1, <5>1, RetargetedModel
      <4> QED
        BY <4>2, <4>3
    <3> HIDE DEF a, followers
    <3> QED
      BY <1>1, <1>2, <1>3, <1>8, <1>9, <2>2, <2>3, <3>1, <3>2, ParentRemade DEF T, D1
  <2>6. CASE Related(a) # {}
    <3>1. PICK m \in DOMAIN models \ {"parent"} : Related(a) = {m}
      BY <1>4, <2>4, <2>6, OneRelated
    <3> PICK s : s = [NoChange(m) EXCEPT !.fields = models'[m]]
      OBVIOUS
    <3>2. /\ s.table = m /\ s.target = Replacement(m) /\ s.fields = models'[m]
          /\ s.created = {} /\ s.deleted = {} /\ s.altered = {}
      BY DEF NoChange
    <3>3. followers = {s}
      BY <3>1
    <3>4. remakes' = <<r, s>>
      <4> HIDE DEF followers, a
      <4> QED
        BY <2>3, <3>3, Followed, Zenon
    <3>5. Waiting(s)'
      <4>1. Changes(s, models'[m], {}, {}, {})
        BY <3>2 DEF Changes
      <4>2. Copies(s, tables[m], models'[m], data[m])
        BY <1>4, <1>13, <4>1, FollowerCopies
      <4>3. HoldsIn(tables[m], data[m])
        BY <1>4, FitHolds
      <4>4. data'[m] = data[m] /\ tables' = tables /\ DOMAIN models' = DOMAIN models
        BY <1>13, <2>3
      <4> QED
        BY <3>2, <4>2, <4>3, <4>4 DEF Waiting
    <3> HIDE DEF a, followers
    <3> QED
      BY <1>1, <1>2, <1>3, <1>8, <1>9, <2>2, <2>3, <3>4, <3>5, ParentRemade DEF T, D1
  <2> QED
    BY <2>5, <2>6
<1>16. CASE old # name /\ field = M[old] /\ RenameColumn(old, name) /\ deferred_sql' = sql1 /\ AtOnce
  <2> DEFINE T1 == tables'["parent"]
  <2>1. /\ DOMAIN tables' = DOMAIN tables
        /\ RenamesColumn(T1, T, old, name)
        /\ \A m \in DOMAIN models \ {"parent"} : Refers(tables'[m], tables[m], old, name)
    <3>1. DOMAIN tables' = DOMAIN tables
      BY <1>16 DEF RenameColumn
    <3>2. tables'["parent"] = [columns |-> Renamed(T.columns, old, name),
                               rows    |-> [x \in DOMAIN T.rows |-> Renamed(T.rows[x], old, name)],
                               indexes |-> {IF n = old THEN name ELSE n : n \in T.indexes}]
      BY <1>1, <1>4, <1>16 DEF RenameColumn, T
    <3>3. RenamesColumn(T1, T, old, name)
      BY <3>2 DEF RenamesColumn
    <3>4. ASSUME NEW m \in DOMAIN models \ {"parent"} PROVE Refers(tables'[m], tables[m], old, name)
      <4>1. tables'[m] = [columns |-> [n \in DOMAIN tables[m].columns |->
                                         [tables[m].columns[n] EXCEPT !.to = IF @ = old THEN name ELSE @]],
                          rows    |-> tables[m].rows,
                          indexes |-> tables[m].indexes]
        BY <1>4, <1>16 DEF RenameColumn
      <4> QED
        BY <4>1 DEF Refers
    <3> QED
      BY <3>1, <3>3, <3>4
  <2>2. M1 = Renamed(M, old, name)
    BY <1>0, <1>16 DEF Renamed
  <2>3. M[old].pk \/ \E n \in DOMAIN T.columns : T.columns[n].pk
    <3>1. GivesKey(r) => field.pk
      BY <1>2 DEF GivesKey
    <3> QED
      BY <1>7, <1>16, <3>1 DEF KeepsKey
  <2>4. IsTable(T1) /\ Fits(T1, M1, D1) /\ RenamesTo(T.columns, old, name, T1.columns) /\ name \notin DOMAIN T.columns
    <3> HIDE DEF T1
    <3> QED
      BY <1>1, <1>4, <1>14, <1>16, <2>1, <2>2, <2>3, ColumnRenamed
  <2>5. ASSUME NEW m \in DOMAIN models \ {"parent"}
        PROVE  IsTable(tables'[m]) /\ Fits(tables'[m], models'[m], data'[m]) /\ SameColumns(tables'[m], tables[m])
    BY <1>4, <1>13, <2>1, ReferenceRenamed
  <2>6. \A m \in DOMAIN models : IsTable(tables'[m]) /\ Fits(tables'[m], models'[m], data'[m])
    BY <1>13, <2>4, <2>5 DEF D1
  <2>7. Indexed(tables', deferred_sql')
    <3>1. ColumnRenamedIn(tables', tables, "parent", old, name)
      BY <1>4, <2>1, <2>4, <2>5 DEF ColumnRenamedIn, RenamesColumn, T
    <3>2. old \in DOMAIN tables["parent"].columns /\ name \in AllColumns /\ name \notin DOMAIN tables["parent"].columns
      BY <1>1, <1>4, <2>4, RenderedKeeps DEF Fits, T, M, AllColumns
    <3>3. tables["parent"].indexes \subseteq DOMAIN tables["parent"].columns /\ "parent" \in DOMAIN tables
      BY <1>1, <1>4 DEF IsTable, T
    <3>4. Indexed(tables, deferred_sql)
      BY <1>4
    <3> QED
      BY <1>16, <3>1, <3>2, <3>3, <3>4, IndexedColumnRenamed
  <2> HIDE DEF a, followers, sql1
  <2> QED
    BY <1>1, <1>3, <1>8, <1>9, <1>16, <2>1, <2>6, <2>7, ParentAtOnce
<1> QED
  BY <1>1, <1>3, <1>15, <1>16 DEF M
--------------------------------------------------------------------------------
(* The other operations.                                                       *)

Puts(g, f, old, new, y) ==
  /\ DOMAIN g = (DOMAIN f \ {old}) \union {new} /\ g[new] = y
  /\ \A x \in DOMAIN f \ {old} : g[x] = f[x]

LEMMA PutsIs ==
  ASSUME NEW f, NEW old, NEW new, NEW y, new \notin DOMAIN f \ {old}
  PROVE  Puts(Without(f, old) ++ Only(new, y), f, old, new, y)
<1> DEFINE N == Without(f, old)
<1>1. DOMAIN N = DOMAIN f \ {old} /\ \A x \in DOMAIN N : N[x] = f[x]
  BY DEF Without
<1> HIDE DEF N
<1>2. Puts(N ++ Only(new, y), f, old, new, y)
  BY <1>1 DEF Puts, ++, Only
<1> QED
  BY <1>2 DEF N

LEMMA AlterManyToManyKeeps ==
  ASSUME RemakeInv, NEW old \in Throughs, NEW new \in Throughs, NEW peer \in Peers, NEW new_peer \in Peers,
         AlterManyToMany(old, new, peer, new_peer)
  PROVE  RemakeInv'
<1> DEFINE M == models[old]
           T == tables[old]
           D == data[old]
           M1 == Renamed(M, peer, new_peer)
           D1 == [row \in DOMAIN D |-> Renamed(D[row], peer, new_peer)]
           altered == {[old |-> "ref", name |-> "ref", field |-> M["ref"]],
                       [old |-> peer, name |-> new_peer, field |-> M[peer]]}
           change == [NoChange(old) EXCEPT !.altered = altered,
                                           !.target = IF old = new THEN Replacement(old) ELSE new]
<1>1. /\ Operate /\ old \in DOMAIN models /\ peer \in DOMAIN M
      /\ models' = Without(models, old) ++ Only(new, M1)
      /\ data' = Without(data, old) ++ Only(new, D1)
      /\ before' = Without(data, old) ++ Only(new, D)
      /\ remakes' = <<change>> /\ step' = "create" /\ UNCHANGED <<tables, deferred_sql, refused>>
  BY DEF AlterManyToMany, Remakes
<1> PICK r : r = change
  OBVIOUS
<1>2. /\ r.table = old /\ r.target = (IF old = new THEN Replacement(old) ELSE new) /\ r.fields = M
      /\ r.created = {} /\ r.deleted = {} /\ r.altered = altered /\ remakes' = <<r>>
  BY <1>1 DEF NoChange
<1>3. Calm(tables, models, data) /\ Shape
  BY <1>1, IsCalm DEF Operate
<1>4. /\ AreModels(models) /\ DOMAIN data = DOMAIN models /\ DOMAIN tables = DOMAIN models
      /\ \A m \in DOMAIN models : Fits(tables[m], models[m], data[m])
  BY <1>3 DEF Calm, Shape
<1>5. /\ old # "parent" /\ new # "parent" /\ old \in Tables /\ new \in Tables /\ old # "child" /\ new # "child"
  BY DEF Throughs, Tables
<1>6. DOMAIN models = {"parent", old} /\ IsModel(M) /\ Fits(T, M, D)
  <2>1. DOMAIN models \subseteq {"parent", old}
    <3>1. \A m, n \in DOMAIN models \ {"parent"} : m = n
      BY <1>4 DEF AreModels
    <3> QED
      BY <1>1, <1>5, <3>1
  <2>2. "parent" \in DOMAIN models /\ IsModel(M)
    BY <1>1, <1>4 DEF AreModels
  <2> QED
    BY <1>1, <1>4, <2>1, <2>2
<1>7. DOMAIN M = {"id", "ref", peer}
  <2>1. PICK p \in Peers : DOMAIN M = {"id", "ref", p}
    BY <1>1, <1>4, <1>5 DEF AreModels
  <2>2. peer \notin {"id", "ref"}
    BY DEF Peers
  <2> QED
    BY <1>1, <2>1, <2>2
<1>0. M1 = Renamed(M, peer, new_peer) /\ D1 = [row \in DOMAIN D |-> Renamed(D[row], peer, new_peer)]
  OBVIOUS
<1> HIDE DEF M1, D1, change, M, T, D
<1>8. /\ DOMAIN models' = {"parent", new} /\ models'[new] = M1 /\ models'["parent"] = models["parent"]
      /\ DOMAIN data' = {"parent", new} /\ data'[new] = D1 /\ data'["parent"] = data["parent"]
      /\ DOMAIN before' = {"parent", new} /\ before'[new] = D
  <2>1. new \notin DOMAIN models \ {old} /\ new \notin DOMAIN data \ {old}
    BY <1>4, <1>5, <1>6
  <2>2. Puts(models', models, old, new, M1)
    BY <1>1, <2>1, PutsIs
  <2>3. Puts(data', data, old, new, D1)
    BY <1>1, <2>1, PutsIs
  <2>4. Puts(before', data, old, new, D)
    BY <1>1, <2>1, PutsIs
  <2> QED
    BY <1>4, <1>5, <1>6, <2>2, <2>3, <2>4 DEF Puts
<1>9. Copies(r, T, M1, D1) /\ IsModel(M1) /\ DOMAIN M1 = {"id", "ref", new_peer} /\ M1["ref"] = M["ref"]
  <2>1. MovesRows(r, D1, D, M1, M, peer, new_peer)
    BY <1>0, <1>2, <1>7 DEF MovesRows
  <2> HIDE DEF altered
  <2> QED
    BY <1>6, <2>1, MoveCopies
<1>10. Model(r) = new /\ (Moves(r) => old # new) /\ (~Moves(r) => old = new)
  BY <1>2, <1>5, ReplacementIs DEF Model, Moves
<1>11. AreModels(models')
  <2>1. /\ "parent" \in DOMAIN models /\ IsModel(models["parent"]) /\ DOMAIN models["parent"] \subseteq Names \union {"id"}
        /\ M["ref"].to \in DOMAIN models["parent"] /\ models["parent"][M["ref"].to].unique
    BY <1>4, <1>5, <1>6 DEF AreModels, M
  <2>2. "parent" \in Tables
    BY DEF Tables
  <2> QED
    BY <1>5, <1>8, <1>9, <2>1, <2>2 DEF AreModels
<1>12. Making(r)'
  <2>1. DOMAIN tables = (DOMAIN models' \ {new}) \union {old}
    BY <1>4, <1>5, <1>6, <1>8
  <2>2. HoldsIn(T, D)
    BY <1>6, FitHolds
  <2>3. tables' = tables /\ step' = "create"
    BY <1>1
  <2>4. \/ Moves(r) /\ r.table \in Throughs /\ r.target \in Throughs \ {r.table}
        \/ r.target = Replacement(r.table)
    BY <1>2, <1>10
  <2> QED
    BY <1>2, <1>5, <1>8, <1>9, <1>10, <2>1, <2>2, <2>3, <2>4 DEF Making, T
<1>13. RemakesOK'
  <2>1. Rest({Model(r)})'
    BY <1>1, <1>4, <1>6, <1>8, <1>10 DEF Rest
  <2> QED
    BY <1>2, <1>12, <2>1 DEF RemakesOK
<1> QED
  BY <1>1, <1>2, <1>8, <1>11, <1>13, StartsRemake

LEMMA ChangeConstraintKeeps ==
  ASSUME RemakeInv, NEW name \in Tables, ChangeConstraint(name)
  PROVE  RemakeInv'
<1>1. /\ Operate /\ name \in DOMAIN models /\ HasKey(name) /\ remakes' = <<NoChange(name)>> /\ step' = "create"
      /\ UNCHANGED <<tables, deferred_sql, models, data, refused>> /\ before' = data
  BY DEF ChangeConstraint, Remakes
<1> PICK r : r = NoChange(name)
  OBVIOUS
<1>2. /\ r.table = name /\ r.target = Replacement(name) /\ r.fields = models[name]
      /\ r.created = {} /\ r.deleted = {} /\ r.altered = {} /\ remakes' = <<r>>
  BY <1>1 DEF NoChange
<1>3. Calm(tables, models, data) /\ Shape
  BY <1>1, IsCalm DEF Operate
<1>4. /\ AreModels(models) /\ DOMAIN data = DOMAIN models /\ DOMAIN tables = DOMAIN models
      /\ \A m \in DOMAIN models : Fits(tables[m], models[m], data[m]) /\ IsModel(models[m])
  BY <1>3 DEF Calm, Shape, AreModels
<1> DEFINE M == models[name]
           T == tables[name]
           D == data[name]
<1>5. IsModel(M) /\ Fits(T, M, D) /\ \E n \in DOMAIN T.columns : T.columns[n].pk
  BY <1>1, <1>4 DEF HasKey
<1>6. r.fields = M
  BY <1>2
<1> HIDE DEF M, T, D
<1>7. T.columns = Rendered(M) /\ HasRows(T, M, D)
  BY <1>5, KeyRenders DEF Fits
<1>8. Copies(r, T, M, D)
  BY <1>2, <1>5, <1>6, <1>7, UnchangedCopies
<1>9. HoldsIn(T, D)
  BY <1>5, FitHolds
<1>10. ~Moves(r) /\ Model(r) = name
  BY <1>2, ReplacementIs DEF Moves, Model
<1>11. Making(r)'
  <2>1. DOMAIN tables = (DOMAIN models \ {name}) \union {name}
    BY <1>1, <1>4
  <2> QED
    BY <1>1, <1>2, <1>8, <1>9, <1>10, <2>1 DEF Making, M, T, D
<1>12. RemakesOK'
  <2>1. Rest({Model(r)})'
    BY <1>1, <1>4 DEF Rest
  <2> QED
    BY <1>2, <1>11, <2>1 DEF RemakesOK
<1> QED
  BY <1>1, <1>2, <1>4, <1>12, StartsRemake

\* What Django makes of a relation to a field.
LEMMA RelationFields ==
  ASSUME NEW to \in Names \union {"id", "none"}
  PROVE  /\ Reference(to) \in Field /\ ~Reference(to).pk /\ ~Reference(to).auto /\ Reference(to).to = to
         /\ Member(to) \in Field /\ ~Member(to).pk /\ ~Member(to).auto /\ Member(to).to = to
<1>1. Reference(to) \in Field /\ ~Reference(to).pk /\ ~Reference(to).auto /\ Reference(to).to = to
  BY DEF Reference, Field
<1> DEFINE x == Reference(to)
<1>2. Member(to) = [x EXCEPT !.null = FALSE]
  BY DEF Member
<1> HIDE DEF x
<1>3. Member(to) \in Field /\ ~Member(to).pk /\ ~Member(to).auto /\ Member(to).to = to
  BY <1>1, <1>2 DEF Field, x
<1> QED
  BY <1>1, <1>3

LEMMA CreateParentKeeps ==
  ASSUME RemakeInv, NEW a \in Names, NEW field \in Declarable, CreateParent(a, field)
  PROVE  RemakeInv'
<1> DEFINE fields == Only(a, field) ++ (IF field.pk THEN << >> ELSE Only("id", Id))
<1>1. CreateModel("parent", fields) /\ "parent" \in Tables
  BY DEF CreateParent, Tables
<1>2. /\ field \in Field /\ ~field.auto /\ field.to = "none" /\ (field.pk => field.unique /\ ~field.null)
      /\ a # "id" /\ a \in AllColumns /\ "id" \in AllColumns
  BY RemakeAssumption DEF AllColumns
<1>3. /\ DOMAIN fields = {a} \union (IF field.pk THEN {} ELSE {"id"}) /\ fields[a] = field
      /\ ~field.pk => fields["id"] = Id
      /\ fields = [n \in DOMAIN fields |-> fields[n]]
  <2> DEFINE x == Id
             g == IF field.pk THEN << >> ELSE Only("id", x)
  <2>1. g = IF field.pk THEN << >> ELSE Only("id", x)
    OBVIOUS
  <2>2. field.pk => DOMAIN g = {}
    OBVIOUS
  <2> HIDE DEF x, g
  <2>3. ~field.pk => DOMAIN g = {"id"} /\ g["id"] = x
    BY <2>1 DEF Only
  <2>4. fields = Only(a, field) ++ g
    BY DEF g, x
  <2> HIDE DEF fields
  <2>5. /\ DOMAIN fields = {a} \union DOMAIN g /\ fields[a] = field
        /\ \A n \in DOMAIN g \ {a} : fields[n] = g[n]
        /\ fields = [n \in DOMAIN fields |-> fields[n]]
    BY <2>4 DEF ++, Only
  <2> QED
    BY <1>2, <2>2, <2>3, <2>5 DEF x
<1> HIDE DEF fields
<1>4. IsModel(fields)
  <2>1. \A n \in DOMAIN fields : /\ n \in AllColumns /\ fields[n] \in Field
                                 /\ fields[n].pk => fields[n].unique /\ ~fields[n].null
                                 /\ fields[n].auto => n = "id"
                                 /\ n # "ref" => fields[n].to = "none"
    BY <1>2, <1>3, IdIs
  <2>2. \A n, m \in DOMAIN fields : fields[n].pk /\ fields[m].pk => n = m
    BY <1>2, <1>3
  <2>3. "id" \in DOMAIN fields => fields["id"] = Id
    BY <1>2, <1>3
  <2> QED
    BY <1>3, <2>1, <2>2, <2>3 DEF IsModel
<1>5. AreModels(models')
  <2>1. AreModels(models) /\ "parent" \notin DOMAIN models
    BY <1>1, IsCalm DEF CreateModel, Operate, Shape
  <2>2. DOMAIN models = {}
    BY <2>1 DEF AreModels
  <2>3. models' = models ++ Only("parent", fields)
    BY <1>1 DEF CreateModel
  <2>4. DOMAIN models' = {"parent"} /\ models'["parent"] = fields
    BY <2>2, <2>3 DEF ++, Only
  <2>5. DOMAIN fields \subseteq Names \union {"id"}
    BY <1>3
  <2> QED
    BY <1>1, <1>4, <2>4, <2>5 DEF AreModels
<1> QED
  BY <1>1, <1>4, <1>5, CreateModelKeeps

\* A model that refers to the parent is created.
LEMMA CreateRelationKeeps ==
  ASSUME RemakeInv, DOMAIN models = {"parent"}, NEW name \in Tables \ {"parent"},
         NEW to \in DOMAIN models["parent"], models["parent"][to].unique, NEW fields, CreateModel(name, fields),
         NEW ref \in {Reference(to), Member(to)},
         fields = [n \in DOMAIN fields |-> fields[n]], fields["id"] = Id, fields["ref"] = ref,
         \/ name = "child" /\ DOMAIN fields = {"id", "ref"}
         \/ name \in Throughs /\ DOMAIN fields = {"id", "ref", "peer"} /\ fields["peer"] = Member("none")
  PROVE  RemakeInv'
<1>1. AreModels(models)
  BY IsCalm DEF CreateModel, Operate, Shape
<1>2. to \in Names \union {"id"}
  BY <1>1 DEF AreModels
<1>3. ref \in Field /\ ~ref.pk /\ ~ref.auto /\ ref.to = to
  BY <1>2, RelationFields
<1>4. Member("none") \in Field /\ ~Member("none").pk /\ ~Member("none").auto /\ Member("none").to = "none"
  BY RelationFields
<1>5. {"id", "ref", "peer"} \subseteq AllColumns /\ "peer" \in Peers /\ "child" \notin Throughs
  BY DEF AllColumns, Peers, Throughs
<1>6. IsModel(fields)
  <2>1. \A n \in DOMAIN fields : /\ n \in AllColumns /\ fields[n] \in Field
                                 /\ fields[n].pk => n = "id" /\ fields[n].unique /\ ~fields[n].null
                                 /\ fields[n].auto => n = "id"
                                 /\ n # "ref" => fields[n].to = "none"
    BY <1>3, <1>4, <1>5, IdIs
  <2> QED
    BY <2>1 DEF IsModel
<1>7. AreModels(models')
  <2>1. models' = models ++ Only(name, fields)
    BY DEF CreateModel
  <2>2. /\ DOMAIN models' = {"parent", name} /\ models'["parent"] = models["parent"] /\ models'[name] = fields
    BY <2>1 DEF ++, Only
  <2>3. IsModel(models["parent"]) /\ DOMAIN models["parent"] \subseteq Names \union {"id"} /\ "parent" \in Tables
    BY <1>1 DEF AreModels
  <2>4. name = "child" => DOMAIN fields = {"id", "ref"}
    BY <1>5
  <2>5. name \in Throughs => \E peer \in Peers : DOMAIN fields = {"id", "ref", peer}
    BY <1>5
  <2> QED
    BY <1>3, <1>6, <2>2, <2>3, <2>4, <2>5 DEF AreModels
<1> QED
  BY <1>6, <1>7, CreateModelKeeps

LEMMA CreateChildKeeps ==
  ASSUME RemakeInv, CreateChild
  PROVE  RemakeInv'
<1> DEFINE fields(n) == Only("id", Id) ++ Only("ref", Reference(n))
<1>1. DOMAIN models = {"parent"} /\ "child" \in Tables \ {"parent"}
  BY DEF CreateChild, Tables
<1>2. PICK n \in DOMAIN models["parent"] : models["parent"][n].unique /\ CreateModel("child", fields(n))
  BY DEF CreateChild
<1> DEFINE x == Id
           y == Reference(n)
<1> PICK f : f = fields(n)
  OBVIOUS
<1>3. f = Only("id", x) ++ Only("ref", y)
  OBVIOUS
<1>4. CreateModel("child", f)
  BY <1>2
<1> HIDE DEF x, y, fields
<1>5. DOMAIN f = {"id", "ref"} /\ f["id"] = x /\ f["ref"] = y /\ f = [k \in DOMAIN f |-> f[k]]
  BY <1>3 DEF ++, Only
<1> QED
  BY <1>1, <1>2, <1>4, <1>5, CreateRelationKeeps DEF x, y

LEMMA AddManyToManyKeeps ==
  ASSUME RemakeInv, AddManyToMany
  PROVE  RemakeInv'
<1> DEFINE fields(n) == Only("id", Id) ++ Only("ref", Member(n)) ++ Only("peer", Member("none"))
<1>1. DOMAIN models = {"parent"} /\ "links" \in Tables \ {"parent"} /\ "links" \in Throughs
  BY DEF AddManyToMany, Tables, Throughs
<1>2. PICK n \in DOMAIN models["parent"] : models["parent"][n].pk /\ CreateModel("links", fields(n))
  BY DEF AddManyToMany
<1>3. models["parent"][n].unique
  <2>1. AreModels(models)
    BY <1>2, IsCalm DEF CreateModel, Operate, Shape
  <2>2. IsModel(models["parent"])
    BY <1>1, <2>1 DEF AreModels
  <2> QED
    BY <1>2, <2>2 DEF IsModel
<1> DEFINE x == Id
           y == Member(n)
           z == Member("none")
<1> PICK f : f = fields(n)
  OBVIOUS
<1>4. f = (Only("id", x) ++ Only("ref", y)) ++ Only("peer", z)
  OBVIOUS
<1>5. CreateModel("links", f)
  BY <1>2
<1> HIDE DEF x, y, z, fields
<1>6. /\ DOMAIN f = {"id", "ref", "peer"} /\ f["id"] = x /\ f["ref"] = y /\ f["peer"] = z
      /\ f = [k \in DOMAIN f |-> f[k]]
  BY <1>4 DEF ++, Only
<1> QED
  BY <1>1, <1>2, <1>3, <1>5, <1>6, CreateRelationKeeps DEF x, y, z
--------------------------------------------------------------------------------
(* The theorems.                                                               *)

LEMMA StutterKeeps ==
  ASSUME RemakeInv, UNCHANGED vars
  PROVE  RemakeInv'
<1>1. /\ tables' = tables /\ models' = models /\ data' = data /\ before' = before /\ step' = step
      /\ remakes' = remakes /\ deferred_sql' = deferred_sql /\ snapshot' = snapshot
      /\ atomic_migration' = atomic_migration /\ operations' = operations /\ refused' = refused
  BY DEF vars, database, migration, editor
<1>2. Shape' <=> Shape
  BY <1>1 DEF Shape, Remaking
<1>3. ASSUME NEW r PROVE (Making(r)' <=> Making(r)) /\ (Waiting(r)' <=> Waiting(r)) /\ (Rest({Model(r)})' <=> Rest({Model(r)}))
  <2>1. Making(r)' <=> Making(r)
    BY <1>1 DEF Making
  <2>2. (Waiting(r)' <=> Waiting(r)) /\ (Rest({Model(r)})' <=> Rest({Model(r)}))
    BY <1>1 DEF Waiting, Rest
  <2> QED
    BY <2>1, <2>2
<1>4. RemakesOK' <=> RemakesOK
  <2>1. Rest({})' <=> Rest({})
    BY <1>1 DEF Rest
  <2> QED
    BY <1>1, <1>3, <2>1 DEF RemakesOK
<1>5. (IndexesOK' <=> IndexesOK) /\ (Saved' <=> Saved)
  BY <1>1 DEF IndexesOK, Saved
<1>6. RowsSurvive' <=> RowsSurvive
  BY <1>1 DEF RowsSurvive, Holds
<1> QED
  BY <1>1, <1>2, <1>4, <1>5, <1>6 DEF RemakeInv

LEMMA NextKeeps ==
  ASSUME RemakeInv, [Next]_vars
  PROVE  RemakeInv'
<1>1. CASE UNCHANGED vars
  BY <1>1, StutterKeeps
<1>2. CASE EndBody \/ Exit \/ \E atomic \in BOOLEAN : Enter(atomic)
  BY <1>2, EditorKeeps
<1>3. ASSUME NEW name \in Tables, NEW row \in Rows, NEW nulls, Insert(name, row, nulls) PROVE RemakeInv'
  BY <1>3, InsertKeeps
<1>4. ASSUME NEW name \in Names, NEW field \in Declarable, CreateParent(name, field) PROVE RemakeInv'
  BY <1>4, CreateParentKeeps
<1>5. ASSUME NEW name \in Names, NEW field \in Declarable, AddField(name, field) PROVE RemakeInv'
  BY <1>5, AddFieldKeeps
<1>6. CASE CreateChild
  BY <1>6, CreateChildKeeps
<1>7. CASE AddManyToMany
  BY <1>7, AddManyToManyKeeps
<1>8. ASSUME NEW old \in Throughs, NEW new \in Throughs, NEW peer \in Peers, NEW new_peer \in Peers,
             AlterManyToMany(old, new, peer, new_peer)
      PROVE  RemakeInv'
  BY <1>8, AlterManyToManyKeeps
<1>9. ASSUME NEW name \in Throughs, RemoveManyToMany(name) PROVE RemakeInv'
  BY <1>9, DeleteModelKeeps DEF RemoveManyToMany, Tables
<1>10. ASSUME NEW name \in Tables, DeleteModel(name) PROVE RemakeInv'
  BY <1>10, DeleteModelKeeps
<1>11. ASSUME NEW name \in Tables, ChangeConstraint(name) PROVE RemakeInv'
  BY <1>11, ChangeConstraintKeeps
<1>12. ASSUME NEW name \in Names \union {"id"}, RemoveField(name) PROVE RemakeInv'
  BY <1>12, RemoveFieldKeeps
<1>13. ASSUME NEW old \in Names, NEW name \in Names, NEW field \in Declarable, AlterField(old, name, field) PROVE RemakeInv'
  BY <1>13, AlterFieldKeeps
<1>14. CASE CreateReplacement
  BY <1>14, CreateReplacementKeeps
<1>15. CASE CopyRows
  BY <1>15, CopyRowsKeeps
<1>16. CASE DropOriginal
  BY <1>16, DropOriginalKeeps
<1>17. CASE RenameReplacement
  BY <1>17, RenameReplacementKeeps
<1>18. CASE RunDeferred
  BY <1>18, RunDeferredKeeps
<1>19. CASE FinishRemake
  BY <1>19, FinishRemakeKeeps
<1>20. CASE Fails
  BY <1>20, FailsKeeps
<1> QED
  BY <1>1, <1>2, <1>3, <1>4, <1>5, <1>6, <1>7, <1>8, <1>9, <1>10, <1>11, <1>12, <1>13, <1>14, <1>15,
     <1>16, <1>17, <1>18, <1>19, <1>20 DEF Next

LEMMA RemakeInvHolds == Spec => []RemakeInv
<1>1. Init => RemakeInv
  BY InitHolds
<1>2. RemakeInv /\ [Next]_vars => RemakeInv'
  BY NextKeeps
<1> QED
  BY <1>1, <1>2, PTL DEF Spec

LEMMA TypedTables ==
  ASSUME NEW T, IsTable(T)
  PROVE  TypedTable(T)
  BY DEF IsTable, TypedTable, TypedFields, AllColumns, Columns

LEMMA TypedModels ==
  ASSUME NEW ms, AreModels(ms)
  PROVE  DOMAIN ms \subseteq Tables /\ \A m \in DOMAIN ms : TypedFields(ms[m])
<1>1. \A m \in DOMAIN ms : IsModel(ms[m])
  BY DEF AreModels
<1> QED
  BY <1>1 DEF AreModels, IsModel, TypedFields, AllColumns, Columns

LEMMA SettledIsTyped ==
  ASSUME NEW ts, NEW ms, NEW ds, Settled(ts, ms, ds)
  PROVE  TypedState(ts, ms, ds)
<1>1. AreModels(ms) /\ DOMAIN ts = DOMAIN ms /\ DOMAIN ds = DOMAIN ms /\ \A m \in DOMAIN ms : IsTable(ts[m])
  BY DEF Settled
<1> QED
  BY <1>1, TypedTables, TypedModels DEF TypedState

\* The database, the migration state and the editor have the states that they are declared
\* to have, and so has what a failed atomic migration goes back to: the indexes of a table
\* are of its columns, every row has all of them, and every deferred statement is about a
\* table that exists, or its replacement, and about a column of it.
THEOREM RemakeTypes == Spec => []TypeOK
<1>1. RemakeInv => TypeOK
  <2> SUFFICES ASSUME RemakeInv PROVE TypeOK
    OBVIOUS
  <2>1. Shape /\ Saved /\ refused = FALSE
    BY DEF RemakeInv
  <2>2. TypedState(tables, models, data) /\ DOMAIN before = DOMAIN models
    <3>1. /\ DOMAIN tables \subseteq Tables \union {Replacement(t) : t \in Tables}
          /\ \A t \in DOMAIN tables : IsTable(tables[t])
          /\ AreModels(models) /\ DOMAIN data = DOMAIN models /\ DOMAIN before = DOMAIN models
      BY <2>1 DEF Shape, AllTables
    <3> QED
      BY <3>1, TypedTables, TypedModels DEF TypedState
  <2>3. TypedState(snapshot.tables, snapshot.models, snapshot.data)
    BY <2>1, SettledIsTyped DEF Saved
  <2>4. ASSUME NEW i \in DOMAIN deferred_sql
        PROVE  /\ deferred_sql[i].table \in DOMAIN tables
               /\ deferred_sql[i].column \in DOMAIN tables[deferred_sql[i].table].columns
    <3>1. CASE step = "failed"
      <4>1. deferred_sql = <<>>
        BY <2>1, <3>1 DEF Shape
      <4> QED
        BY <4>1
    <3>2. CASE step # "failed"
      <4>1. Indexed(tables, deferred_sql)
        BY <3>2 DEF RemakeInv, IndexesOK
      <4>2. deferred_sql[i] \in Range(deferred_sql)
        BY DEF Range
      <4> QED
        BY <4>1, <4>2 DEF Indexed
    <3> QED
      BY <3>1, <3>2
  <2>5. /\ step \in {"outside", "editing", "create", "copy", "drop", "rename", "deferred", "exit", "failed"}
        /\ atomic_migration \in BOOLEAN
        /\ step \in {"create", "copy", "drop", "rename", "deferred"} <=> remakes # <<>>
        /\ operations \in 0..MaxOperations
        /\ refused \in BOOLEAN
    BY <2>1 DEF Shape, Remaking
  <2> QED
    BY <2>2, <2>3, <2>4, <2>5 DEF TypeOK
<1> QED
  BY <1>1, RemakeInvHolds, PTL

\* Wherever a remake is cut off, the rows of every model are still in one table: its own,
\* the replacement or, for a relation that is moved, the former one.
THEOREM RemakeKeepsRows == Spec => []RowsSurvive
<1>1. RemakeInv => RowsSurvive
  BY Survival
<1> QED
  BY <1>1, RemakeInvHolds, PTL

\* No statement of a remake is refused by the engine: what is copied exists, no NULL goes
\* where none is allowed, and no index is made twice or of a column that is gone.
THEOREM RemakeIsAccepted == Spec => []NothingRefused
<1>1. RemakeInv => NothingRefused
  BY DEF RemakeInv, NothingRefused
<1> QED
  BY <1>1, RemakeInvHolds, PTL

LEMMA CalmColumns ==
  ASSUME RemakeInv, step \in {"outside", "editing", "exit"}
  PROVE  /\ DOMAIN tables = DOMAIN models
         /\ \A m \in DOMAIN models :
              /\ IsModel(models[m]) /\ IsTable(tables[m]) /\ Fits(tables[m], models[m], data[m])
              /\ DOMAIN models[m] \subseteq DOMAIN tables[m].columns
              /\ \A n \in DOMAIN tables[m].columns :
                   IF n \in DOMAIN models[m] THEN tables[m].columns[n] = models[m][n]
                   ELSE n = "id" /\ tables[m].columns[n] = Id
<1>1. Calm(tables, models, data) /\ Shape
  BY IsCalm
<1>2. /\ DOMAIN tables = DOMAIN models
      /\ \A m \in DOMAIN models : IsModel(models[m]) /\ IsTable(tables[m]) /\ Fits(tables[m], models[m], data[m])
  BY <1>1 DEF Calm, Shape, AreModels
<1>3. ASSUME NEW m \in DOMAIN models
      PROVE  /\ DOMAIN models[m] \subseteq DOMAIN tables[m].columns
             /\ \A n \in DOMAIN tables[m].columns :
                  IF n \in DOMAIN models[m] THEN tables[m].columns[n] = models[m][n]
                  ELSE n = "id" /\ tables[m].columns[n] = Id
  <2> DEFINE M == models[m]
             C == tables[m].columns
  <2>1. IsModel(M) /\ C \in {M, Rendered(M)}
    BY <1>2 DEF Fits
  <2> HIDE DEF M, C
  <2>2. /\ DOMAIN M \subseteq DOMAIN C
        /\ \A n \in DOMAIN C : IF n \in DOMAIN M THEN C[n] = M[n] ELSE n = "id" /\ C[n] = Id
    BY <2>1, RenderedKeeps
  <2> QED
    BY <2>2 DEF M, C
<1> QED
  BY <1>2, <1>3

\* Between the operations every table has the columns of its model and every row what the
\* operations so far have to make of it, whatever remakes and renames there were.
THEOREM RemakeKeepsPromise == Spec => []DataAsPromised
<1>1. RemakeInv => DataAsPromised
  <2> SUFFICES ASSUME RemakeInv, step \in {"outside", "editing", "exit"}
               PROVE  /\ DOMAIN tables = DOMAIN models
                      /\ \A m \in DOMAIN models :
                           /\ DOMAIN models[m] \subseteq DOMAIN tables[m].columns
                           /\ \A n \in DOMAIN tables[m].columns :
                                IF n \in DOMAIN models[m] THEN tables[m].columns[n] = models[m][n] ELSE n = "id"
                           /\ Holds(m, data[m])
    BY DEF DataAsPromised
  <2>1. \A m \in DOMAIN models : Holds(m, data[m])
    BY CalmColumns, FitHolds DEF Holds, HoldsIn
  <2>2. \A m \in DOMAIN models : \A n \in DOMAIN tables[m].columns :
          IF n \in DOMAIN models[m] THEN tables[m].columns[n] = models[m][n] ELSE n = "id"
    BY CalmColumns
  <2> QED
    BY <2>1, <2>2, CalmColumns
<1> QED
  BY <1>1, RemakeInvHolds, PTL

\* When an editor has been left, every table has the indexes of its model: no remake and no
\* rename loses a deferred statement.
THEOREM RemakeIndexes == Spec => []IndexesAsDeclared
<1>1. RemakeInv => IndexesAsDeclared
  <2> SUFFICES ASSUME RemakeInv, step = "outside", NEW m \in DOMAIN models
               PROVE  tables[m].indexes = {n \in DOMAIN models[m] : IsIndexed(models[m][n])}
    BY DEF IndexesAsDeclared
  <2>1. deferred_sql = <<>> /\ Indexed(tables, deferred_sql)
    BY IsCalm DEF Shape
  <2>2. Range(deferred_sql) = {}
    BY <2>1, ShortSequences DEF Range
  <2>3. m \in DOMAIN tables /\ IsTable(tables[m])
    BY CalmColumns
  <2>4. \A n \in DOMAIN tables[m].columns : IsIndexed(tables[m].columns[n]) <=> n \in tables[m].indexes
    BY <2>1, <2>2, <2>3 DEF Indexed
  <2>5. /\ DOMAIN models[m] \subseteq DOMAIN tables[m].columns
        /\ \A n \in DOMAIN tables[m].columns :
             IF n \in DOMAIN models[m] THEN tables[m].columns[n] = models[m][n] ELSE tables[m].columns[n] = Id
    BY CalmColumns
  <2>6. tables[m].indexes \subseteq DOMAIN tables[m].columns
    BY <2>3 DEF IsTable
  <2> QED
    BY <2>4, <2>5, <2>6, IdIs
<1> QED
  BY <1>1, RemakeInvHolds, PTL

\* When an editor has been left, every foreign key refers to a unique column that exists,
\* whatever fields of the parent were renamed, removed or altered.
THEOREM RemakeReferences == Spec => []ReferencesResolve
<1>1. RemakeInv => ReferencesResolve
  <2> SUFFICES ASSUME RemakeInv, step = "outside", NEW m \in Referring(tables)
               PROVE  /\ tables[m].columns["ref"].to \in DOMAIN tables["parent"].columns
                      /\ tables["parent"].columns[tables[m].columns["ref"].to].unique
    BY DEF ReferencesResolve
  <2>1. m \in DOMAIN models \ {"parent"} /\ AreModels(models)
    BY CalmColumns, IsCalm DEF Referring, Shape
  <2>2. /\ "ref" \in DOMAIN models[m] /\ "parent" \in DOMAIN models
        /\ models[m]["ref"].to \in DOMAIN models["parent"] /\ models["parent"][models[m]["ref"].to].unique
    BY <2>1 DEF AreModels
  <2>3. \A k \in DOMAIN models : \A n \in DOMAIN models[k] : n \in DOMAIN tables[k].columns /\ tables[k].columns[n] = models[k][n]
    BY CalmColumns
  <2> QED
    BY <2>1, <2>2, <2>3
<1> QED
  BY <1>1, RemakeInvHolds, PTL
================================================================================
