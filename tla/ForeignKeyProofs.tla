----------------------------- MODULE ForeignKeyProofs ---------------------------
(******************************************************************************)
(* Theorems of ForeignKeys, for all schemas that a catalogue can describe.     *)
(******************************************************************************)
EXTENDS ForeignKeys, SequenceTheorems, FiniteSetTheorems, WellFoundedInduction, TLAPS

Columns(t) == DOMAIN schema[t].affinity

\* What is stored has been converted by the affinity of its column.
Fits(t, content) ==
  \A r \in content : r \in [Columns(t) -> Value] /\ \A c \in Columns(t) : r[c] = Apply(schema[t].affinity[c], r[c])

Shape ==
  /\ schema \in Schemas
  /\ DOMAIN rows = Tables /\ DOMAIN saved = Tables
  /\ \A t \in Tables : Fits(t, rows[t]) /\ Fits(t, saved[t])

\* Tables are followed by their real names.
Spelled(s) == \A n \in s : Meant(n) # {} => n \in Tables

Closed(s) == \A t \in s : Referencing(t) \subseteq s

\* A flush follows references to the end, and empties one table after the other.
FlushInv ==
  /\ phase # "edit" => outcome = "none"
  /\ Spelled(pending \union seen \union target_tables)
  /\ Closed(target_tables)
  /\ phase = "graph" =>
       /\ rows = saved
       /\ \A t \in seen : Referencing(t) \subseteq seen \union pending
  /\ phase = "flush" =>
       /\ deleting \subseteq target_tables
       /\ \A t \in Tables : /\ t \notin target_tables => rows[t] = saved[t]
                            /\ t \in target_tables \ deleting => rows[t] = {}
  /\ FlushIsClosed

\* Outside of a transaction no reference dangles.
SoundInv ==
  /\ ~Broken(Tables, saved)
  /\ phase \in {"idle", "graph", "flushed", "failed"} => ~Broken(Tables, rows)
--------------------------------------------------------------------------------
(* Names.                                                                     *)

LEMMA OneTable ==
  ASSUME schema \in Schemas
  PROVE  /\ \A n : \A t, u \in Meant(n) : t = u
         /\ \A n : \A t \in Meant(n) : t \in Tables /\ Real(n) = t /\ Meant(n) = {t}
         /\ \A t \in Tables : t \in Meant(t)
<1>1. \A t, u \in Tables : Key[t] = Key[u] => t = u
  BY ForeignKeysAssumption DEF Tables
<1>2. \A n : \A t, u \in Meant(n) : t = u
  BY <1>1 DEF Meant
<1>3. ASSUME NEW n, NEW t \in Meant(n) PROVE t \in Tables /\ Real(n) = t /\ Meant(n) = {t}
  <2>1. Meant(n) = {t}
    BY <1>2
  <2>2. t \in Tables
    BY DEF Meant
  <2> QED
    BY <2>1, <2>2 DEF Real
<1>4. \A t \in Tables : t \in Meant(t)
  BY DEF Meant
<1> QED
  BY <1>2, <1>3, <1>4

\* Who refers to a table is found by the graph.
LEMMA FoundByGraph ==
  ASSUME schema \in Schemas, NEW t \in Tables, NEW fk \in schema[t].foreign, NEW u \in Meant(fk.target)
  PROVE  t \in Referencing(u)
BY OneTable DEF Referencing
--------------------------------------------------------------------------------
(* What a deletion takes along.                                               *)

LEMMA GoneIn ==
  ASSUME schema \in Schemas, NEW s, Closed(s), NEW t \in s \intersect Tables
  PROVE  /\ \A p \in Gone(t) : p[1] \in s
         /\ \A r \in rows[t] : <<t, r>> \in Gone(t)
<1> DEFINE every == UNION {{u} \X rows[u] : u \in Tables}
           takes(p, c) == \E fk \in schema[c[1]].foreign :
             fk.on_delete = "CASCADE" /\ p[1] \in Meant(fk.target) /\ Refers(fk, c[2], p[1], p[2])
           inside == {p \in every : p[1] \in s}
<1>1. Gone(t) = {x \in every : \A q \in SUBSET every :
                   {t} \X rows[t] \subseteq q /\ (\A p \in q, c \in every : takes(p, c) => c \in q) => x \in q}
  BY DEF Gone
<1>2. {t} \X rows[t] \subseteq every
  OBVIOUS
<1>3. \A p \in {t} \X rows[t] : p[1] = t
  OBVIOUS
<1>4. \A c \in every : c[1] \in Tables
  OBVIOUS
<1>5. ASSUME NEW p \in inside, NEW c \in every, takes(p, c) PROVE c \in inside
  <2>1. PICK fk \in schema[c[1]].foreign : p[1] \in Meant(fk.target)
    BY <1>5
  <2>2. c[1] \in Referencing(p[1])
    BY <1>4, <2>1, FoundByGraph
  <2>3. p[1] \in s
    OBVIOUS
  <2>4. c[1] \in s
    BY <2>2, <2>3 DEF Closed
  <2> QED
    BY <2>4
<1> HIDE DEF every, takes
<1>6. inside \in SUBSET every /\ {t} \X rows[t] \subseteq inside
  BY <1>2, <1>3
<1>7. \A x \in Gone(t) : x \in inside
  BY <1>1, <1>5, <1>6
<1>8. \A x \in {t} \X rows[t] : x \in Gone(t)
  BY <1>1, <1>2
<1> QED
  BY <1>7, <1>8

LEMMA AfterDelete ==
  ASSUME Shape, NEW s, Closed(s), NEW t \in s \intersect Tables
  PROVE  /\ DOMAIN After(t) = Tables
         /\ After(t)[t] = {}
         /\ \A u \in Tables : rows[u] = {} => After(t)[u] = {}
         /\ \A u \in Tables \ s : After(t)[u] = rows[u]
         /\ \A u \in Tables : Fits(u, After(t)[u])
<1> DEFINE gone == Gone(t)
<1>0. schema \in Schemas
  BY DEF Shape
<1>1. /\ \A p \in gone : p[1] \in s
      /\ \A r \in rows[t] : <<t, r>> \in gone
  BY <1>0, GoneIn
<1>2. /\ DOMAIN After(t) = Tables
      /\ \A u \in Tables : After(t)[u] = {SetNull(u, r, gone) : r \in {q \in rows[u] : <<u, q>> \notin gone}}
  BY DEF After
<1> HIDE DEF gone
<1>3. After(t)[t] = {}
  <2>1. {q \in rows[t] : <<t, q>> \notin gone} = {}
    BY <1>1
  <2> QED
    BY <1>2, <2>1
<1>4. ASSUME NEW u \in Tables, rows[u] = {} PROVE After(t)[u] = {}
  BY <1>2, <1>4
<1>5. ASSUME NEW u \in Tables \ s PROVE After(t)[u] = rows[u]
  <2>1. {q \in rows[u] : <<u, q>> \notin gone} = rows[u]
    BY <1>1
  <2>2. ASSUME NEW r \in rows[u] PROVE SetNull(u, r, gone) = r
    <3>1. ~\E fk \in schema[u].foreign : \E p \in gone : p[1] \in Meant(fk.target)
      <4>1. SUFFICES ASSUME NEW fk \in schema[u].foreign, NEW p \in gone, p[1] \in Meant(fk.target) PROVE FALSE
        OBVIOUS
      <4>2. u \in Referencing(p[1]) /\ p[1] \in s
        BY <1>0, <1>1, <4>1, FoundByGraph
      <4> QED
        BY <4>2 DEF Closed
    <3>2. SetNull(u, r, gone) = [c \in DOMAIN r |-> r[c]]
      BY <3>1 DEF SetNull
    <3>3. r \in [Columns(u) -> Value]
      BY DEF Shape, Fits
    <3> QED
      BY <3>2, <3>3
  <2>3. {SetNull(u, r, gone) : r \in rows[u]} = rows[u]
    BY <2>2
  <2>4. After(t)[u] = {SetNull(u, r, gone) : r \in rows[u]}
    BY <1>2, <2>1
  <2> QED
    BY <2>3, <2>4
<1>6. ASSUME NEW u \in Tables PROVE Fits(u, After(t)[u])
  <2>1. ASSUME NEW r \in rows[u] 
        PROVE  /\ SetNull(u, r, gone) \in [Columns(u) -> Value]
               /\ \A c \in Columns(u) : SetNull(u, r, gone)[c] = Apply(schema[u].affinity[c], SetNull(u, r, gone)[c])
    <3>1. r \in [Columns(u) -> Value] /\ \A c \in Columns(u) : r[c] = Apply(schema[u].affinity[c], r[c])
      BY DEF Shape, Fits
    <3> DEFINE q == SetNull(u, r, gone)
    <3>2. q = [c \in DOMAIN r |-> q[c]] /\ \A c \in DOMAIN r : q[c] \in {Null, r[c]}
      BY DEF SetNull
    <3>3. Null \in Value /\ \A a : Apply(a, Null) = Null
      BY DEF Apply, Null, Value
    <3> HIDE DEF q
    <3>4. \A c \in Columns(u) : q[c] \in Value /\ q[c] = Apply(schema[u].affinity[c], q[c])
      BY <3>1, <3>2, <3>3
    <3>5. q \in [Columns(u) -> Value]
      BY <3>1, <3>2, <3>4
    <3> QED
      BY <3>4, <3>5 DEF q
  <2>2. \A x \in After(t)[u] : \E r \in rows[u] : x = SetNull(u, r, gone)
    BY <1>2
  <2> QED
    BY <2>1, <2>2 DEF Fits
<1> QED
  BY <1>2, <1>3, <1>4, <1>5, <1>6
--------------------------------------------------------------------------------
(* Columns.                                                                   *)

Less == {p \in Nat \X Nat : p[1] < p[2]}

LEMMA LeastNumber ==
  ASSUME NEW T, T \subseteq Nat, T # {}
  PROVE  \E m \in T : \A k \in T : m <= k
<1>1. OpToRel(<, Nat) = Less
  BY DEF OpToRel, Less
<1>2. IsWellFoundedOn(Less, Nat)
  BY <1>1, NatLessThanWellFounded
<1>3. \E m \in T : \A k \in T : <<k, m>> \notin Less
  BY <1>2, WFMin
<1>4. \A k, m \in Nat : <<k, m>> \notin Less => m <= k
  BY DEF Less
<1> QED
  BY <1>3, <1>4

\* Numbers 1..n that rise n times are all of them.
LEMMA Rising ==
  ASSUME NEW n \in Nat, NEW g \in [1..n -> 1..n], \A i, j \in 1..n : i < j => g[i] < g[j]
  PROVE  \A i \in 1..n : g[i] = i
<1>1. \A i \in 1..n : g[i] >= i
  <2> SUFFICES ASSUME NEW i \in 1..n, g[i] < i PROVE FALSE
    OBVIOUS
  <2> DEFINE T == {k \in 1..n : g[k] < k}
  <2>1. T \subseteq Nat /\ T # {}
    OBVIOUS
  <2>2. PICK m \in T : \A k \in T : m <= k
    BY <2>1, LeastNumber
  <2>3. m \in 1..n /\ g[m] < m /\ g[m] \in 1..n
    OBVIOUS
  <2>4. g[g[m]] < g[m]
    BY <2>3
  <2>5. g[m] \in T
    BY <2>3, <2>4
  <2> QED
    BY <2>2, <2>3, <2>5
<1>2. \A i \in 1..n : g[i] <= i
  <2> SUFFICES ASSUME NEW i \in 1..n, g[i] > i PROVE FALSE
    OBVIOUS
  <2> DEFINE T == {k \in 0..(n - 1) : g[n - k] > n - k}
  <2>1. T \subseteq Nat /\ n - i \in T
    <3>1. n - i \in 0..(n - 1) /\ n - (n - i) = i
      OBVIOUS
    <3> QED
      BY <3>1
  <2>2. PICK m \in T : \A k \in T : m <= k
    BY <2>1, LeastNumber
  <2> DEFINE a == n - m
  <2>3. m \in 0..(n - 1) /\ a \in 1..n /\ g[a] > a /\ g[a] \in 1..n
    OBVIOUS
  <2>4. g[g[a]] > g[a]
    BY <2>3
  <2>5. n - g[a] \in 0..(n - 1) /\ n - (n - g[a]) = g[a] /\ n - g[a] < m
    <3>1. \A b \in 1..n : b > n - m => n - b \in 0..(n - 1) /\ n - (n - b) = b /\ n - b < m
      BY <2>3
    <3> QED
      BY <2>3, <3>1
  <2>6. n - g[a] \in T
    BY <2>4, <2>5
  <2> QED
    BY <2>2, <2>3, <2>5, <2>6
<1> QED
  BY <1>1, <1>2

LEMMA KeyOrder ==
  ASSUME schema \in Schemas, NEW t \in Tables
  PROVE  LET n == Cardinality(KeyColumns(t))
             s == get_primary_key_columns(t)
         IN  /\ n \in Nat
             /\ s \in [1..n -> KeyColumns(t)]
             /\ \A i \in 1..n : schema[t].pk[s[i]] = i
             /\ \A c, d \in KeyColumns(t) : schema[t].pk[c] = schema[t].pk[d] => c = d
<1> DEFINE pk == schema[t].pk
           K == KeyColumns(t)
           n == Cardinality(K)
           Rises(s) == \A i, j \in DOMAIN s : i < j => pk[s[i]] < pk[s[j]]
<1>1. Numbered(pk)
  BY ForeignKeysAssumption DEF Catalogued, Tables
<1>2. K = {c \in DOMAIN pk : pk[c] > 0}
  BY DEF KeyColumns
<1>3. /\ IsFiniteSet(K) /\ {pk[c] : c \in K} = 1..n
      /\ \A c, d \in K : pk[c] = pk[d] => c = d
  BY <1>1, <1>2 DEF Numbered
<1>4. n \in Nat
  BY <1>3, FS_CardinalityType
<1> HIDE DEF pk, K, n
<1>5. \E s \in [1..n -> K] : Rises(s)
  <2> DEFINE s == [i \in 1..n |-> CHOOSE c \in K : pk[c] = i]
  <2>1. \A i \in 1..n : s[i] \in K /\ pk[s[i]] = i
    BY <1>3
  <2>2. s \in [1..n -> K]
    BY <2>1
  <2>3. Rises(s)
    BY <2>1
  <2> QED
    BY <2>2, <2>3
<1> DEFINE s == get_primary_key_columns(t)
<1>6. s = CHOOSE q \in [1..n -> K] : Rises(q)
  BY DEF get_primary_key_columns, pk, K, n
<1>7. s \in [1..n -> K] /\ Rises(s)
  BY <1>5, <1>6
<1> HIDE DEF s
<1>8. \A i \in 1..n : pk[s[i]] = i
  <2> DEFINE g == [i \in 1..n |-> pk[s[i]]]
  <2>1. g \in [1..n -> 1..n]
    BY <1>3, <1>7
  <2>2. \A i, j \in 1..n : i < j => g[i] < g[j]
    BY <1>7
  <2>3. \A i \in 1..n : g[i] = i
    <3> HIDE DEF g
    <3> QED
      BY <1>4, <2>1, <2>2, Rising
  <2> QED
    BY <2>3
<1> QED
  BY <1>3, <1>4, <1>7, <1>8 DEF pk, K, n, s
--------------------------------------------------------------------------------
(* check_constraints() and what the engine enforces.                          *)

\* A column of the target equals an expression that has no affinity if and only if it equals
\* what the column would store.
LEMMA JoinIsReference ==
  ASSUME NEW a, NEW b, NEW p \in Value, NEW c \in Value, p = Apply(a, p), c # Null
  PROVE  p # Null /\ Joins(p, a, c, b) <=> Apply(a, c) = p
<1>1. Apply(a, c) # Null
  BY DEF Apply, Value, Null
<1>2. CASE a = "INTEGER"
  BY <1>1, <1>2 DEF Joins, Compared
<1>3. CASE a = "TEXT"
  BY <1>1, <1>3 DEF Joins, Compared
<1>4. CASE a \notin {"INTEGER", "TEXT"}
  <2>1. \A v : Apply(a, v) = v
    BY <1>4 DEF Apply
  <2> QED
    BY <1>1, <1>4, <2>1 DEF Joins, Compared
<1> QED
  BY <1>2, <1>3, <1>4

LEMMA SequenceOver ==
  ASSUME NEW n \in Nat, NEW S, NEW s \in [1..n -> S]
  PROVE  s \in Seq(S) /\ Len(s) = n
OBVIOUS

\* The columns that the check compares are those that the engine refers to.
LEMMA SameColumns ==
  ASSUME schema \in Schemas, NEW t \in Tables, NEW fk \in schema[t].foreign, CanCheck(fk),
         NEW u \in Meant(fk.target)
  PROVE  LET columns == TargetColumns(fk, u)
         IN  /\ DOMAIN columns = DOMAIN fk.source
             /\ \A i \in DOMAIN fk.source : columns[i] \in Columns(u) /\ Referred(fk, u)[i] = columns[i]
<1> DEFINE columns == TargetColumns(fk, u)
           pk == schema[u].pk
           K == KeyColumns(u)
           m == Cardinality(K)
           l == Len(fk.source)
           Placed(s) == \A i \in DOMAIN s : pk[s[i]] = i
<1>1. u \in Tables /\ Target(fk) = u /\ Key[u] = Key[fk.target]
  <2>1. u \in Tables /\ Meant(fk.target) = {u}
    BY OneTable
  <2>2. Key[u] = Key[fk.target]
    BY DEF Meant
  <2> QED
    BY <2>1, <2>2 DEF Target
<1>2. /\ fk.source \in Seq(Columns(t))
      /\ fk.columns \in Seq(Columns(u))
      /\ DOMAIN pk = Columns(u)
  BY <1>1, ForeignKeysAssumption DEF Catalogued, Tables, Columns
<1>3. Len(columns) = l
  BY <1>1 DEF CanCheck
<1>4. l \in Nat /\ DOMAIN fk.source = 1..l
  BY <1>2
<1>5. CASE fk.columns # <<>>
  <2>1. columns = fk.columns /\ Referred(fk, u) = fk.columns
    BY <1>5 DEF TargetColumns, Referred
  <2>2. DOMAIN fk.columns = 1..Len(fk.columns) /\ \A i \in 1..Len(fk.columns) : fk.columns[i] \in Columns(u)
    BY <1>2
  <2> HIDE DEF columns
  <2> QED
    BY <1>3, <1>4, <2>1, <2>2 DEF columns
<1>6. CASE fk.columns = <<>>
  <2>1. columns = get_primary_key_columns(u)
    BY <1>6 DEF TargetColumns
  <2>2. Referred(fk, u) = CHOOSE s \in [1..l -> DOMAIN pk] : Placed(s)
    BY <1>6 DEF Referred
  <2>3. /\ m \in Nat
        /\ columns \in [1..m -> K]
        /\ \A i \in 1..m : pk[columns[i]] = i
        /\ \A c, d \in K : pk[c] = pk[d] => c = d
    BY <1>1, <2>1, KeyOrder
  <2>4. K = {c \in Columns(u) : pk[c] > 0}
    BY <1>2 DEF KeyColumns
  <2> HIDE DEF columns, K, m, pk
  <2>5. l = m
    <3>1. columns \in Seq(K) /\ Len(columns) = m
      BY <2>3, SequenceOver
    <3> QED
      BY <1>3, <3>1
  <2> DEFINE r == CHOOSE s \in [1..l -> DOMAIN pk] : Placed(s)
  <2>6. r \in [1..l -> Columns(u)] /\ Placed(r)
    <3>1. columns \in [1..l -> DOMAIN pk]
      BY <1>2, <2>3, <2>4, <2>5
    <3>2. Placed(columns)
      BY <2>3, <2>5
    <3> QED
      BY <1>2, <3>1, <3>2
  <2> HIDE DEF r
  <2>7. ASSUME NEW i \in 1..l PROVE columns[i] \in Columns(u) /\ r[i] = columns[i]
    <3>1. r[i] \in Columns(u) /\ pk[r[i]] = i /\ i > 0
      BY <1>4, <2>6
    <3>2. columns[i] \in K /\ pk[columns[i]] = i
      BY <2>3, <2>5
    <3> QED
      BY <2>3, <2>4, <3>1, <3>2
  <2>8. DOMAIN columns = 1..l
    BY <2>3, <2>5
  <2> QED
    BY <1>4, <2>2, <2>7, <2>8 DEF r, columns
<1> QED
  BY <1>5, <1>6

\* The query of _check_foreign_key() finds the rows that the engine would not let in.
LEMMA ViolationsDangle ==
  ASSUME Shape, NEW t \in Tables, NEW fk \in schema[t].foreign, CanCheck(fk)
  PROVE  Violations(t, fk) = Dangling(t, fk, rows)
<1> DEFINE u == Target(fk)
           columns == TargetColumns(fk, u)
<1>0. schema \in Schemas
  BY DEF Shape
<1>1. u \in Meant(fk.target) /\ u \in Tables /\ Meant(fk.target) = {u}
  BY <1>0, OneTable DEF CanCheck, Target
<1>2. /\ DOMAIN columns = DOMAIN fk.source
      /\ \A i \in DOMAIN fk.source : columns[i] \in Columns(u) /\ Referred(fk, u)[i] = columns[i]
  BY <1>0, <1>1, SameColumns
<1>3. \A i \in DOMAIN fk.source : fk.source[i] \in Columns(t)
  <2>1. fk.source \in Seq(Columns(t))
    BY <1>0, ForeignKeysAssumption DEF Catalogued, Tables, Columns
  <2> QED
    BY <2>1
<1>4. Violations(t, fk) =
        {child \in rows[t] :
           /\ AllValues(child, fk)
           /\ ~\E parent \in rows[u] : \A i \in DOMAIN columns :
                /\ parent[columns[i]] # Null
                /\ Joins(parent[columns[i]], schema[u].affinity[columns[i]],
                         child[fk.source[i]], schema[t].affinity[fk.source[i]])}
  BY DEF Violations
<1>5. Dangling(t, fk, rows) =
        {child \in rows[t] : AllValues(child, fk) /\ ~\E parent \in rows[u] : Refers(fk, child, u, parent)}
  BY <1>1 DEF Dangling, AllValues
<1> HIDE DEF u, columns
<1>6. ASSUME NEW child \in rows[t], AllValues(child, fk), NEW parent \in rows[u]
      PROVE  (\A i \in DOMAIN columns :
                /\ parent[columns[i]] # Null
                /\ Joins(parent[columns[i]], schema[u].affinity[columns[i]],
                         child[fk.source[i]], schema[t].affinity[fk.source[i]]))
             <=> Refers(fk, child, u, parent)
  <2>1. /\ \A c \in Columns(t) : child[c] \in Value
        /\ \A c \in Columns(u) : parent[c] \in Value /\ parent[c] = Apply(schema[u].affinity[c], parent[c])
    BY <1>1 DEF Shape, Fits
  <2>2. \A i \in DOMAIN fk.source : child[fk.source[i]] # Null
    BY <1>6 DEF AllValues
  <2>3. ASSUME NEW i \in DOMAIN fk.source
        PROVE  (/\ parent[columns[i]] # Null
                /\ Joins(parent[columns[i]], schema[u].affinity[columns[i]],
                         child[fk.source[i]], schema[t].affinity[fk.source[i]]))
               <=> Apply(schema[u].affinity[columns[i]], child[fk.source[i]]) = parent[columns[i]]
    <3>1. /\ parent[columns[i]] \in Value /\ child[fk.source[i]] \in Value /\ child[fk.source[i]] # Null
          /\ parent[columns[i]] = Apply(schema[u].affinity[columns[i]], parent[columns[i]])
      BY <1>2, <1>3, <2>1, <2>2
    <3> QED
      BY <3>1, JoinIsReference
  <2>4. Refers(fk, child, u, parent) <=>
          \A i \in DOMAIN fk.source : Apply(schema[u].affinity[columns[i]], child[fk.source[i]]) = parent[columns[i]]
    BY <1>2, <2>2 DEF Refers
  <2> QED
    BY <1>2, <2>3, <2>4
<1> QED
  BY <1>4, <1>5, <1>6

\* What cannot be checked cannot be used either.
LEMMA UncheckedIsMalformed ==
  ASSUME schema \in Schemas, NEW t \in Tables, NEW fk \in schema[t].foreign
  PROVE  ~CanCheck(fk) => ~WellFormed(fk)
<1> SUFFICES ASSUME WellFormed(fk) PROVE CanCheck(fk)
  OBVIOUS
<1>1. PICK u \in Meant(fk.target) :
        \/ Len(fk.columns) = Len(fk.source)
        \/ fk.columns = <<>> /\ Cardinality(KeyColumns(u)) = Len(fk.source)
  BY DEF WellFormed
<1>2. u \in Tables /\ Target(fk) = u /\ Meant(fk.target) # {}
  BY OneTable DEF Target
<1>3. Len(fk.source) # 0
  <2>1. fk.source \in Seq(Columns(t)) \ {<<>>}
    BY ForeignKeysAssumption DEF Catalogued, Tables, Columns
  <2> QED
    BY <2>1
<1>4. Len(TargetColumns(fk, u)) = Len(fk.source)
  <2>1. CASE fk.columns # <<>>
    BY <1>1, <2>1 DEF TargetColumns
  <2>2. CASE fk.columns = <<>>
    <3> DEFINE s == get_primary_key_columns(u)
               n == Cardinality(KeyColumns(u))
    <3>1. n = Len(fk.source)
      BY <1>1, <1>3, <2>2
    <3>2. n \in Nat /\ s \in [1..n -> KeyColumns(u)]
      BY <1>2, KeyOrder
    <3> HIDE DEF s, n
    <3>3. Len(s) = n
      BY <3>2, SequenceOver
    <3> QED
      BY <2>2, <3>1, <3>3 DEF TargetColumns, s
  <2> QED
    BY <2>1, <2>2
<1> QED
  BY <1>2, <1>4 DEF CanCheck

LEMMA CheckAgrees ==
  ASSUME Shape, NEW tables \in SUBSET Tables
  PROVE  /\ "passed" \in check_constraints(tables) => ~Broken(tables, rows)
         /\ "violation" \in check_constraints(tables) => Broken(tables, rows)
         /\ "error" \in check_constraints(tables) => \E t \in tables : \E fk \in schema[t].foreign : ~WellFormed(fk)
<1> DEFINE bad(t, fk) == CanCheck(fk) /\ Violations(t, fk) # {}
           failing == UNION {{k \in schema[t].foreign : ~CanCheck(k) \/ bad(t, k)} : t \in tables}
           found == {IF ~CanCheck(fk) THEN "error" ELSE "violation" : fk \in failing}
<1>1. check_constraints(tables) = IF found = {} THEN {"passed"} ELSE found
  BY DEF check_constraints
<1>2. \A t \in tables : \A fk \in schema[t].foreign : CanCheck(fk) => Violations(t, fk) = Dangling(t, fk, rows)
  BY ViolationsDangle
<1>3. \A fk \in failing : \E t \in tables : fk \in schema[t].foreign /\ (~CanCheck(fk) \/ bad(t, fk))
  OBVIOUS
<1>4. \A t \in tables : \A fk \in schema[t].foreign : ~CanCheck(fk) \/ bad(t, fk) => fk \in failing
  OBVIOUS
<1> HIDE DEF failing
<1>5. "passed" \notin found
  OBVIOUS
<1>6. ASSUME found = {} PROVE ~Broken(tables, rows)
  <2>1. failing = {}
    BY <1>6
  <2>2. \A t \in tables : \A fk \in schema[t].foreign : CanCheck(fk) /\ Violations(t, fk) = {}
    BY <1>4, <2>1
  <2> QED
    BY <1>2, <2>2 DEF Broken
<1>7. ASSUME "violation" \in found PROVE Broken(tables, rows)
  <2>1. PICK fk \in failing : CanCheck(fk)
    BY <1>7
  <2>2. PICK t \in tables : fk \in schema[t].foreign /\ Violations(t, fk) # {}
    BY <1>3, <2>1
  <2> QED
    BY <1>2, <2>1, <2>2 DEF Broken
<1>8. ASSUME "error" \in found PROVE \E t \in tables : \E fk \in schema[t].foreign : ~WellFormed(fk)
  <2>1. PICK fk \in failing : ~CanCheck(fk)
    BY <1>8
  <2>2. PICK t \in tables : fk \in schema[t].foreign
    BY <1>3
  <2>3. schema \in Schemas /\ t \in Tables
    BY DEF Shape
  <2> QED
    BY <2>1, <2>2, <2>3, UncheckedIsMalformed
<1> HIDE DEF found
<1> QED
  BY <1>1, <1>5, <1>6, <1>7, <1>8
--------------------------------------------------------------------------------
(* The invariants.                                                            *)

ForeignKeyInv == Shape /\ CheckIsExact /\ FlushInv /\ SoundInv

LEMMA NothingDangles ==
  ASSUME schema \in Schemas, NEW content, \A t \in Tables : content[t] = {}
  PROVE  ~Broken(Tables, content)
BY DEF Broken, Dangling

LEMMA ForeignKeyInit == Init => ForeignKeyInv
<1> SUFFICES ASSUME Init PROVE ForeignKeyInv
  OBVIOUS
<1>1. /\ schema \in Schemas /\ rows = [t \in Tables |-> {}] /\ saved = rows
      /\ phase = "idle" /\ outcome = "none" /\ target_tables = {} /\ pending = {} /\ seen = {}
  BY DEF Init
<1>2. Shape
  BY <1>1 DEF Shape, Fits
<1>3. SoundInv
  BY <1>1, NothingDangles DEF SoundInv
<1>4. CheckIsExact
  BY <1>1 DEF CheckIsExact
<1>5. FlushInv
  BY <1>1 DEF FlushInv, Closed, FlushIsClosed, Spelled
<1> QED
  BY <1>2, <1>3, <1>4, <1>5 DEF ForeignKeyInv

\* The parts of the state that an operator reads.
LEMMA SameOperators ==
  ASSUME schema' = schema
  PROVE  /\ Tables' = Tables
         /\ \A s : Closed(s)' <=> Closed(s)
         /\ \A s : Spelled(s)' <=> Spelled(s)
         /\ \A t : Referencing(t)' = Referencing(t)
         /\ \A t, content : Fits(t, content)' <=> Fits(t, content)
         /\ \A tables, content : Broken(tables, content)' <=> Broken(tables, content)
         /\ \A fk : WellFormed(fk)' <=> WellFormed(fk)
         /\ \A n : Meant(n)' = Meant(n) /\ Real(n)' = Real(n)
<1>1. Tables' = Tables
  BY DEF Tables
<1>2. \A n : Meant(n)' = Meant(n)
  BY <1>1 DEF Meant
<1>3. ASSUME NEW n PROVE Real(n)' = Real(n)
  <2>1. Meant(n)' = Meant(n)
    BY <1>2
  <2> QED
    BY <2>1 DEF Real
<1>4. \A t : Referencing(t)' = Referencing(t)
  BY <1>1, <1>3 DEF Referencing
<1>5. \A s : Closed(s)' <=> Closed(s)
  BY <1>4 DEF Closed
<1>6. \A t, content : Fits(t, content)' <=> Fits(t, content)
  BY DEF Fits, Columns
<1>7. \A t : KeyColumns(t)' = KeyColumns(t)
  BY DEF KeyColumns
<1>8. \A fk : WellFormed(fk)' <=> WellFormed(fk)
  BY <1>2, <1>7 DEF WellFormed
<1>9. \A fk, t : Referred(fk, t)' = Referred(fk, t)
  BY DEF Referred
<1>10. \A fk, r, t, p : Refers(fk, r, t, p)' <=> Refers(fk, r, t, p)
  BY <1>9 DEF Refers
<1>11. \A t, fk, content : Dangling(t, fk, content)' = Dangling(t, fk, content)
  BY <1>2, <1>10 DEF Dangling
<1>12. \A tables, content : Broken(tables, content)' <=> Broken(tables, content)
  BY <1>11 DEF Broken
<1>13. \A s : Spelled(s)' <=> Spelled(s)
  BY <1>1, <1>2 DEF Spelled
<1> QED
  BY <1>1, <1>2, <1>3, <1>4, <1>5, <1>6, <1>8, <1>12, <1>13

LEMMA BeginEditKeeps ==
  ASSUME ForeignKeyInv, BeginEdit
  PROVE  ForeignKeyInv'
<1>1. /\ UNCHANGED <<schema, rows, roots, pending, seen, target_tables, deleting>>
      /\ saved' = rows /\ phase = "idle" /\ phase' = "edit" /\ outcome' = "none"
  BY DEF BeginEdit, graph
<1>2. Shape'
  BY <1>1, SameOperators DEF Shape, ForeignKeyInv
<1>3. CheckIsExact'
  BY <1>1 DEF CheckIsExact
<1>4. FlushInv'
  BY <1>1, SameOperators DEF FlushInv, FlushIsClosed, ForeignKeyInv
<1>5. SoundInv'
  BY <1>1, SameOperators DEF SoundInv, ForeignKeyInv
<1> QED
  BY <1>2, <1>3, <1>4, <1>5 DEF ForeignKeyInv

LEMMA EditKeeps ==
  ASSUME ForeignKeyInv, NEW t \in Tables, Edit(t)
  PROVE  ForeignKeyInv'
<1>1. /\ UNCHANGED <<schema, saved, phase, roots, pending, seen, target_tables, deleting>>
      /\ phase = "edit" /\ outcome' = "none"
  BY DEF Edit, graph
<1>2. PICK content \in Content(t) : rows' = [rows EXCEPT ![t] = content]
  BY DEF Edit
<1>3. Fits(t, content)
  <2>1. content \subseteq Row(t)
    BY DEF Content
  <2>2. ASSUME NEW r \in content
        PROVE  r \in [Columns(t) -> Value] /\ \A c \in Columns(t) : r[c] = Apply(schema[t].affinity[c], r[c])
    <3>1. r \in [Columns(t) -> Values] /\ \A c \in DOMAIN r : r[c] = Apply(schema[t].affinity[c], r[c])
      BY <2>1 DEF Row, Columns
    <3> QED
      BY <3>1, ForeignKeysAssumption
  <2> QED
    BY <2>2 DEF Fits
<1>4. Shape'
  BY <1>1, <1>2, <1>3, SameOperators DEF Shape, ForeignKeyInv
<1>5. CheckIsExact'
  BY <1>1 DEF CheckIsExact
<1>6. FlushInv'
  BY <1>1, SameOperators DEF FlushInv, FlushIsClosed, ForeignKeyInv
<1>7. SoundInv'
  BY <1>1, SameOperators DEF SoundInv, ForeignKeyInv
<1> QED
  BY <1>4, <1>5, <1>6, <1>7 DEF ForeignKeyInv

LEMMA CheckKeeps ==
  ASSUME ForeignKeyInv, NEW tables \in SUBSET Tables, Check(tables)
  PROVE  ForeignKeyInv'
<1>1. /\ UNCHANGED <<schema, rows, saved, phase, roots, pending, seen, target_tables, deleting>>
      /\ phase = "edit" /\ outcome' \in check_constraints(tables) /\ checked' = tables
  BY DEF Check, graph
<1>2. Shape'
  BY <1>1, SameOperators DEF Shape, ForeignKeyInv
<1>3. CheckIsExact'
  <2>1. /\ outcome' = "passed" => ~Broken(tables, rows)
        /\ outcome' = "violation" => Broken(tables, rows)
        /\ outcome' = "error" => \E t \in tables : \E fk \in schema[t].foreign : ~WellFormed(fk)
    BY <1>1, CheckAgrees DEF ForeignKeyInv
  <2>2. /\ Broken(tables, rows)' <=> Broken(tables, rows)
        /\ \A fk : WellFormed(fk)' <=> WellFormed(fk)
    BY <1>1, SameOperators
  <2> QED
    BY <1>1, <2>1, <2>2 DEF CheckIsExact
<1>4. FlushInv'
  BY <1>1, SameOperators DEF FlushInv, FlushIsClosed, ForeignKeyInv
<1>5. SoundInv'
  BY <1>1, SameOperators DEF SoundInv, ForeignKeyInv
<1> QED
  BY <1>2, <1>3, <1>4, <1>5 DEF ForeignKeyInv

LEMMA EndEditKeeps ==
  ASSUME ForeignKeyInv, EndEdit
  PROVE  ForeignKeyInv'
<1>1. /\ UNCHANGED <<schema, roots, pending, seen, target_tables, deleting>>
      /\ checked = Tables /\ phase' = "idle" /\ outcome' = "none"
      /\ rows' = IF outcome = "passed" THEN rows ELSE saved
      /\ saved' = rows'
  BY DEF EndEdit, graph
<1>2. Shape'
  BY <1>1, SameOperators DEF Shape, ForeignKeyInv
<1>3. CheckIsExact'
  BY <1>1 DEF CheckIsExact
<1>4. FlushInv'
  BY <1>1, SameOperators DEF FlushInv, FlushIsClosed, ForeignKeyInv
<1>5. SoundInv'
  <2>1. outcome = "passed" => ~Broken(Tables, rows)
    BY <1>1 DEF CheckIsExact, ForeignKeyInv
  <2>2. ~Broken(Tables, saved)
    BY DEF SoundInv, ForeignKeyInv
  <2> QED
    BY <1>1, <2>1, <2>2, SameOperators DEF SoundInv
<1> QED
  BY <1>2, <1>3, <1>4, <1>5 DEF ForeignKeyInv

LEMMA FlushKeeps ==
  ASSUME ForeignKeyInv, NEW tables, Flush(tables)
  PROVE  ForeignKeyInv'
<1>1. /\ UNCHANGED <<schema, rows, outcome, checked, deleting>>
      /\ phase = "idle" /\ phase' = "graph" /\ saved' = rows
      /\ target_tables' = {} /\ pending' = {} /\ seen' = {}
  BY DEF Flush
<1>2. Shape'
  BY <1>1, SameOperators DEF Shape, ForeignKeyInv
<1>3. CheckIsExact' /\ outcome' = "none"
  BY <1>1 DEF CheckIsExact, FlushInv, ForeignKeyInv
<1>4. FlushInv'
  BY <1>1, <1>3 DEF FlushInv, FlushIsClosed, Closed, Spelled
<1>5. SoundInv'
  BY <1>1, SameOperators DEF SoundInv, ForeignKeyInv
<1> QED
  BY <1>2, <1>3, <1>4, <1>5 DEF ForeignKeyInv

\* The graph is built: rows stay as they are.
LEMMA GraphKeeps ==
  ASSUME ForeignKeyInv, UNCHANGED <<schema, rows, saved, outcome, checked>>,
         phase = "graph", phase' \in {"graph", "flush"}
  PROVE  Shape' /\ CheckIsExact' /\ SoundInv' /\ outcome' = "none"
<1>1. Shape'
  BY SameOperators DEF Shape, ForeignKeyInv
<1>2. CheckIsExact' /\ outcome' = "none"
  BY DEF CheckIsExact, FlushInv, ForeignKeyInv
<1>3. SoundInv'
  BY SameOperators DEF SoundInv, ForeignKeyInv
<1> QED
  BY <1>1, <1>2, <1>3

LEMMA StartGraphKeeps ==
  ASSUME ForeignKeyInv, NEW root \in roots, StartGraph(root)
  PROVE  ForeignKeyInv'
<1>1. /\ UNCHANGED <<schema, rows, saved, phase, outcome, checked>>
      /\ phase = "graph" /\ pending = {} /\ seen' = {} /\ target_tables' = target_tables \union seen
      /\ pending' = {Real(root)}
  BY DEF StartGraph
<1>2. Closed(target_tables \union seen) /\ rows = saved
  BY <1>1 DEF ForeignKeyInv, FlushInv, Closed
<1>3. Spelled(pending' \union seen' \union target_tables')
  <2>1. Meant(Real(root)) # {} => Real(root) \in Tables
    <3>1. CASE Meant(root) = {}
      BY <3>1 DEF Real
    <3>2. CASE Meant(root) # {}
      BY <3>2, OneTable DEF ForeignKeyInv, Shape
    <3> QED
      BY <3>1, <3>2
  <2> QED
    BY <1>1, <2>1 DEF ForeignKeyInv, FlushInv, Spelled
<1>4. FlushInv'
  BY <1>1, <1>2, <1>3, SameOperators, GraphKeeps DEF FlushInv, FlushIsClosed
<1> QED
  BY <1>1, <1>4, GraphKeeps DEF ForeignKeyInv

LEMMA FollowKeeps ==
  ASSUME ForeignKeyInv, NEW t \in pending, Follow(t)
  PROVE  ForeignKeyInv'
<1>1. /\ UNCHANGED <<schema, rows, saved, phase, outcome, checked, target_tables>>
      /\ phase = "graph"
      /\ IF t \in seen THEN pending' = pending \ {t} /\ seen' = seen
         ELSE pending' = (pending \ {t}) \union Referencing(t) /\ seen' = seen \union {t}
  BY DEF Follow, Seen
<1>2. \A u \in seen' : Referencing(u) \subseteq seen' \union pending'
  <2>1. \A u \in seen : Referencing(u) \subseteq seen \union pending
    BY <1>1 DEF ForeignKeyInv, FlushInv
  <2> QED
    BY <1>1, <2>1
<1>3. Closed(target_tables) /\ rows = saved
  BY <1>1 DEF ForeignKeyInv, FlushInv
<1>4. Spelled(pending' \union seen' \union target_tables')
  <2>1. Referencing(t) \subseteq Tables
    BY DEF Referencing
  <2> QED
    BY <1>1, <2>1 DEF ForeignKeyInv, FlushInv, Spelled
<1>5. FlushInv'
  BY <1>1, <1>2, <1>3, <1>4, SameOperators, GraphKeeps DEF FlushInv, FlushIsClosed
<1> QED
  BY <1>1, <1>5, GraphKeeps DEF ForeignKeyInv

LEMMA EndGraphKeeps ==
  ASSUME ForeignKeyInv, EndGraph
  PROVE  ForeignKeyInv'
<1>1. /\ UNCHANGED <<schema, rows, saved, outcome, checked>>
      /\ phase = "graph" /\ phase' = "flush" /\ pending = {}
      /\ target_tables' = target_tables \union seen /\ deleting' = target_tables'
      /\ pending' = pending /\ seen' = seen
  BY DEF EndGraph, NothingToFollow
<1>2. Closed(target_tables \union seen) /\ rows = saved
  BY <1>1 DEF ForeignKeyInv, FlushInv, Closed
<1>3. Spelled(pending' \union seen' \union target_tables')
  BY <1>1 DEF ForeignKeyInv, FlushInv, Spelled
<1>4. FlushInv'
  BY <1>1, <1>2, <1>3, SameOperators, GraphKeeps DEF FlushInv, FlushIsClosed
<1> QED
  BY <1>1, <1>4, GraphKeeps DEF ForeignKeyInv

LEMMA FailKeeps ==
  ASSUME ForeignKeyInv, Fail, phase = "flush"
  PROVE  ForeignKeyInv'
<1>1. /\ UNCHANGED <<schema, saved, outcome, checked, roots, pending, seen, target_tables>>
      /\ phase' = "failed" /\ rows' = saved /\ deleting' = {}
  BY DEF Fail, graph
<1>2. Shape'
  BY <1>1, SameOperators DEF Shape, ForeignKeyInv
<1>3. CheckIsExact' /\ outcome' = "none"
  BY <1>1 DEF CheckIsExact, FlushInv, ForeignKeyInv
<1>4. FlushInv'
  BY <1>1, <1>3, SameOperators DEF FlushInv, FlushIsClosed, ForeignKeyInv
<1>5. SoundInv'
  BY <1>1, SameOperators DEF SoundInv, ForeignKeyInv
<1> QED
  BY <1>2, <1>3, <1>4, <1>5 DEF ForeignKeyInv

LEMMA DeleteKeeps ==
  ASSUME ForeignKeyInv, NEW n \in deleting, Delete(n)
  PROVE  ForeignKeyInv'
<1>1. phase = "flush" /\ schema \in Schemas /\ n \in target_tables /\ Closed(target_tables)
  BY DEF Delete, ForeignKeyInv, FlushInv, Shape
<1>2. PICK t \in Meant(n) :
        \/ /\ rows' = After(t)
           /\ deleting' = deleting \ {n}
           /\ UNCHANGED <<schema, saved, phase, outcome, checked, graph>>
        \/ Fail
  BY DEF Delete
<1>3. CASE Fail
  BY <1>1, <1>3, FailKeeps
<1>4. CASE /\ rows' = After(t)
           /\ deleting' = deleting \ {n}
           /\ UNCHANGED <<schema, saved, phase, outcome, checked, graph>>
  <2>1. UNCHANGED <<schema, saved, phase, outcome, checked, roots, pending, seen, target_tables>>
    BY <1>4 DEF graph
  <2>2. t \in Tables /\ n = t /\ t \in target_tables
    <3>1. t \in Tables /\ (n \in Tables => n = t)
      BY <1>1, OneTable
    <3>2. n \in Tables
      BY <1>1 DEF ForeignKeyInv, FlushInv, Spelled
    <3> QED
      BY <1>1, <3>1, <3>2
  <2>3. Shape' /\ FlushInv' /\ CheckIsExact' /\ SoundInv'
    <3>1. /\ DOMAIN rows' = Tables
          /\ rows'[t] = {}
          /\ \A u \in Tables : rows[u] = {} => rows'[u] = {}
          /\ \A u \in Tables \ target_tables : rows'[u] = rows[u]
          /\ \A u \in Tables : Fits(u, rows'[u])
      BY <1>1, <1>4, <2>2, AfterDelete DEF ForeignKeyInv
    <3>2. Shape'
      BY <2>1, <3>1, SameOperators DEF Shape, ForeignKeyInv
    <3>3. CheckIsExact' /\ outcome' = "none"
      BY <1>1, <2>1 DEF CheckIsExact, FlushInv, ForeignKeyInv
    <3>4. \A u \in Tables : /\ u \notin target_tables => rows'[u] = saved[u]
                            /\ u \in target_tables \ deleting' => rows'[u] = {}
      BY <1>1, <1>4, <2>2, <3>1 DEF ForeignKeyInv, FlushInv
    <3>5. FlushInv'
      BY <1>1, <1>4, <2>1, <3>3, <3>4, SameOperators DEF FlushInv, FlushIsClosed, ForeignKeyInv
    <3>6. SoundInv'
      BY <1>1, <2>1, SameOperators DEF SoundInv, ForeignKeyInv
    <3> QED
      BY <3>2, <3>3, <3>5, <3>6
  <2> QED
    BY <2>3 DEF ForeignKeyInv
<1> QED
  BY <1>2, <1>3, <1>4

LEMMA CommitFlushKeeps ==
  ASSUME ForeignKeyInv, CommitFlush
  PROVE  ForeignKeyInv'
<1>1. phase = "flush" /\ deleting = {}
  BY DEF CommitFlush
<1>2. CASE Fail
  BY <1>1, <1>2, FailKeeps
<1>3. CASE ~Broken(Tables, rows) /\ phase' = "flushed" /\ UNCHANGED <<schema, rows, saved, outcome, checked, graph, deleting>>
  <2>1. UNCHANGED <<schema, rows, saved, outcome, checked, roots, pending, seen, target_tables, deleting>>
    BY <1>3 DEF graph
  <2>2. Shape'
    BY <2>1, SameOperators DEF Shape, ForeignKeyInv
  <2>3. CheckIsExact' /\ outcome' = "none"
    BY <1>1, <2>1 DEF CheckIsExact, FlushInv, ForeignKeyInv
  <2>4. \A t \in Tables : rows[t] = IF t \in target_tables THEN {} ELSE saved[t]
    BY <1>1 DEF FlushInv, ForeignKeyInv
  <2>5. FlushIsClosed'
    BY <2>1, <2>4, SameOperators DEF FlushIsClosed
  <2>6. FlushInv'
    BY <1>3, <2>1, <2>3, <2>5, SameOperators DEF FlushInv, ForeignKeyInv
  <2>7. SoundInv'
    BY <1>3, <2>1, SameOperators DEF SoundInv, ForeignKeyInv
  <2> QED
    BY <2>2, <2>3, <2>6, <2>7 DEF ForeignKeyInv
<1> QED
  BY <1>2, <1>3 DEF CommitFlush

LEMMA ContinueKeeps ==
  ASSUME ForeignKeyInv, Continue
  PROVE  ForeignKeyInv'
<1>1. /\ UNCHANGED <<schema, rows, outcome, checked, deleting>>
      /\ phase \in {"flushed", "failed"} /\ phase' = "idle"
      /\ saved' = rows /\ pending' = {} /\ seen' = {} /\ target_tables' = {}
  BY DEF Continue
<1>2. Shape'
  BY <1>1, SameOperators DEF Shape, ForeignKeyInv
<1>3. CheckIsExact' /\ outcome' = "none"
  BY <1>1 DEF CheckIsExact, FlushInv, ForeignKeyInv
<1>4. FlushInv'
  BY <1>1, <1>3 DEF FlushInv, FlushIsClosed, Closed, Spelled
<1>5. SoundInv'
  BY <1>1, SameOperators DEF SoundInv, ForeignKeyInv
<1> QED
  BY <1>2, <1>3, <1>4, <1>5 DEF ForeignKeyInv

LEMMA ForeignKeyStep == ForeignKeyInv /\ [Next]_vars => ForeignKeyInv'
<1> SUFFICES ASSUME ForeignKeyInv, [Next]_vars PROVE ForeignKeyInv'
  OBVIOUS
<1>1. CASE FlushStep
  <2>1. ASSUME NEW n \in deleting, DeleteMissing(n) PROVE ForeignKeyInv'
    BY <2>1, FailKeeps DEF DeleteMissing
  <2> QED
    BY <1>1, <2>1, StartGraphKeeps, FollowKeeps, EndGraphKeeps, DeleteKeeps, CommitFlushKeeps DEF FlushStep
<1>2. CASE UNCHANGED vars
  <2>1. UNCHANGED <<schema, rows, saved, phase, outcome, checked, roots, pending, seen, target_tables, deleting>>
    BY <1>2 DEF vars, graph
  <2>2. Shape'
    BY <2>1, SameOperators DEF Shape, ForeignKeyInv
  <2>3. CheckIsExact'
    BY <2>1, SameOperators DEF CheckIsExact, ForeignKeyInv
  <2>4. FlushInv'
    BY <2>1, SameOperators DEF FlushInv, FlushIsClosed, ForeignKeyInv
  <2>5. SoundInv'
    BY <2>1, SameOperators DEF SoundInv, ForeignKeyInv
  <2> QED
    BY <2>2, <2>3, <2>4, <2>5 DEF ForeignKeyInv
<1> QED
  BY <1>1, <1>2, BeginEditKeeps, EditKeeps, CheckKeeps, EndEditKeeps, FlushKeeps, ContinueKeeps DEF Next

LEMMA ForeignKeyInvariant == Spec => []ForeignKeyInv
BY ForeignKeyInit, ForeignKeyStep, PTL DEF Spec

\* After a flush of a closed set of tables no reference dangles: what still has rows refers
\* only to what has kept them.
LEMMA FlushLeavesNothingBroken ==
  ASSUME ForeignKeyInv, phase = "flush", deleting = {}
  PROVE  ~Broken(Tables, rows)
<1> SUFFICES ASSUME NEW t \in Tables, NEW fk \in schema[t].foreign PROVE Dangling(t, fk, rows) = {}
  BY DEF Broken
<1>1. \A u \in Tables : rows[u] = IF u \in target_tables THEN {} ELSE saved[u]
  BY DEF FlushInv, ForeignKeyInv
<1>2. CASE t \in target_tables
  BY <1>1, <1>2 DEF Dangling
<1>3. CASE t \notin target_tables
  <2>1. \A u \in Meant(fk.target) : rows[u] = saved[u]
    <3>1. SUFFICES ASSUME NEW u \in Meant(fk.target), u \in target_tables PROVE FALSE
      <4>1. \A u \in Meant(fk.target) : u \in Tables
        BY DEF Meant
      <4> QED
        BY <1>1, <4>1
    <3>2. t \in Referencing(u)
      BY FoundByGraph DEF ForeignKeyInv, Shape
    <3> QED
      BY <1>3, <3>1, <3>2 DEF ForeignKeyInv, FlushInv, Closed
  <2>2. rows[t] = saved[t]
    BY <1>1, <1>3
  <2>3. Dangling(t, fk, rows) = Dangling(t, fk, saved)
    BY <2>1, <2>2 DEF Dangling
  <2>4. Dangling(t, fk, saved) = {}
    BY DEF ForeignKeyInv, SoundInv, Broken
  <2> QED
    BY <2>3, <2>4
<1> QED
  BY <1>2, <1>3

\* A flush fails only where enforcement refuses something.
LEMMA SucceedsStep == ForeignKeyInv /\ FlushSucceeds /\ [Next]_vars => FlushSucceeds'
<1> SUFFICES ASSUME ForeignKeyInv, FlushSucceeds, [Next]_vars, Deferred',
                    \A n \in target_tables' : Meant(n)' # {}, phase' = "failed"
             PROVE  FALSE
  BY DEF FlushSucceeds
<1>1. \/ UNCHANGED <<schema, phase, target_tables>>
      \/ \E n \in deleting : UNCHANGED <<schema, target_tables>> /\ Delete(n) /\ phase # "failed"
      \/ \E n \in deleting : UNCHANGED <<schema, target_tables>> /\ Meant(n) = {} /\ phase = "flush"
      \/ UNCHANGED <<schema, target_tables>> /\ Broken(Tables, rows) /\ phase = "flush" /\ deleting = {}
  <2>1. CASE FlushStep
    <3>1. ASSUME NEW n \in deleting, Delete(n) PROVE UNCHANGED <<schema, target_tables>> /\ phase # "failed"
      BY <3>1 DEF Delete, Fail, graph
    <3>2. ASSUME NEW n \in deleting, DeleteMissing(n)
          PROVE  UNCHANGED <<schema, target_tables>> /\ Meant(n) = {} /\ phase = "flush"
      BY <3>2 DEF DeleteMissing, Fail, graph
    <3>3. ASSUME CommitFlush
          PROVE  UNCHANGED <<schema, target_tables>> /\ Broken(Tables, rows) /\ phase = "flush" /\ deleting = {}
      BY <3>3 DEF CommitFlush, Fail, graph
    <3>4. ASSUME (\E root \in roots : StartGraph(root)) \/ (\E t \in pending : Follow(t)) \/ EndGraph PROVE FALSE
      BY <3>4 DEF StartGraph, Follow, EndGraph
    <3> QED
      BY <2>1, <3>1, <3>2, <3>3, <3>4 DEF FlushStep
  <2>2. CASE UNCHANGED vars
    BY <2>2 DEF vars, graph
  <2>3. ~BeginEdit /\ ~EndEdit /\ ~Continue /\ \A tables : ~Flush(tables)
    BY DEF BeginEdit, EndEdit, Continue, Flush
  <2>4. ASSUME (\E t \in Tables : Edit(t)) \/ (\E tables \in SUBSET Tables : Check(tables))
        PROVE  FALSE
    BY <2>4 DEF Edit, Check
  <2> QED
    BY <2>1, <2>2, <2>3, <2>4 DEF Next
<1>2. UNCHANGED <<schema, target_tables>>
  BY <1>1
<1>3. Deferred /\ \A n \in target_tables : Meant(n) # {}
  <2>1. Tables' = Tables /\ (\A fk : WellFormed(fk)' <=> WellFormed(fk)) /\ \A n : Meant(n)' = Meant(n)
    BY <1>2, SameOperators
  <2> QED
    BY <1>2, <2>1 DEF Deferred
<1>4. ~UNCHANGED phase
  BY <1>3 DEF FlushSucceeds
<1>5. ASSUME NEW n \in deleting, Delete(n) PROVE FALSE
  <2>1. PICK t \in Meant(n) : UNCHANGED phase \/ Refused(t) \/ MayRefuse(t)
    BY <1>5 DEF Delete
  <2>2. ~Refused(t)
    BY <1>3 DEF Deferred, Refused
  <2>3. ~MayRefuse(t)
    BY <1>3 DEF Deferred, MayRefuse
  <2> QED
    BY <1>4, <2>1, <2>2, <2>3
<1>6. ASSUME NEW n \in deleting, Meant(n) = {}, phase = "flush" PROVE FALSE
  BY <1>3, <1>6 DEF ForeignKeyInv, FlushInv
<1>7. ~(Broken(Tables, rows) /\ phase = "flush" /\ deleting = {})
  BY FlushLeavesNothingBroken
<1> QED
  BY <1>1, <1>4, <1>5, <1>6, <1>7
--------------------------------------------------------------------------------
\* check_constraints() agrees with the enforcement that it replaces, for every schema of a
\* catalogue, with composite and implicit keys and any affinities: what it lets pass holds,
\* what it reports is broken, and it fails only on a foreign key that cannot be enforced.
THEOREM CheckAgreesWithEnforcement == Spec => []CheckIsExact
<1>1. ForeignKeyInv => CheckIsExact
  BY DEF ForeignKeyInv
<1> QED
  BY <1>1, ForeignKeyInvariant, PTL

\* sql_flush() with allow_cascade empties the tables it found, whatever rows ON DELETE takes
\* along on the way, and touches no other.
THEOREM FlushStaysInside == Spec => []FlushIsClosed
<1>1. ForeignKeyInv => FlushIsClosed
  BY DEF ForeignKeyInv, FlushInv
<1> QED
  BY <1>1, ForeignKeyInvariant, PTL

\* A flush of deferred foreign keys is not refused, in any order of the tables, because the
\* reference graph is closed and nothing dangled before.
THEOREM DeferredFlushSucceeds == Spec => []FlushSucceeds
<1>1. Init => FlushSucceeds
  BY DEF Init, FlushSucceeds
<1> QED
  BY <1>1, SucceedsStep, ForeignKeyInvariant, PTL DEF Spec
================================================================================
