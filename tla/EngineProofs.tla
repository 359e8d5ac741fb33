------------------------------ MODULE EngineProofs -----------------------------
(******************************************************************************)
(* What the statements of TursoEngine do to its state: the lemmas that the    *)
(* proofs about its users, TursoTransactions and SchemaEditor, share.         *)
(******************************************************************************)
EXTENDS TursoEngine, TLAPS

(* Typing: every statement keeps EngineTypeOK.                                 *)

LEMMA BecomeType ==
  ASSUME EngineTypeOK, NEW S, NEW status \in Status
  PROVE  Become(S, status) \in [Work -> Status]
  BY DEF EngineTypeOK, Become

LEMMA EngineType ==
  ASSUME EngineTypeOK
  PROVE  /\ UNCHANGED engine => EngineTypeOK'
         /\ \A tx \in BOOLEAN : Statement(tx) => EngineTypeOK'
         /\ \A W : \A tx \in BOOLEAN : Write(W, tx) => EngineTypeOK'
         /\ \A s \in Nat : Savepoint(s) => EngineTypeOK'
         /\ \A s : Release(s) \/ RollbackTo(s) => EngineTypeOK'
         /\ \A status \in Status : EndTransaction(status) => EngineTypeOK'
<1>1. UNCHANGED engine => EngineTypeOK'
  BY DEF EngineTypeOK, engine
<1>2. ASSUME NEW tx \in BOOLEAN, Statement(tx) PROVE EngineTypeOK'
  BY <1>2 DEF EngineTypeOK, Statement
<1>3. ASSUME NEW W, NEW tx \in BOOLEAN, Write(W, tx) PROVE EngineTypeOK'
  <2>1. work' \in [Work -> Status]
    BY <1>3, BecomeType DEF Write, Status
  <2>2. under' \in [Work -> SUBSET Nat]
    BY <1>3 DEF EngineTypeOK, Write
  <2> QED
    BY <1>3, <2>1, <2>2 DEF EngineTypeOK, Write
<1>4. ASSUME NEW s \in Nat, Savepoint(s) PROVE EngineTypeOK'
  BY <1>4 DEF EngineTypeOK, Savepoint
<1>5. ASSUME NEW s, Release(s) \/ RollbackTo(s) PROVE EngineTypeOK'
  <2>1. work' \in [Work -> Status]
    BY <1>5, BecomeType DEF EngineTypeOK, Release, RollbackTo, Status
  <2> QED
    BY <1>5, <2>1 DEF EngineTypeOK, Release, RollbackTo
<1>6. ASSUME NEW status \in Status, EndTransaction(status) PROVE EngineTypeOK'
  <2>1. work' \in [Work -> Status]
    BY <1>6, BecomeType DEF EndTransaction
  <2> QED
    BY <1>6, <2>1 DEF EngineTypeOK, EndTransaction
<1> QED
  BY <1>1, <1>2, <1>3, <1>4, <1>5, <1>6

(* The fate of work: what each statement that may change it makes of it.       *)

LEMMA WorkAfter ==
  /\ \A W : \A tx \in BOOLEAN : Write(W, tx) =>
       \A w \in Work : work'[w] = (IF w \in W THEN (IF tx THEN "open" ELSE "committed") ELSE work[w])
  /\ \A s : RollbackTo(s) =>
       \A w \in Work : work'[w] = (IF work[w] = "open" /\ s \in under[w] THEN "undone" ELSE work[w])
  /\ \A status : EndTransaction(status) =>
       \A w \in Work : work'[w] = (IF work[w] = "open" THEN status ELSE work[w])
<1>1. ASSUME NEW W, NEW tx \in BOOLEAN, Write(W, tx)
      PROVE  \A w \in Work : work'[w] = (IF w \in W THEN (IF tx THEN "open" ELSE "committed") ELSE work[w])
  BY <1>1 DEF Write, Become
<1>2. ASSUME NEW s, RollbackTo(s)
      PROVE  \A w \in Work : work'[w] = (IF work[w] = "open" /\ s \in under[w] THEN "undone" ELSE work[w])
  BY <1>2 DEF RollbackTo, Become, Open
<1>3. ASSUME NEW status, EndTransaction(status)
      PROVE  \A w \in Work : work'[w] = (IF work[w] = "open" THEN status ELSE work[w])
  BY <1>3 DEF EndTransaction, Become, Open
<1> QED
  BY <1>1, <1>2, <1>3
================================================================================
