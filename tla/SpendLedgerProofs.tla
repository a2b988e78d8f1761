------------------------- MODULE SpendLedgerProofs -------------------------
(***************************************************************************)
(* Theorems about the spend ledger for any number of transactions, keys,   *)
(* caps and amounts: its type, that a request key is claimed once, that    *)
(* finished rows are final, and that the cap holds.                        *)
(***************************************************************************)
EXTENDS SpendLedger, SpendBookProofs

\* A reservation runs its statements under the advisory lock.
ReadingLocked == \A c \in Clients : pc[c] # "open" => lock = c

\* A key that is missing from the table and written by a transaction is written
\* under the advisory lock: only an insert does that.
InsertLocked ==
    \A c \in Clients, k \in Keys : k \in touched[c] /\ row[k] = "NONE" => lock = c

\* A written row is locked: two transactions never write the same one.
RowsDisjoint ==
    \A c, d \in Clients : \A k \in Keys :
        k \in touched[c] /\ k \in touched[d] => c = d

\* A transaction writes only rows that are missing or reserved, and what it
\* leaves reserved was missing.
WritesOpenRows ==
    \A c \in Clients, k \in Keys : k \in touched[c] =>
        /\ newRow[c][k] # "NONE"
        /\ row[k] \in {"NONE", "RESERVED"}
        /\ newRow[c][k] = "RESERVED" => row[k] = "NONE"

\* A reservation past its first look has found no row of its key.
MissingFound ==
    \A c \in Clients : pc[c] \in {"cap", "sum", "insert"} => View(c)[want[c]] = "NONE"

IInv == /\ TypeOK
        /\ ReadingLocked
        /\ InsertLocked
        /\ RowsDisjoint
        /\ WritesOpenRows
        /\ MissingFound

-----------------------------------------------------------------------------
\* What a transaction sees is a status of a row and an amount.
LEMMA ViewType ==
    ASSUME TypeOK, NEW c \in Clients
    PROVE  /\ View(c) \in [Keys -> RowStatus]
           /\ ViewActual(c) \in [Keys -> 0..MaxActual]
BY DEF TypeOK, View, ViewActual

\* Every step keeps every variable in its type.
LEMMA TypeStep == TypeOK /\ [Next]_vars => TypeOK'
<1> SUFFICES ASSUME TypeOK, [Next]_vars PROVE TypeOK'
  OBVIOUS
<1> USE AmountsAssumption, NullAssumption DEF TypeOK
<1>1. ASSUME NEW c \in Clients, NEW k \in Keys, ReserveLock(c, k) PROVE TypeOK'
  BY <1>1 DEF ReserveLock, Goto, Reading, money, budgets, writes
<1>2. ASSUME NEW c \in Clients, ReserveExisting(c) \/ ReserveNew(c) PROVE TypeOK'
  BY <1>2 DEF ReserveExisting, ReserveNew, Goto, Reading, money, budgets, writes
<1>3. ASSUME NEW c \in Clients, ReserveReadCap(c) PROVE TypeOK'
  BY <1>3 DEF ReserveReadCap, Goto, Reading, money, budgets, writes
<1>4. ASSUME NEW c \in Clients, ReserveOverCap(c) \/ ReserveGranted(c) PROVE TypeOK'
  BY <1>4 DEF ReserveOverCap, ReserveGranted, Goto, Reading, money, budgets, writes
<1>5. ASSUME NEW c \in Clients, ReserveInsert(c) PROVE TypeOK'
  BY <1>5 DEF ReserveInsert, Write, Goto, Reading, RowStatus, money, budgets
<1>6. ASSUME NEW c \in Clients, NEW k \in Keys, NEW amount \in 0..MaxActual,
             Settle(c, k, amount)
      PROVE  TypeOK'
  BY <1>6 DEF Settle, Write, RowStatus, money, budgets, reservation
<1>7. ASSUME NEW c \in Clients, NEW k \in Keys, Release(c, k) PROVE TypeOK'
  BY <1>7 DEF Release, Write, RowStatus, money, budgets, reservation
<1>8. ASSUME NEW c \in Clients, CommitTransaction(c) PROVE TypeOK'
  <2>1. row' \in [Keys -> RowStatus] /\ actual' \in [Keys -> 0..MaxActual]
    BY <1>8, ViewType DEF CommitTransaction
  <2>2. QED
    BY <1>8, <2>1 DEF CommitTransaction, EndTransaction, RowStatus, budgets
<1>9. ASSUME NEW c \in Clients, Abort(c) PROVE TypeOK'
  BY <1>9 DEF Abort, EndTransaction, RowStatus, money, budgets
<1>10. ASSUME NEW amount \in Caps, SetCap(amount) PROVE TypeOK'
  BY <1>10 DEF SetCap, money, writes, reservation
<1>11. ASSUME UNCHANGED vars PROVE TypeOK'
  BY <1>11 DEF vars, money, budgets, writes, reservation
<1>12. QED
  BY <1>1, <1>2, <1>3, <1>4, <1>5, <1>6, <1>7, <1>8, <1>9, <1>10, <1>11 DEF Next

LEMMA TypeInit == Init => TypeOK
BY AmountsAssumption DEF Init, TypeOK, RowStatus, Reading

\* Every table, lock and statement counter stays in its type.
THEOREM TypeCorrect == Spec => []TypeOK
BY TypeInit, TypeStep, PTL DEF Spec
-----------------------------------------------------------------------------
LEMMA IInvInit == Init => IInv
<1> SUFFICES ASSUME Init PROVE IInv
  OBVIOUS
<1>1. TypeOK
  BY TypeInit
<1>2. QED
  BY <1>1 DEF Init, IInv, ReadingLocked, InsertLocked, RowsDisjoint,
              WritesOpenRows, MissingFound

\* A step of one reservation that writes nothing keeps the invariant if it stays
\* under the lock and claims a missing row only after it has seen it missing.
LEMMA ReservationStep ==
    ASSUME IInv, TypeOK', NEW c \in Clients,
           UNCHANGED <<row, actual, writes>>,
           \A d \in Clients \ {c} : pc'[d] = pc[d] /\ want'[d] = want[d],
           \A d \in Clients \ {c} : lock = d => lock' = d,
           pc'[c] # "open" => lock' = c,
           lock = c => lock' = c,
           pc'[c] \in {"cap", "sum", "insert"} => View(c)[want'[c]] = "NONE"
    PROVE  IInv'
<1>1. ReadingLocked'
  BY DEF IInv, ReadingLocked
<1>2. InsertLocked'
  BY DEF IInv, InsertLocked, writes
<1>3. RowsDisjoint' /\ WritesOpenRows'
  BY DEF IInv, RowsDisjoint, WritesOpenRows, writes
<1>4. MissingFound'
  BY DEF IInv, MissingFound, View, writes
<1>5. QED
  BY <1>1, <1>2, <1>3, <1>4 DEF IInv

\* A write by a transaction that is alone with the row, of a row that is open,
\* keeps the invariant; a missing row is written under the lock.
LEMMA WriteStep ==
    ASSUME IInv, TypeOK', NEW c \in Clients, NEW k \in Keys,
           NEW status \in {"RESERVED", "SETTLED", "RELEASED"}, NEW amount,
           Write(c, k, status, amount),
           UNCHANGED <<row, lock, want>>,
           \A d \in Clients \ {c} : k \notin touched[d],
           row[k] = "NONE" => lock = c,
           row[k] \in {"NONE", "RESERVED"},
           status = "RESERVED" => row[k] = "NONE",
           \A d \in Clients \ {c} : pc'[d] = pc[d],
           pc'[c] = "open"
    PROVE  IInv'
<1> USE DEF IInv, TypeOK, Write
<1>1. ReadingLocked'
  BY DEF ReadingLocked
<1>2. InsertLocked'
  BY DEF InsertLocked
<1>3. RowsDisjoint'
  BY DEF RowsDisjoint
<1>4. WritesOpenRows'
  BY DEF WritesOpenRows
<1>5. MissingFound'
  <2> SUFFICES ASSUME NEW d \in Clients, pc'[d] \in {"cap", "sum", "insert"}
               PROVE  View(d)'[want'[d]] = "NONE"
    BY DEF MissingFound
  <2>1. d # c /\ pc[d] = pc'[d]
    OBVIOUS
  <2>2. touched'[d] = touched[d] /\ newRow'[d] = newRow[d]
    BY <2>1
  <2>3. View(d)' = View(d)
    BY <2>2 DEF View
  <2>4. QED
    BY <2>1, <2>3 DEF MissingFound
<1>6. QED
  BY <1>1, <1>2, <1>3, <1>4, <1>5

\* The end of a transaction that writes its rows to the table, or nothing.
LEMMA EndStep ==
    ASSUME IInv, TypeOK', NEW c \in Clients, EndTransaction(c),
           row' = View(c) \/ row' = row
    PROVE  IInv'
<1> USE DEF IInv, TypeOK, EndTransaction
<1>1. \A k \in Keys : k \notin touched[c] => row'[k] = row[k]
  BY DEF View
<1>2. ReadingLocked'
  BY NullAssumption DEF ReadingLocked
<1>3. \A d \in Clients \ {c} : /\ touched'[d] = touched[d] /\ newRow'[d] = newRow[d]
                              /\ pc'[d] = pc[d] /\ want'[d] = want[d]
  OBVIOUS
<1>4. \A d \in Clients \ {c}, k \in Keys : k \in touched[d] => row'[k] = row[k]
  BY <1>1 DEF RowsDisjoint
<1>5. InsertLocked'
  BY <1>3, <1>4 DEF InsertLocked
<1>6. RowsDisjoint'
  BY <1>3 DEF RowsDisjoint
<1>7. WritesOpenRows'
  BY <1>3, <1>4 DEF WritesOpenRows
<1>8. MissingFound'
  <2> SUFFICES ASSUME NEW d \in Clients, pc'[d] \in {"cap", "sum", "insert"}
               PROVE  View(d)'[want'[d]] = "NONE"
    BY DEF MissingFound
  <2>1. d # c /\ pc[d] = pc'[d] /\ want[d] = want'[d] /\ want[d] \in Keys
    BY <1>3
  <2> DEFINE k == want[d]
  <2>2. View(d)[k] = "NONE"
    BY <2>1 DEF MissingFound
  <2>3. View(d)[k] = IF k \in touched[d] THEN newRow[d][k] ELSE row[k]
    BY <2>1 DEF View
  <2>4. View(d)[k] = "NONE" /\ k \notin touched[d] /\ row[k] = "NONE"
    BY <2>1, <2>2, <2>3 DEF WritesOpenRows
  <2>5. lock = d
    BY <2>1 DEF ReadingLocked
  <2>6. k \notin touched[c]
    BY <2>1, <2>4, <2>5 DEF InsertLocked
  <2>7. QED
    BY <1>1, <1>3, <2>1, <2>4, <2>6 DEF View
<1>9. QED
  BY <1>2, <1>5, <1>6, <1>7, <1>8

LEMMA IInvStep == IInv /\ [Next]_vars => IInv'
<1> SUFFICES ASSUME IInv, [Next]_vars PROVE IInv'
  OBVIOUS
<1>0. TypeOK /\ TypeOK'
  BY TypeStep DEF IInv
<1> USE DEF money, budgets, writes
<1>1. ASSUME NEW c \in Clients, NEW k \in Keys, ReserveLock(c, k) PROVE IInv'
  BY <1>0, <1>1, ReservationStep, NullAssumption DEF TypeOK, ReserveLock, Goto
<1>2. ASSUME NEW c \in Clients, ReserveExisting(c) PROVE IInv'
  BY <1>0, <1>2, ReservationStep DEF TypeOK, ReserveExisting, Goto
<1>3. ASSUME NEW c \in Clients, ReserveNew(c) PROVE IInv'
  BY <1>0, <1>3, ReservationStep DEF TypeOK, ReserveNew, Goto, IInv, ReadingLocked
<1>4. ASSUME NEW c \in Clients, ReserveReadCap(c) PROVE IInv'
  BY <1>0, <1>4, ReservationStep
     DEF TypeOK, ReserveReadCap, Goto, IInv, ReadingLocked, MissingFound
<1>5. ASSUME NEW c \in Clients, ReserveOverCap(c) PROVE IInv'
  BY <1>0, <1>5, ReservationStep DEF TypeOK, ReserveOverCap, Goto
<1>6. ASSUME NEW c \in Clients, ReserveGranted(c) PROVE IInv'
  BY <1>0, <1>6, ReservationStep
     DEF TypeOK, ReserveGranted, Goto, IInv, ReadingLocked, MissingFound
<1>7. ASSUME NEW c \in Clients, ReserveInsert(c) PROVE IInv'
  <2> DEFINE k == want[c]
  <2>1. k \in Keys /\ lock = c
    BY <1>0, <1>7 DEF TypeOK, ReserveInsert, IInv, ReadingLocked
  <2>2. row[k] = "NONE"
    BY <1>0, <1>7, <2>1
       DEF ReserveInsert, IInv, MissingFound, WritesOpenRows, View
  <2>3. \A d \in Clients \ {c} : k \notin touched[d]
    BY <2>1, <2>2 DEF IInv, InsertLocked
  <2>4. QED
    BY <1>0, <1>7, <2>1, <2>2, <2>3, WriteStep DEF TypeOK, ReserveInsert, Goto
<1>8. ASSUME NEW c \in Clients, NEW k \in Keys, Updatable(c, k),
             NEW status \in {"SETTLED", "RELEASED"}, NEW amount,
             Write(c, k, status, amount), UNCHANGED <<row, lock, reservation>>
      PROVE  IInv'
  <2>1. row[k] \in {"NONE", "RESERVED"} /\ (row[k] = "NONE" => lock = c)
    BY <1>0, <1>8 DEF Updatable, View, IInv, WritesOpenRows, InsertLocked
  <2>2. QED
    BY <1>0, <1>8, <2>1, WriteStep DEF Updatable, reservation
<1>9. ASSUME NEW c \in Clients, NEW k \in Keys, NEW amount \in 0..MaxActual,
             Settle(c, k, amount)
      PROVE  IInv'
  BY <1>8, <1>9 DEF Settle
<1>10. ASSUME NEW c \in Clients, NEW k \in Keys, Release(c, k) PROVE IInv'
  BY <1>8, <1>10 DEF Release
<1>11. ASSUME NEW c \in Clients, CommitTransaction(c) PROVE IInv'
  BY <1>0, <1>11, EndStep DEF CommitTransaction
<1>12. ASSUME NEW c \in Clients, Abort(c) PROVE IInv'
  BY <1>0, <1>12, EndStep DEF Abort
<1>13. ASSUME UNCHANGED <<row, lock, writes, pc, want>> PROVE IInv'
  BY <1>0, <1>13 DEF IInv, ReadingLocked, InsertLocked, RowsDisjoint,
                     WritesOpenRows, MissingFound, View
<1>14. ASSUME NEW amount \in Caps, SetCap(amount) PROVE IInv'
  BY <1>13, <1>14 DEF SetCap
<1>15. CASE UNCHANGED vars
  BY <1>13, <1>15 DEF vars, reservation
<1>16. QED
  BY <1>1, <1>2, <1>3, <1>4, <1>5, <1>6, <1>7, <1>9, <1>10, <1>11, <1>12, <1>14,
     <1>15 DEF Next

\* The invariant says that a key is claimed once.
LEMMA IInvClaims == IInv => KeyClaimedOnce
<1> SUFFICES ASSUME IInv, NEW c \in Clients, NEW k \in Keys,
                    \/ k \in touched[c] /\ newRow[c][k] = "RESERVED"
                    \/ pc[c] \in {"cap", "sum", "insert"} /\ want[c] = k
             PROVE  row[k] = "NONE" /\ \A d \in Clients \ {c} : k \notin touched[d]
  BY DEF KeyClaimedOnce
<1>1. row[k] = "NONE"
  BY DEF IInv, WritesOpenRows, MissingFound, View
<1>2. lock = c
  BY <1>1 DEF IInv, InsertLocked, ReadingLocked
<1>3. QED
  BY <1>1, <1>2 DEF IInv, InsertLocked

\* However transactions interleave, at most one of them is claiming a key, and
\* only a key that has no row yet.
THEOREM KeysClaimedOnce == Spec => []KeyClaimedOnce
BY IInvInit, IInvStep, IInvClaims, PTL DEF Spec

\* Only a commit changes the table, and only rows that were open.
LEMMA FinalStep ==
    IInv /\ [Next]_vars =>
        \A k \in Keys : row[k] \in {"SETTLED", "RELEASED"}
                        => row'[k] = row[k] /\ actual'[k] = actual[k]
<1> SUFFICES ASSUME IInv, [Next]_vars, NEW k \in Keys, row[k] \in {"SETTLED", "RELEASED"}
             PROVE  row'[k] = row[k] /\ actual'[k] = actual[k]
  OBVIOUS
<1>1. ASSUME NEW c \in Clients, CommitTransaction(c)
      PROVE  row'[k] = row[k] /\ actual'[k] = actual[k]
  <2>1. k \notin touched[c]
    BY DEF IInv, WritesOpenRows
  <2>2. QED
    BY <1>1, <2>1 DEF CommitTransaction, View, ViewActual
<1>2. CASE UNCHANGED money
  BY <1>2 DEF money
<1>3. (\E c \in Clients : CommitTransaction(c)) \/ UNCHANGED money
  BY DEF Next, vars, ReserveLock, ReserveExisting, ReserveNew, ReserveReadCap,
         ReserveOverCap, ReserveGranted, ReserveInsert, Settle, Release, Abort,
         SetCap
<1>4. QED
  BY <1>1, <1>2, <1>3

\* No later settlement, release or reservation touches a finished row.
THEOREM FinishedRowsFinal == Spec => BooksAreFinal
<1>1. IInv /\ [Next]_vars =>
        [\A k \in Keys : row[k] \in {"SETTLED", "RELEASED"}
                         => row'[k] = row[k] /\ actual'[k] = actual[k]]_vars
  BY FinalStep
<1>2. QED
  BY <1>1, IInvInit, IInvStep, PTL DEF Spec, BooksAreFinal
-----------------------------------------------------------------------------
(* The cap.  What a transaction sees is what it would commit; overruns are  *)
(* no reservation's doing, so the invariant counts what was announced.      *)

PromisedTo(c) == Promised(View(c), Estimate, ViewActual(c))

\* A cap that holds or was read has been counted as the highest, of all time and
\* since the reservation that reads it began.
CapsCounted ==
    /\ cap # NoBudget => cap <= highCap
    /\ \A c \in Clients :
          /\ heldCap[c] # NoBudget => heldCap[c] <= highCap
          /\ pc[c] = "cap" /\ cap # NoBudget => cap <= ceiling[c]
          /\ pc[c] = "look" /\ cap # NoBudget => cap <= ceiling[c]
          /\ pc[c] \in {"sum", "insert"} =>
                heldCap[c] # NoBudget /\ heldCap[c] <= ceiling[c]

\* The table is within the highest cap, and so would it be after the commit of the
\* transaction that holds the lock; the row that is about to be inserted is within
\* the cap that was read for it.
PromisesCovered ==
    /\ Promised(row, Estimate, actual) <= highCap
    /\ \A c \in Clients :
          /\ lock = c => PromisedTo(c) <= highCap
          /\ pc[c] = "insert" => PromisedTo(c) + Estimate[want[c]] <= heldCap[c]

CapInv == IInv /\ CapsCounted /\ PromisesCovered

LEMMA BooksType ==
    ASSUME TypeOK
    PROVE  /\ IsFiniteSet(Keys) /\ Estimate \in [Keys -> Nat]
           /\ row \in [Keys -> RowStatus] /\ actual \in [Keys -> Nat]
           /\ \A c \in Clients : View(c) \in [Keys -> RowStatus]
                                 /\ ViewActual(c) \in [Keys -> Nat]
           /\ highCap \in Nat /\ cap \in Nat \cup {NoBudget}
           /\ \A c \in Clients : heldCap[c] \in Nat \cup {NoBudget}
<1>1. 0 .. MaxActual \subseteq Nat
  BY AmountsAssumption
<1>2. \A c \in Clients : View(c) \in [Keys -> RowStatus] /\ ViewActual(c) \in [Keys -> Nat]
  BY <1>1, ViewType
<1>3. /\ row \in [Keys -> RowStatus] /\ actual \in [Keys -> Nat]
      /\ highCap \in Nat /\ cap \in Nat \cup {NoBudget}
  BY <1>1, AmountsAssumption DEF TypeOK
<1>4. \A c \in Clients : heldCap[c] \in Nat \cup {NoBudget}
  BY AmountsAssumption DEF TypeOK
<1>5. QED
  BY <1>2, <1>3, <1>4, AmountsAssumption, KeysAssumption

LEMMA PromisedIsNatural ==
    ASSUME TypeOK
    PROVE  /\ Promised(row, Estimate, actual) \in Nat
           /\ \A c \in Clients : PromisedTo(c) \in Nat
BY BooksType, CommittedSplits DEF PromisedTo

\* Nothing is promised in an empty table.
LEMMA CapInit == Init => CapsCounted /\ PromisesCovered
<1> SUFFICES ASSUME Init PROVE CapsCounted /\ PromisesCovered
  OBVIOUS
<1>1. TypeOK
  BY TypeInit
<1>2. CapsCounted
  BY DEF Init, CapsCounted
<1>3. Promised(row, Estimate, actual) = 0
  <2>1. [k \in DOMAIN row |-> Announced(row[k], Estimate[k], actual[k])]
          = [k \in Keys |-> IF k \in {} THEN 1 ELSE 0]
    BY DEF Init, Announced
  <2>2. SumFunction([k \in Keys |-> IF k \in {} THEN 1 ELSE 0]) = 0
    BY KeysAssumption, SumCounts, FS_EmptySet
  <2>3. QED
    BY <2>1, <2>2 DEF Promised
<1>4. QED
  BY <1>2, <1>3, NullAssumption DEF Init, PromisesCovered

\* A transaction without the lock has only settled or given back what was reserved:
\* it sees no row that announces more than the table's.
LEMMA UnlockedSeesLess ==
    ASSUME IInv, NEW c \in Clients, lock # c, NEW k \in Keys
    PROVE  Announced(View(c)[k], Estimate[k], ViewActual(c)[k])
               <= Announced(row[k], Estimate[k], actual[k])
<1>1. /\ row[k] \in RowStatus /\ Estimate[k] \in Nat /\ actual[k] \in Nat
      /\ View(c)[k] \in RowStatus /\ ViewActual(c)[k] \in Nat
  BY BooksType DEF IInv
<1>2. CASE k \notin touched[c]
  BY <1>1, <1>2, AnnouncedType DEF View, ViewActual
<1>3. CASE k \in touched[c]
  <2>1. row[k] = "RESERVED" /\ newRow[c][k] \in {"SETTLED", "RELEASED"}
    BY <1>1, <1>3 DEF IInv, InsertLocked, WritesOpenRows, View, RowStatus
  <2>2. QED
    BY <1>1, <1>3, <2>1 DEF Announced, View
<1>4. QED
  BY <1>2, <1>3

\* A step that leaves the rows alone and grants nothing.
LEMMA QuietStep ==
    ASSUME CapInv, TypeOK', CapsCounted', UNCHANGED <<money, writes>>, highCap <= highCap',
           \A c \in Clients : lock' = c => lock = c \/ PromisedTo(c) <= highCap,
           \A c \in Clients : pc'[c] = "insert" =>
               pc[c] = "insert" /\ want'[c] = want[c] /\ heldCap'[c] = heldCap[c]
    PROVE  PromisesCovered'
<1>1. /\ Promised(row, Estimate, actual)' = Promised(row, Estimate, actual)
      /\ \A c \in Clients : PromisedTo(c)' = PromisedTo(c)
  BY DEF money, writes, PromisedTo, View, ViewActual
<1>2. highCap \in Nat /\ highCap' \in Nat
  BY BooksType, AmountsAssumption DEF CapInv, IInv, TypeOK
<1>3. \A c \in Clients : pc[c] = "insert" => Estimate[want[c]] \in Nat
  BY AmountsAssumption DEF CapInv, IInv, TypeOK
<1>4. Promised(row, Estimate, actual)' <= highCap'
  BY <1>1, <1>2, PromisedIsNatural DEF CapInv, IInv, PromisesCovered
<1>5. ASSUME NEW c \in Clients, lock' = c PROVE PromisedTo(c)' <= highCap'
  BY <1>1, <1>2, <1>5, PromisedIsNatural DEF CapInv, IInv, PromisesCovered
<1>6. ASSUME NEW c \in Clients, pc'[c] = "insert"
      PROVE  PromisedTo(c)' + Estimate[want'[c]] <= heldCap'[c]
  BY <1>1, <1>2, <1>3, <1>6, PromisedIsNatural DEF CapInv, IInv, PromisesCovered
<1>7. QED
  BY <1>4, <1>5, <1>6 DEF PromisesCovered

\* A settlement or a release announces no more than the reservation did.
LEMMA FinishStep ==
    ASSUME CapInv, TypeOK', NEW c \in Clients, NEW k \in Keys,
           NEW status \in {"SETTLED", "RELEASED"}, NEW amount \in 0 .. MaxActual,
           Updatable(c, k), Write(c, k, status, amount),
           UNCHANGED <<money, budgets, lock, reservation>>
    PROVE  PromisesCovered'
<1> USE DEF money, budgets, reservation
<1>0. TypeOK
  BY DEF CapInv, IInv
<1>1. /\ View(c)'[k] = status /\ ViewActual(c)'[k] = amount
      /\ \A j \in Keys \ {k} : View(c)'[j] = View(c)[j] /\ ViewActual(c)'[j] = ViewActual(c)[j]
  BY <1>0 DEF Write, View, ViewActual, TypeOK
<1>2. \A d \in Clients \ {c} : View(d)' = View(d) /\ ViewActual(d)' = ViewActual(d)
  BY <1>0 DEF Write, View, ViewActual, TypeOK
<1>3. amount \in Nat /\ Estimate[k] \in Nat /\ View(c)[k] = "RESERVED"
      /\ \A j \in Keys : Estimate[j] \in Nat /\ ViewActual(c)[j] \in Nat
  BY <1>0, BooksType, AmountsAssumption DEF Updatable
<1>4. \A j \in Keys : Announced(View(c)'[j], Estimate[j], ViewActual(c)'[j])
                        <= Announced(View(c)[j], Estimate[j], ViewActual(c)[j])
  <2> SUFFICES ASSUME NEW j \in Keys
               PROVE  Announced(View(c)'[j], Estimate[j], ViewActual(c)'[j])
                        <= Announced(View(c)[j], Estimate[j], ViewActual(c)[j])
    OBVIOUS
  <2>1. CASE j = k
    BY <1>1, <1>3, <2>1 DEF Announced
  <2>2. CASE j # k
    BY <1>1, <1>3, <2>2, AnnouncedType
  <2>3. QED
    BY <2>1, <2>2
<1>5. PromisedTo(c)' <= PromisedTo(c)
  <2>1. /\ View(c)' \in [Keys -> RowStatus] /\ ViewActual(c)' \in [Keys -> Nat]
        /\ View(c) \in [Keys -> RowStatus] /\ ViewActual(c) \in [Keys -> Nat]
        /\ IsFiniteSet(Keys) /\ Estimate \in [Keys -> Nat]
    <3>1. 0 .. MaxActual \subseteq Nat
      BY AmountsAssumption
    <3>2. View(c)' \in [Keys -> RowStatus] /\ ViewActual(c)' \in [Keys -> 0 .. MaxActual]
      BY DEF View, ViewActual, TypeOK
    <3>3. QED
      BY <1>0, <3>1, <3>2, BooksType
  <2>2. Promised(View(c)', Estimate, ViewActual(c)')
            <= Promised(View(c), Estimate, ViewActual(c))
    BY <1>4, <2>1, PromisesKept
  <2>3. QED
    BY <2>2 DEF PromisedTo
<1>6. \A d \in Clients \ {c} : PromisedTo(d)' = PromisedTo(d)
  BY <1>2 DEF PromisedTo
<1>7. PromisedTo(c) \in Nat /\ PromisedTo(c)' \in Nat /\ highCap \in Nat
  <2>1. PromisedTo(c)' \in Nat
    <3>1. View(c)' \in [Keys -> RowStatus] /\ ViewActual(c)' \in [Keys -> 0 .. MaxActual]
      BY DEF View, ViewActual, TypeOK
    <3>2. View(c)' \in [Keys -> RowStatus] /\ ViewActual(c)' \in [Keys -> Nat]
      BY <3>1, AmountsAssumption
    <3>3. Promised(View(c)', Estimate, ViewActual(c)') \in Nat
      BY <3>2, CommittedSplits, AmountsAssumption, KeysAssumption
    <3>4. QED
      BY <3>3 DEF PromisedTo
  <2>2. QED
    BY <1>0, <2>1, PromisedIsNatural, BooksType
<1>8. pc[c] = "open"
  BY DEF Updatable
<1>9. QED
  BY <1>5, <1>6, <1>7, <1>8 DEF CapInv, PromisesCovered

\* The row that was granted is inserted.
LEMMA InsertStep ==
    ASSUME CapInv, TypeOK', NEW c \in Clients, ReserveInsert(c)
    PROVE  PromisesCovered'
<1> USE DEF money, budgets
<1> DEFINE k == want[c]
<1>0. TypeOK /\ k \in Keys /\ pc[c] = "insert" /\ Estimate[k] \in Nat
  BY AmountsAssumption DEF CapInv, IInv, TypeOK, ReserveInsert
<1>1. /\ View(c)'[k] = "RESERVED" /\ ViewActual(c)'[k] = 0
      /\ \A j \in Keys \ {k} : View(c)'[j] = View(c)[j] /\ ViewActual(c)'[j] = ViewActual(c)[j]
  BY <1>0 DEF ReserveInsert, Write, View, ViewActual, TypeOK
<1>2. \A d \in Clients \ {c} : View(d)' = View(d) /\ ViewActual(d)' = ViewActual(d)
  BY <1>0 DEF ReserveInsert, Write, View, ViewActual, TypeOK
<1> DEFINE more == [j \in Keys |-> IF j = k THEN Estimate[k] ELSE 0]
<1>3. \A j \in Keys : Announced(View(c)'[j], Estimate[j], ViewActual(c)'[j])
                        <= Announced(View(c)[j], Estimate[j], ViewActual(c)[j]) + more[j]
  <2>1. \A j \in Keys : /\ Estimate[j] \in Nat /\ ViewActual(c)[j] \in Nat
                        /\ Announced(View(c)[j], Estimate[j], ViewActual(c)[j]) \in Nat
    BY <1>0, BooksType, AnnouncedType
  <2> SUFFICES ASSUME NEW j \in Keys
               PROVE  Announced(View(c)'[j], Estimate[j], ViewActual(c)'[j])
                        <= Announced(View(c)[j], Estimate[j], ViewActual(c)[j]) + more[j]
    OBVIOUS
  <2>2. CASE j = k
    <3>1. Announced(View(c)'[j], Estimate[j], ViewActual(c)'[j]) = Estimate[k]
      BY <1>1, <2>2 DEF Announced
    <3>2. QED
      BY <1>0, <2>1, <2>2, <3>1
  <2>3. CASE j # k
    BY <1>1, <2>1, <2>3
  <2>4. QED
    BY <2>2, <2>3
<1>4. more \in [Keys -> Nat] /\ SumFunction(more) = Estimate[k]
  BY <1>0, KeysAssumption, SumOfOne
<1>5. View(c)' \in [Keys -> RowStatus] /\ ViewActual(c)' \in [Keys -> Nat]
  <2>1. View(c)' \in [Keys -> RowStatus] /\ ViewActual(c)' \in [Keys -> 0 .. MaxActual]
    BY DEF View, ViewActual, TypeOK
  <2>2. QED
    BY <2>1, AmountsAssumption
<1> HIDE DEF more, k
<1>6. PromisedTo(c)' <= PromisedTo(c) + Estimate[k]
  <2>1. /\ View(c) \in [Keys -> RowStatus] /\ ViewActual(c) \in [Keys -> Nat]
        /\ IsFiniteSet(Keys) /\ Estimate \in [Keys -> Nat]
    BY <1>0, BooksType
  <2>2. Promised(View(c)', Estimate, ViewActual(c)')
            <= Promised(View(c), Estimate, ViewActual(c)) + SumFunction(more)
    BY <1>3, <1>4, <1>5, <2>1, PromisesGrow
  <2>3. QED
    BY <1>4, <2>2 DEF PromisedTo
<1>7. PromisedTo(c)' \in Nat
  <2>1. Promised(View(c)', Estimate, ViewActual(c)') \in Nat
    BY <1>5, CommittedSplits, AmountsAssumption, KeysAssumption
  <2>2. QED
    BY <2>1 DEF PromisedTo
<1>8. PromisedTo(c)' <= highCap
  <2>1. PromisedTo(c) + Estimate[k] <= heldCap[c]
    BY <1>0 DEF CapInv, PromisesCovered, k
  <2>2. heldCap[c] <= highCap /\ heldCap[c] \in Nat /\ highCap \in Nat
    BY <1>0, BooksType DEF CapInv, CapsCounted
  <2>3. QED
    BY <1>0, <1>6, <1>7, <2>1, <2>2, PromisedIsNatural
<1>9. \A d \in Clients \ {c} : PromisedTo(d)' = PromisedTo(d) /\ pc'[d] = pc[d]
  BY <1>0, <1>2 DEF PromisedTo, ReserveInsert, Goto, TypeOK
<1>10. pc'[c] = "open"
  BY <1>0 DEF ReserveInsert, Goto, TypeOK
<1>11. QED
  BY <1>8, <1>9, <1>10 DEF CapInv, PromisesCovered, ReserveInsert

\* What a transaction writes to the table was covered under its lock, or announces
\* no more than the table did.
LEMMA CommitStep ==
    ASSUME CapInv, TypeOK', NEW c \in Clients, CommitTransaction(c)
    PROVE  PromisesCovered'
<1> USE DEF budgets
<1>0. TypeOK /\ row' = View(c) /\ actual' = ViewActual(c) /\ highCap' = highCap
  BY DEF CapInv, IInv, CommitTransaction
<1>1. /\ IsFiniteSet(Keys) /\ Estimate \in [Keys -> Nat]
      /\ row \in [Keys -> RowStatus] /\ actual \in [Keys -> Nat]
      /\ row' \in [Keys -> RowStatus] /\ actual' \in [Keys -> Nat]
      /\ highCap \in Nat
      /\ Promised(row, Estimate, actual) \in Nat
      /\ Promised(row', Estimate, actual') \in Nat
  BY <1>0, BooksType, CommittedSplits
<1>2. Promised(row', Estimate, actual') <= highCap
  <2>1. CASE lock = c
    BY <1>0, <2>1 DEF CapInv, PromisesCovered, PromisedTo
  <2>2. CASE lock # c
    <3>1. \A k \in Keys : Announced(row'[k], Estimate[k], actual'[k])
                            <= Announced(row[k], Estimate[k], actual[k])
      BY <1>0, <2>2, UnlockedSeesLess DEF CapInv
    <3>2. Promised(row', Estimate, actual') <= Promised(row, Estimate, actual)
      BY <1>1, <3>1, PromisesKept
    <3>3. QED
      BY <1>1, <3>2 DEF CapInv, PromisesCovered
  <2>3. QED
    BY <2>1, <2>2
<1>3. ASSUME NEW d \in Clients, lock' = d \/ pc'[d] = "insert"
      PROVE  /\ d # c /\ lock = d /\ pc'[d] = pc[d] /\ want'[d] = want[d]
             /\ PromisedTo(d)' <= PromisedTo(d)
             /\ PromisedTo(d) \in Nat /\ PromisedTo(d)' \in Nat
  <2>1. d # c
    BY <1>0, <1>3, NullAssumption DEF CommitTransaction, EndTransaction, TypeOK
  <2>2. /\ pc'[d] = pc[d] /\ want'[d] = want[d] /\ touched'[d] = touched[d]
        /\ newRow'[d] = newRow[d] /\ newActual'[d] = newActual[d]
    BY <1>0, <2>1 DEF CommitTransaction, EndTransaction, TypeOK
  <2>3. lock = d
    BY <1>3, <2>1, <2>2, NullAssumption
       DEF CapInv, IInv, ReadingLocked, CommitTransaction, EndTransaction
  <2>4. /\ View(d) \in [Keys -> RowStatus] /\ ViewActual(d) \in [Keys -> Nat]
        /\ View(d)' \in [Keys -> RowStatus] /\ ViewActual(d)' \in [Keys -> Nat]
    <3>1. View(d)' \in [Keys -> RowStatus] /\ ViewActual(d)' \in [Keys -> 0 .. MaxActual]
      BY DEF View, ViewActual, TypeOK
    <3>2. QED
      BY <1>0, <3>1, BooksType, AmountsAssumption
  <2>5. ASSUME NEW k \in Keys
        PROVE  Announced(View(d)'[k], Estimate[k], ViewActual(d)'[k])
                 <= Announced(View(d)[k], Estimate[k], ViewActual(d)[k])
    <3>1. CASE k \in touched[d]
      <4>1. View(d)'[k] = View(d)[k] /\ ViewActual(d)'[k] = ViewActual(d)[k]
        BY <2>2, <3>1 DEF View, ViewActual
      <4>2. Announced(View(d)[k], Estimate[k], ViewActual(d)[k]) \in Nat
        BY <1>1, <2>4, AnnouncedType
      <4>3. QED
        BY <4>1, <4>2
    <3>2. CASE k \notin touched[d]
      <4>1. /\ View(d)'[k] = View(c)[k] /\ ViewActual(d)'[k] = ViewActual(c)[k]
            /\ View(d)[k] = row[k] /\ ViewActual(d)[k] = actual[k]
        BY <1>0, <2>2, <3>2 DEF View, ViewActual
      <4>2. QED
        BY <2>1, <2>3, <4>1, UnlockedSeesLess DEF CapInv
    <3>3. QED
      BY <3>1, <3>2
  <2>6. Promised(View(d)', Estimate, ViewActual(d)')
            <= Promised(View(d), Estimate, ViewActual(d))
    BY <1>1, <2>4, <2>5, PromisesKept
  <2>7. /\ Promised(View(d), Estimate, ViewActual(d)) \in Nat
        /\ Promised(View(d)', Estimate, ViewActual(d)') \in Nat
    BY <1>1, <2>4, CommittedSplits
  <2>8. QED
    BY <2>1, <2>2, <2>3, <2>6, <2>7 DEF PromisedTo
<1>4. ASSUME NEW d \in Clients, lock' = d PROVE PromisedTo(d)' <= highCap'
  <2>1. PromisedTo(d) <= highCap
    BY <1>3, <1>4 DEF CapInv, PromisesCovered
  <2>2. QED
    BY <1>0, <1>1, <1>3, <1>4, <2>1
<1>5. ASSUME NEW d \in Clients, pc'[d] = "insert"
      PROVE  PromisedTo(d)' + Estimate[want'[d]] <= heldCap'[d]
  <2>1. PromisedTo(d) + Estimate[want[d]] <= heldCap[d]
    BY <1>3, <1>5 DEF CapInv, PromisesCovered
  <2>2. Estimate[want[d]] \in Nat /\ want'[d] = want[d]
    BY <1>0, <1>1, <1>3, <1>5 DEF TypeOK
  <2>3. heldCap'[d] = heldCap[d] /\ heldCap[d] \in Nat
    BY <1>0, <1>3, <1>5, BooksType
       DEF CapInv, CapsCounted, CommitTransaction, EndTransaction, TypeOK
  <2>4. QED
    BY <1>0, <1>1, <1>3, <1>5, <2>1, <2>2, <2>3
<1>6. QED
  BY <1>0, <1>2, <1>4, <1>5 DEF PromisesCovered

\* A cap is a number, and so is what stands for none.
LEMMA CapIsNat ==
    ASSUME NEW x PROVE /\ x \in Caps \cup {0} => x \in Nat
                       /\ x \in Caps \cup {NoBudget} => x \in Nat \cup {NoBudget}
<1>1. 0 \in Nat
  OBVIOUS
<1>2. \A y \in Caps : y \in Nat
  BY AmountsAssumption
<1>3. QED
  BY <1>1, <1>2, Zenon

LEMMA CapsStep ==
    ASSUME CapInv, TypeOK', [Next]_vars
    PROVE  CapsCounted' /\ highCap <= highCap'
<1>0. /\ highCap \in Nat /\ highCap' \in Nat /\ cap \in Nat \cup {NoBudget}
      /\ \A c \in Clients : heldCap[c] \in Nat \cup {NoBudget}
      /\ \A c \in Clients : ceiling[c] \in Nat /\ ceiling'[c] \in Nat
      /\ TypeOK /\ Caps \subseteq Nat /\ NoBudget \notin Nat
  <2>1. TypeOK /\ TypeOK' /\ Caps \subseteq Nat /\ NoBudget \notin Nat
    BY AmountsAssumption, NullAssumption DEF CapInv, IInv
  <2>2. /\ highCap \in Nat /\ highCap' \in Nat /\ cap \in Nat \cup {NoBudget}
        /\ \A c \in Clients : heldCap[c] \in Nat \cup {NoBudget}
    <3>1. /\ highCap \in Caps \cup {0} /\ highCap' \in Caps \cup {0}
          /\ cap \in Caps \cup {NoBudget}
          /\ \A c \in Clients : heldCap[c] \in Caps \cup {NoBudget}
      BY <2>1 DEF TypeOK
    <3>2. QED
      BY <3>1, CapIsNat, Zenon
  <2>3. ceiling \in [Clients -> Caps \cup {0}] /\ ceiling' \in [Clients -> Caps \cup {0}]
    BY <2>1 DEF TypeOK
  <2>4. \A c \in Clients : ceiling[c] \in Nat /\ ceiling'[c] \in Nat
    <3>1. \A c \in Clients : ceiling[c] \in Caps \cup {0} /\ ceiling'[c] \in Caps \cup {0}
      BY <2>3
    <3>2. QED
      BY <3>1, CapIsNat, Zenon
  <2>5. QED
    BY <2>1, <2>2, <2>4
<1> USE <1>0 DEF CapInv, CapsCounted, money, budgets, writes, reservation, Goto
<1>1. ASSUME NEW c \in Clients, NEW k \in Keys, ReserveLock(c, k)
      PROVE  CapsCounted' /\ highCap <= highCap'
  BY <1>1 DEF ReserveLock, TypeOK
<1>2. ASSUME NEW c \in Clients,
             \/ ReserveExisting(c) \/ ReserveNew(c) \/ ReserveOverCap(c)
             \/ ReserveGranted(c) \/ ReserveInsert(c)
      PROVE  CapsCounted' /\ highCap <= highCap'
  BY <1>2 DEF ReserveExisting, ReserveNew, ReserveOverCap, ReserveGranted,
              ReserveInsert, TypeOK
<1>3. ASSUME NEW c \in Clients, ReserveReadCap(c)
      PROVE  CapsCounted' /\ highCap <= highCap'
  BY <1>3 DEF ReserveReadCap, TypeOK
<1>4. ASSUME NEW c \in Clients, NEW k \in Keys,
             Release(c, k) \/ \E amount \in 0 .. MaxActual : Settle(c, k, amount)
      PROVE  CapsCounted' /\ highCap <= highCap'
  BY <1>4 DEF Settle, Release
<1>5. ASSUME NEW c \in Clients, CommitTransaction(c) \/ Abort(c)
      PROVE  CapsCounted' /\ highCap <= highCap'
  <2>1. /\ cap' = cap /\ highCap' = highCap
        /\ heldCap'[c] = NoBudget /\ pc'[c] = "open"
        /\ \A d \in Clients \ {c} : heldCap'[d] = heldCap[d] /\ pc'[d] = pc[d]
    BY <1>5 DEF CommitTransaction, Abort, EndTransaction, TypeOK
  <2>2. \A d \in Clients \ {c} : ceiling'[d] = ceiling[d]
    BY <1>5 DEF CommitTransaction, Abort, EndTransaction, TypeOK
  <2>3. QED
    BY <2>1, <2>2
<1>6. ASSUME NEW amount \in Caps, SetCap(amount)
      PROVE  CapsCounted' /\ highCap <= highCap'
  <2>1. /\ cap' = amount /\ amount \in Nat /\ heldCap' = heldCap /\ pc' = pc
        /\ highCap' = IF amount > highCap THEN amount ELSE highCap
    BY <1>6 DEF SetCap
  <2>2. highCap <= highCap' /\ cap' <= highCap'
    BY <2>1
  <2>3. \A d \in Clients : heldCap[d] # NoBudget => heldCap[d] <= highCap'
    BY <2>2
  <2>4. \A d \in Clients : pc[d] # "open" =>
            cap' <= ceiling'[d] /\ ceiling[d] <= ceiling'[d]
    BY <1>6, <2>1 DEF SetCap
  <2>5. ASSUME NEW d \in Clients, pc'[d] \in {"sum", "insert"}
        PROVE  heldCap'[d] # NoBudget /\ heldCap'[d] <= ceiling'[d]
    <3>1. /\ heldCap[d] # NoBudget /\ heldCap[d] <= ceiling[d] /\ heldCap[d] \in Nat
          /\ ceiling[d] <= ceiling'[d] /\ ceiling'[d] \in Nat
      BY <2>1, <2>4, <2>5 DEF TypeOK
    <3>2. QED
      BY <2>1, <3>1
  <2>6. QED
    BY <2>1, <2>2, <2>3, <2>4, <2>5
<1>7. CASE UNCHANGED vars
  BY <1>7 DEF vars
<1>8. QED
  BY <1>1, <1>2, <1>3, <1>4, <1>5, <1>6, <1>7 DEF Next

LEMMA CapStep == CapInv /\ [Next]_vars => CapInv'
<1> SUFFICES ASSUME CapInv, [Next]_vars PROVE PromisesCovered'
  BY IInvStep, CapsStep DEF CapInv, IInv
<1>0. /\ TypeOK /\ TypeOK' /\ CapsCounted' /\ highCap <= highCap'
      /\ \A c \in Clients : lock = c => PromisedTo(c) <= highCap
  BY IInvStep, CapsStep DEF CapInv, IInv, PromisesCovered
<1> USE DEF money, budgets, writes
<1>1. ASSUME NEW c \in Clients, NEW k \in Keys, ReserveLock(c, k) PROVE PromisesCovered'
  <2>1. PromisedTo(c) <= highCap
    <3>1. CASE lock = c
      BY <1>0, <3>1
    <3>2. CASE lock # c
      <4>1. \A j \in Keys : Announced(View(c)[j], Estimate[j], ViewActual(c)[j])
                              <= Announced(row[j], Estimate[j], actual[j])
        BY <3>2, UnlockedSeesLess DEF CapInv
      <4>2. Promised(View(c), Estimate, ViewActual(c)) <= Promised(row, Estimate, actual)
        BY <1>0, <4>1, BooksType, PromisesKept
      <4>3. Promised(row, Estimate, actual) <= highCap
        BY DEF CapInv, PromisesCovered
      <4>4. QED
        BY <1>0, <4>2, <4>3, PromisedIsNatural, BooksType DEF PromisedTo
    <3>3. QED
      BY <3>1, <3>2
  <2>2. \A d \in Clients : lock' = d => d = c
    BY <1>1 DEF ReserveLock
  <2>3. \A d \in Clients : pc'[d] = "insert" =>
            pc[d] = "insert" /\ want'[d] = want[d] /\ heldCap'[d] = heldCap[d]
    BY <1>0, <1>1 DEF ReserveLock, Goto, TypeOK
  <2>4. UNCHANGED <<money, writes>>
    BY <1>1 DEF ReserveLock
  <2>5. QED
    BY <1>0, <2>1, <2>2, <2>3, <2>4, QuietStep
<1>2. ASSUME NEW c \in Clients,
             ReserveExisting(c) \/ ReserveNew(c) \/ ReserveReadCap(c) \/ ReserveOverCap(c)
      PROVE  PromisesCovered'
  <2>1. \A d \in Clients : pc'[d] = "insert" =>
            pc[d] = "insert" /\ want'[d] = want[d] /\ heldCap'[d] = heldCap[d]
    BY <1>0, <1>2 DEF ReserveExisting, ReserveNew, ReserveReadCap, ReserveOverCap,
                      Goto, TypeOK
  <2>2. UNCHANGED <<money, writes, lock>>
    BY <1>2 DEF ReserveExisting, ReserveNew, ReserveReadCap, ReserveOverCap
  <2>3. QED
    BY <1>0, <2>1, <2>2, QuietStep
<1>3. ASSUME NEW c \in Clients, ReserveGranted(c) PROVE PromisesCovered'
  <2> DEFINE e == Estimate[want[c]]
  <2>1. /\ UNCHANGED <<money, writes, lock, highCap, want, heldCap>>
        /\ \A d \in Clients \ {c} : pc'[d] = pc[d]
        /\ want[c] \in Keys /\ e \in Nat
    BY <1>0, <1>3, AmountsAssumption DEF ReserveGranted, Goto, TypeOK
  <2>2. \A d \in Clients : PromisedTo(d)' = PromisedTo(d)
    BY <2>1 DEF PromisedTo, View, ViewActual
  <2>3. PromisedTo(c) <= CommittedTo(c) /\ CommittedTo(c) \in Nat
    <3>1. /\ Committed(View(c), Estimate, ViewActual(c)) =
                 Promised(View(c), Estimate, ViewActual(c))
               + Overrun(View(c), Estimate, ViewActual(c))
          /\ Promised(View(c), Estimate, ViewActual(c)) \in Nat
          /\ Overrun(View(c), Estimate, ViewActual(c)) \in Nat
      BY <1>0, BooksType, CommittedSplits
    <3>2. QED
      BY <3>1 DEF PromisedTo, CommittedTo
  <2>4. PromisedTo(c) + e <= heldCap[c]
    <3>1. CommittedTo(c) + e <= heldCap[c] /\ heldCap[c] # NoBudget
      BY <1>3 DEF ReserveGranted, CapInv, CapsCounted
    <3>2. heldCap[c] \in Nat
      BY <1>0, <3>1, BooksType
    <3>3. QED
      BY <1>0, <2>1, <2>3, <3>1, <3>2, PromisedIsNatural
  <2>5. Promised(row, Estimate, actual)' = Promised(row, Estimate, actual)
    BY <2>1
  <2>6. \A d \in Clients : pc'[d] = "insert" =>
            PromisedTo(d)' + Estimate[want'[d]] <= heldCap'[d]
    BY <2>1, <2>2, <2>4 DEF CapInv, PromisesCovered
  <2>7. QED
    BY <1>0, <2>1, <2>2, <2>5, <2>6 DEF CapInv, PromisesCovered
<1>4. ASSUME NEW c \in Clients, ReserveInsert(c) PROVE PromisesCovered'
  BY <1>0, <1>4, InsertStep
<1>5. ASSUME NEW c \in Clients, NEW k \in Keys, NEW amount \in 0 .. MaxActual,
             Settle(c, k, amount)
      PROVE  PromisesCovered'
  BY <1>0, <1>5, FinishStep DEF Settle
<1>6. ASSUME NEW c \in Clients, NEW k \in Keys, Release(c, k) PROVE PromisesCovered'
  BY <1>0, <1>6, FinishStep, AmountsAssumption DEF Release
<1>7. ASSUME NEW c \in Clients, CommitTransaction(c) PROVE PromisesCovered'
  BY <1>0, <1>7, CommitStep
<1>8. ASSUME NEW c \in Clients, Abort(c) PROVE PromisesCovered'
  <2>1. /\ UNCHANGED <<money, budgets>> /\ lock' # c
        /\ \A d \in Clients : lock' = d => lock = d
        /\ pc'[c] = "open"
    BY <1>0, <1>8, NullAssumption DEF Abort, EndTransaction, TypeOK
  <2>2. \A d \in Clients \ {c} :
            /\ touched'[d] = touched[d] /\ newRow'[d] = newRow[d]
            /\ newActual'[d] = newActual[d]
            /\ pc'[d] = pc[d] /\ want'[d] = want[d] /\ heldCap'[d] = heldCap[d]
    BY <1>0, <1>8 DEF Abort, EndTransaction, TypeOK
  <2>3. \A d \in Clients \ {c} : PromisedTo(d)' = PromisedTo(d)
    BY <2>1, <2>2 DEF PromisedTo, View, ViewActual
  <2>4. Promised(row, Estimate, actual)' = Promised(row, Estimate, actual)
    BY <2>1
  <2>5. QED
    BY <2>1, <2>2, <2>3, <2>4 DEF CapInv, PromisesCovered
<1>9. ASSUME NEW amount \in Caps, SetCap(amount) PROVE PromisesCovered'
  <2>1. UNCHANGED <<money, writes, lock, pc, want, heldCap>>
    BY <1>9 DEF SetCap
  <2>2. QED
    BY <1>0, <2>1, QuietStep
<1>10. CASE UNCHANGED vars
  BY <1>0, <1>10, QuietStep DEF vars, reservation
<1>11. QED
  BY <1>1, <1>2, <1>3, <1>4, <1>5, <1>6, <1>7, <1>8, <1>9, <1>10 DEF Next

LEMMA CapInvBounds == CapInv => SpendBounded
<1> SUFFICES ASSUME CapInv PROVE SpendBounded
  OBVIOUS
<1>1. TypeOK /\ Promised(row, Estimate, actual) <= highCap
  BY DEF CapInv, IInv, PromisesCovered
<1>2. /\ Committed(row, Estimate, actual) =
             Promised(row, Estimate, actual) + Overrun(row, Estimate, actual)
      /\ Promised(row, Estimate, actual) \in Nat /\ Overrun(row, Estimate, actual) \in Nat
  BY <1>1, BooksType, CommittedSplits
<1>3. QED
  BY <1>1, <1>2, BooksType DEF SpendBounded

\* However reservations, settlements, releases, rollbacks and moves of the cap
\* interleave, statement by statement, the scope never has more committed than the
\* highest cap it ever had, but for what providers charged above their estimates.
THEOREM SpendIsBounded == Spec => []SpendBounded
<1>1. Init => CapInv
  BY IInvInit, CapInit DEF CapInv
<1>2. QED
  BY <1>1, CapStep, CapInvBounds, PTL DEF Spec

\* What is granted fits under a cap of its own time: the sum was taken under the cap
\* that was read, and settlements that commit since then announce nothing new.
LEMMA CapInvGrants == CapInv => GrantsFitTheCap
<1> SUFFICES ASSUME CapInv, NEW c \in Clients, pc[c] = "insert"
             PROVE  CommittedTo(c) + Estimate[want[c]]
                      <= ceiling[c] + Overrun(View(c), Estimate, ViewActual(c))
  BY DEF GrantsFitTheCap
<1>1. /\ TypeOK /\ Estimate[want[c]] \in Nat /\ ceiling[c] \in Nat
      /\ PromisedTo(c) + Estimate[want[c]] <= heldCap[c]
      /\ heldCap[c] <= ceiling[c] /\ heldCap[c] \in Nat
  <2>1. TypeOK /\ want[c] \in Keys
    BY DEF CapInv, IInv, TypeOK
  <2>2. Estimate[want[c]] \in Nat
    BY <2>1, AmountsAssumption
  <2>3. ceiling \in [Clients -> Caps \cup {0}] /\ heldCap \in [Clients -> Caps \cup {NoBudget}]
    BY <2>1 DEF TypeOK
  <2>4. ceiling[c] \in Nat /\ heldCap[c] \in Nat \cup {NoBudget}
    <3>1. ceiling[c] \in Caps \cup {0} /\ heldCap[c] \in Caps \cup {NoBudget}
      BY <2>3
    <3>2. QED
      BY <3>1, CapIsNat, Zenon
  <2>5. heldCap[c] # NoBudget /\ heldCap[c] <= ceiling[c]
    BY DEF CapInv, CapsCounted
  <2>6. PromisedTo(c) + Estimate[want[c]] <= heldCap[c]
    BY DEF CapInv, PromisesCovered
  <2>7. QED
    BY <2>1, <2>2, <2>4, <2>5, <2>6
<1>2. /\ CommittedTo(c) = PromisedTo(c) + Overrun(View(c), Estimate, ViewActual(c))
      /\ PromisedTo(c) \in Nat /\ Overrun(View(c), Estimate, ViewActual(c)) \in Nat
  BY <1>1, BooksType, CommittedSplits DEF CommittedTo, PromisedTo
<1>3. QED
  BY <1>1, <1>2

\* Whatever settles between the sum of a reservation and its insert and however the
\* owner moves the cap meanwhile, the insert fits under a cap that was in force
\* since the reservation took the lock.
THEOREM GrantsFit == Spec => []GrantsFitTheCap
<1>1. Init => CapInv
  BY IInvInit, CapInit DEF CapInv
<1>2. QED
  BY <1>1, CapStep, CapInvGrants, PTL DEF Spec
=============================================================================
