---------------------------- MODULE SpendLedger ----------------------------
(***************************************************************************)
(* The provider spend ledger of one scope: sv_reserve_provider_spend,      *)
(* sv_settle_provider_spend and sv_release_provider_spend of migration     *)
(* 0062, called inside concurrent transactions, and the owner who moves    *)
(* the cap.  The functions are volatile PL/pgSQL under READ COMMITTED, so  *)
(* each of their statements sees what is committed when it starts, plus    *)
(* the writes of its own transaction.  A reservation is four statements:   *)
(* the look for an existing row, the cap, the sum, the insert; one         *)
(* advisory lock, kept until the transaction ends, serialises them.        *)
(* Settling and releasing are one UPDATE each and take only the row.       *)
(***************************************************************************)
EXTENDS SpendBook, FiniteSets

CONSTANTS Clients,      \* transactions that use the scope
          Keys,         \* request keys of the scope
          Estimate,     \* what the request of each key asks to reserve
          MaxActual,    \* bound on what a provider charges
          Caps,         \* the caps the owner ever sets
          NoBudget,     \* the scope has no budget row
          NoClient, NoKey

ASSUME KeysAssumption == IsFiniteSet(Keys)
ASSUME AmountsAssumption ==
    /\ Estimate \in [Keys -> Nat]
    /\ MaxActual \in Nat
    /\ Caps \subseteq Nat
ASSUME NullAssumption ==
    NoClient \notin Clients /\ NoKey \notin Keys /\ NoBudget \notin Nat

VARIABLES row, actual,  \* committed rows: status and settled amount
          cap,          \* cap_usd of the scope's budget row, or NoBudget
          highCap,      \* history: the highest cap there has been
          lock,         \* holder of the scope's advisory lock
          touched,      \* rows each open transaction has written (and locked)
          newRow, newActual,  \* what it wrote there
          pc, want,     \* statement of its reservation, and the key
          heldCap,      \* the cap its reservation has read
          ceiling       \* history: the highest cap there has been since the
                        \* reservation took the lock

money == <<row, actual>>
budgets == <<cap, highCap>>
writes == <<touched, newRow, newActual>>
reservation == <<pc, want, heldCap, ceiling>>
vars == <<money, budgets, lock, writes, reservation>>

Reading == {"look", "cap", "sum", "insert"}

TypeOK ==
    /\ row \in [Keys -> RowStatus]
    /\ actual \in [Keys -> 0..MaxActual]
    /\ cap \in Caps \cup {NoBudget}
    /\ highCap \in Caps \cup {0}
    /\ lock \in Clients \cup {NoClient}
    /\ touched \in [Clients -> SUBSET Keys]
    /\ newRow \in [Clients -> [Keys -> RowStatus]]
    /\ newActual \in [Clients -> [Keys -> 0..MaxActual]]
    /\ pc \in [Clients -> Reading \cup {"open"}]
    /\ want \in [Clients -> Keys \cup {NoKey}]
    /\ heldCap \in [Clients -> Caps \cup {NoBudget}]
    /\ ceiling \in [Clients -> Caps \cup {0}]
    /\ \A c \in Clients : pc[c] # "open" => want[c] \in Keys

Init ==
    /\ row = [k \in Keys |-> "NONE"]
    /\ actual = [k \in Keys |-> 0]
    /\ cap = NoBudget /\ highCap = 0
    /\ lock = NoClient
    /\ touched = [c \in Clients |-> {}]
    /\ newRow = [c \in Clients |-> [k \in Keys |-> "NONE"]]
    /\ newActual = [c \in Clients |-> [k \in Keys |-> 0]]
    /\ pc = [c \in Clients |-> "open"]
    /\ want = [c \in Clients |-> NoKey]
    /\ heldCap = [c \in Clients |-> NoBudget]
    /\ ceiling = [c \in Clients |-> 0]

-----------------------------------------------------------------------------
\* The rows a statement of transaction c sees.
View(c) == [k \in Keys |-> IF k \in touched[c] THEN newRow[c][k] ELSE row[k]]
ViewActual(c) ==
    [k \in Keys |-> IF k \in touched[c] THEN newActual[c][k] ELSE actual[k]]
CommittedTo(c) == Committed(View(c), Estimate, ViewActual(c))

Goto(c, label) == pc' = [pc EXCEPT ![c] = label]

\* Transaction c writes row k and keeps it locked.
Write(c, k, status, amount) ==
    /\ touched' = [touched EXCEPT ![c] = @ \cup {k}]
    /\ newRow' = [newRow EXCEPT ![c][k] = status]
    /\ newActual' = [newActual EXCEPT ![c][k] = amount]

\* A bug to catch: the function without its advisory lock.
ReserveUnlocked(c, k) ==
    /\ pc[c] = "open"
    /\ want' = [want EXCEPT ![c] = k]
    /\ Goto(c, "look")
    /\ ceiling' = [ceiling EXCEPT ![c] = IF cap = NoBudget THEN 0 ELSE cap]
    /\ UNCHANGED <<money, budgets, lock, writes, heldCap>>

\* pg_advisory_xact_lock: others wait, the holder itself passes again.
ReserveLock(c, k) ==
    /\ pc[c] = "open"
    /\ lock \in {NoClient, c}
    /\ lock' = c
    /\ want' = [want EXCEPT ![c] = k]
    /\ ceiling' = [ceiling EXCEPT ![c] = IF cap = NoBudget THEN 0 ELSE cap]
    /\ Goto(c, "look")
    /\ UNCHANGED <<money, budgets, writes, heldCap>>

\* A key that has a row rides on it, whatever its status.
ReserveExisting(c) ==
    /\ pc[c] = "look"
    /\ View(c)[want[c]] # "NONE"
    /\ Goto(c, "open")
    /\ UNCHANGED <<money, budgets, lock, writes, want, heldCap, ceiling>>

ReserveNew(c) ==
    /\ pc[c] = "look"
    /\ View(c)[want[c]] = "NONE"
    /\ Goto(c, "cap")
    /\ UNCHANGED <<money, budgets, lock, writes, want, heldCap, ceiling>>

\* A bug to catch: the cap is read once and kept for the transaction.
ReserveReadCapOnce(c) ==
    LET known == IF heldCap[c] = NoBudget THEN cap ELSE heldCap[c]
    IN  /\ pc[c] = "cap"
        /\ heldCap' = [heldCap EXCEPT ![c] = known]
        /\ Goto(c, IF known = NoBudget THEN "open" ELSE "sum")
        /\ UNCHANGED <<money, budgets, lock, writes, want, ceiling>>

ReserveReadCap(c) ==
    /\ pc[c] = "cap"
    /\ heldCap' = [heldCap EXCEPT ![c] = cap]
    /\ Goto(c, IF cap = NoBudget THEN "open" ELSE "sum")
    /\ UNCHANGED <<money, budgets, lock, writes, want, ceiling>>

ReserveOverCap(c) ==
    /\ pc[c] = "sum"
    /\ CommittedTo(c) + Estimate[want[c]] > heldCap[c]
    /\ Goto(c, "open")
    /\ UNCHANGED <<money, budgets, lock, writes, want, heldCap, ceiling>>

ReserveGranted(c) ==
    /\ pc[c] = "sum"
    /\ CommittedTo(c) + Estimate[want[c]] <= heldCap[c]
    /\ Goto(c, "insert")
    /\ UNCHANGED <<money, budgets, lock, writes, want, heldCap, ceiling>>

ReserveInsert(c) ==
    /\ pc[c] = "insert"
    /\ Write(c, want[c], "RESERVED", 0)
    /\ Goto(c, "open")
    /\ UNCHANGED <<money, budgets, lock, want, heldCap, ceiling>>

\* A bug to catch: an UPDATE without its "and status = 'reserved'".
UpdatableAgain(c, k) ==
    /\ pc[c] = "open"
    /\ \A d \in Clients \ {c} : k \notin touched[d]
    /\ View(c)[k] # "NONE"

\* An UPDATE waits for the transaction that has the row and then looks again.
Updatable(c, k) ==
    /\ pc[c] = "open"
    /\ \A d \in Clients \ {c} : k \notin touched[d]
    /\ View(c)[k] = "RESERVED"

Settle(c, k, amount) ==
    /\ Updatable(c, k)
    /\ Write(c, k, "SETTLED", amount)
    /\ UNCHANGED <<money, budgets, lock, reservation>>

Release(c, k) ==
    /\ Updatable(c, k)
    /\ Write(c, k, "RELEASED", 0)
    /\ UNCHANGED <<money, budgets, lock, reservation>>

-----------------------------------------------------------------------------
\* The end of a transaction releases its rows and the advisory lock.
EndTransaction(c) ==
    /\ touched' = [touched EXCEPT ![c] = {}]
    /\ newRow' = [newRow EXCEPT ![c] = [k \in Keys |-> "NONE"]]
    /\ newActual' = [newActual EXCEPT ![c] = [k \in Keys |-> 0]]
    /\ lock' = IF lock = c THEN NoClient ELSE lock
    /\ pc' = [pc EXCEPT ![c] = "open"]
    /\ want' = [want EXCEPT ![c] = NoKey]
    /\ heldCap' = [heldCap EXCEPT ![c] = NoBudget]
    /\ ceiling' = [ceiling EXCEPT ![c] = 0]

CommitTransaction(c) ==
    /\ pc[c] = "open"
    /\ row' = View(c)
    /\ actual' = ViewActual(c)
    /\ EndTransaction(c)
    /\ UNCHANGED budgets

\* A caller that throws, a lost connection, a deadlock victim.
Abort(c) ==
    /\ EndTransaction(c)
    /\ UNCHANGED <<money, budgets>>

\* The owner's upsert of the budget row.
SetCap(amount) ==
    /\ cap' = amount
    /\ highCap' = IF amount > highCap THEN amount ELSE highCap
    /\ ceiling' = [c \in Clients |-> IF pc[c] # "open" /\ amount > ceiling[c]
                                     THEN amount ELSE ceiling[c]]
    /\ UNCHANGED <<money, lock, writes, pc, want, heldCap>>

Next ==
    \/ \E c \in Clients, k \in Keys : ReserveLock(c, k)
    \/ \E c \in Clients : ReserveExisting(c)
    \/ \E c \in Clients : ReserveNew(c)
    \/ \E c \in Clients : ReserveReadCap(c)
    \/ \E c \in Clients : ReserveOverCap(c)
    \/ \E c \in Clients : ReserveGranted(c)
    \/ \E c \in Clients : ReserveInsert(c)
    \/ \E c \in Clients, k \in Keys, amount \in 0..MaxActual : Settle(c, k, amount)
    \/ \E c \in Clients, k \in Keys : Release(c, k)
    \/ \E c \in Clients : CommitTransaction(c)
    \/ \E c \in Clients : Abort(c)
    \/ \E amount \in Caps : SetCap(amount)

Spec == Init /\ [][Next]_vars

-----------------------------------------------------------------------------
\* However reservations, settlements, releases, rollbacks and moves of the cap
\* interleave, the scope never has more committed than the highest cap it ever
\* had, save for what providers charged above what was reserved for them: the
\* count-then-spend race the comment of migration 0062 names cannot happen.
SpendBounded ==
    Committed(row, Estimate, actual) <= highCap + Overrun(row, Estimate, actual)

\* A cap that is lowered takes effect at the next reservation, not at the next
\* transaction: what is about to be inserted fits, beside everything its transaction
\* sees, under a cap that was in force since it took the lock, although settlements
\* commit between its sum and its insert and the owner moves the cap without
\* the lock.
GrantsFitTheCap ==
    \A c \in Clients : pc[c] = "insert" =>
        CommittedTo(c) + Estimate[want[c]]
            <= ceiling[c] + Overrun(View(c), Estimate, ViewActual(c))

\* The unique constraint of the table is never what stops a second reservation
\* of a key: a transaction that has inserted a key, or has found it missing and
\* is on its way to insert it, is alone with it, and no committed row has it.
KeyClaimedOnce ==
    \A c \in Clients, k \in Keys :
        (k \in touched[c] /\ newRow[c][k] = "RESERVED")
            \/ (pc[c] \in {"cap", "sum", "insert"} /\ want[c] = k)
        => /\ row[k] = "NONE"
           /\ \A d \in Clients \ {c} : k \notin touched[d]

\* Money already spent is never rewritten, and budget given back stays given
\* back: a settled or released row is never touched by a later settlement,
\* release or reservation, even one that waited for the row.
BooksAreFinal ==
    [][\A k \in Keys : row[k] \in {"SETTLED", "RELEASED"}
                       => row'[k] = row[k] /\ actual'[k] = actual[k]]_vars
=============================================================================
