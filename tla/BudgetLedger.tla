---------------------------- MODULE BudgetLedger -----------------------------
(***************************************************************************)
(* The daily budget ledger of a tenant in PostgreSQL                       *)
(* (decision/adapters/postgres_budget_ledger.py): reserve_budget runs in a *)
(* transaction that looks for the day's row FOR UPDATE, creates it if      *)
(* there is none, and adds to it otherwise.  FOR UPDATE locks a row that   *)
(* exists and nothing else, so several transactions may find none.  An     *)
(* insert waits for another's uncommitted row of the same day; one that    *)
(* finds it committed does nothing, and the call reports success all the   *)
(* same.  A transaction may fail at any point, which undoes it.            *)
(***************************************************************************)
EXTENDS Integers, FiniteSets, FiniteSetsExt

CONSTANTS BlCalls,      \* calls of reserve_budget for one day
          BlAmount,     \* the amount of every call
          BlBudget,     \* daily_budget_usd (5000.00)
          BlNobody      \* no transaction

ASSUME BlAmountAssumption == BlAmount \in [BlCalls -> Nat]
ASSUME BlBudgetAssumption == BlBudget \in Nat
ASSUME BlNobodyAssumption == BlNobody \notin BlCalls

VARIABLES blReserved,   \* reserved_usd of the row, BlNoRow if there is none
          blVersion,    \* its version
          blLock,       \* the transaction that holds the row
          blPending,    \* the transaction with an uncommitted row
          blPhase,      \* where every call is
          blSeen,       \* what each call read: reserved_usd and version
          blFirst       \* history: the call that created the row

blVars == <<blReserved, blVersion, blLock, blPending, blPhase, blSeen, blFirst>>

BlNoRow == -1

BlInit == /\ blReserved = BlNoRow
          /\ blVersion = 0
          /\ blLock = BlNobody
          /\ blPending = BlNobody
          /\ blPhase = [c \in BlCalls |-> "new"]
          /\ blSeen = [c \in BlCalls |-> [reserved |-> 0, version |-> 0]]
          /\ blFirst = BlNobody

\* No row is visible: the call goes on to insert one.
BlFindNone(c) == /\ blPhase[c] = "new"
                 /\ blReserved = BlNoRow
                 /\ blPhase' = [blPhase EXCEPT ![c] = "absent"]
                 /\ UNCHANGED <<blReserved, blVersion, blLock, blPending, blSeen, blFirst>>

\* The row is locked, when nobody else has it, and read as it was committed last.
BlFind(c) == /\ blPhase[c] = "new"
             /\ blReserved # BlNoRow
             /\ blLock = BlNobody
             /\ blLock' = c
             /\ blSeen' = [blSeen EXCEPT ![c] = [reserved |-> blReserved, version |-> blVersion]]
             /\ blPhase' = [blPhase EXCEPT ![c] = "found"]
             /\ UNCHANGED <<blReserved, blVersion, blPending, blFirst>>

\* The insert of a row with the amount already reserved, unchecked.
BlInsert(c) == /\ blPhase[c] = "absent"
               /\ blReserved = BlNoRow
               /\ blPending = BlNobody
               /\ blPending' = c
               /\ blPhase' = [blPhase EXCEPT ![c] = "inserted"]
               /\ UNCHANGED <<blReserved, blVersion, blLock, blSeen, blFirst>>

BlCommitInsert(c) == /\ blPhase[c] = "inserted"
                     /\ blPending' = BlNobody
                     /\ blReserved' = BlAmount[c]
                     /\ blVersion' = 1
                     /\ blFirst' = c
                     /\ blPhase' = [blPhase EXCEPT ![c] = "granted"]
                     /\ UNCHANGED <<blLock, blSeen>>

\* ON CONFLICT DO NOTHING: another call's row is there, and nothing is reserved.
BlConflict(c) == /\ blPhase[c] = "absent"
                 /\ blReserved # BlNoRow
                 /\ blPhase' = [blPhase EXCEPT ![c] = "unrecorded"]
                 /\ UNCHANGED <<blReserved, blVersion, blLock, blPending, blSeen, blFirst>>

\* Mutant: the headroom is the day's budget.
BlFitsBudget(c) == BlAmount[c] <= BlBudget

\* The headroom as it was read (nothing ever sets spent_usd).
BlFits(c) == BlAmount[c] <= BlBudget - blSeen[c].reserved

\* The row is updated if it has the version that was read, and the transaction commits.
BlUpdate(c) == /\ blPhase[c] = "found"
               /\ BlFits(c)
               /\ blVersion = blSeen[c].version
               /\ blReserved' = blReserved + BlAmount[c]
               /\ blVersion' = blVersion + 1
               /\ blLock' = BlNobody
               /\ blPhase' = [blPhase EXCEPT ![c] = "granted"]
               /\ UNCHANGED <<blPending, blSeen, blFirst>>

\* ERR_BUDGET_EXCEEDED, a version that has changed, or a failure: the transaction is undone.
BlUndo(c) == /\ blPhase[c] \in {"absent", "found", "inserted"}
             /\ blLock' = IF blLock = c THEN BlNobody ELSE blLock
             /\ blPending' = IF blPending = c THEN BlNobody ELSE blPending
             /\ blPhase' = [blPhase EXCEPT ![c] = "refused"]
             /\ UNCHANGED <<blReserved, blVersion, blSeen, blFirst>>

BlNext == \E c \in BlCalls : \/ BlFindNone(c) \/ BlFind(c) \/ BlInsert(c) \/ BlCommitInsert(c)
                             \/ BlConflict(c) \/ BlUpdate(c) \/ BlUndo(c)

BlSpec == BlInit /\ [][BlNext]_blVars

-----------------------------------------------------------------------------
BlTypeOK == /\ blReserved \in Nat \cup {BlNoRow}
            /\ blVersion \in Nat
            /\ blLock \in BlCalls \cup {BlNobody}
            /\ blPending \in BlCalls \cup {BlNobody}
            /\ blPhase \in [BlCalls -> {"new", "absent", "found", "inserted", "granted",
                                        "unrecorded", "refused"}]
            /\ blSeen \in [BlCalls -> [reserved : Nat, version : Nat]]
            /\ blFirst \in BlCalls \cup {BlNobody}

BlGranted == {c \in BlCalls : blPhase[c] = "granted"}

\* The row is within the budget unless the amount that created it was beyond, and a call that
\* holds the row has read it as it is.
BlWithinBudget ==
    /\ blReserved # BlNoRow => blReserved <= BlBudget \/ blReserved = BlAmount[blFirst]
    /\ \A c \in BlCalls : blPhase[c] = "found" => blSeen[c] = [reserved |-> blReserved, version |-> blVersion]

\* However the transactions interleave, what is reserved stays within the budget, but for the
\* amount that created the row, which is compared with nothing; and it is the sum of what was
\* granted to the calls that created the row or found it (postgres_budget_ledger.py:35-95).
\* A call that found no row, and then another's, was granted what no row records.
BlReservedFits ==
    /\ BlWithinBudget
    /\ blReserved # BlNoRow => blReserved = MapThenSumSet(LAMBDA c : BlAmount[c], BlGranted)
=============================================================================
