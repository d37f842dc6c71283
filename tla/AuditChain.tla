----------------------------- MODULE AuditChain ------------------------------
(***************************************************************************)
(* The audit log of one tenant in PostgreSQL                               *)
(* (finops/adapters/postgres_audit_log.py) as the API's audit middleware   *)
(* appends to it after every mutating request                              *)
(* (apps/api/middleware/audit.py).  An append takes its time and its       *)
(* identifier, waits for a connection, reads the hash of the latest event  *)
(* and inserts its own: nothing locks, no transaction spans the two.       *)
(*                                                                         *)
(* The identifier is the second and the correlation id, which a caller     *)
(* may repeat; a repeated identifier, like any database error, fails the   *)
(* insert, which the middleware only logs.  An event's hash is the append  *)
(* that made it, since it covers the identifier.  Times are distinct and   *)
(* in the order in which they are taken (one clock).                       *)
(***************************************************************************)
EXTENDS Naturals, FiniteSets

CONSTANTS AcAppends,      \* calls of append_event
          AcCorrelation,  \* the correlation id of each
          AcGenesis,      \* the hash before the first event
          AcMaxSeconds    \* bound: seconds that pass

ASSUME AcMaxSecondsAssumption == AcMaxSeconds \in Nat
ASSUME AcGenesisAssumption == AcGenesis \notin AcAppends

VARIABLES acPhase,        \* where every append is
          acTime,         \* occurred_at
          acSecond,       \* the second in its identifier
          acPrevious,     \* previous_event_hash
          acNow,          \* appends that have taken their time
          acClock,        \* the current second
          acMet           \* history: the appends in flight together with each

acVars == <<acPhase, acTime, acSecond, acPrevious, acNow, acClock, acMet>>

AcInit == /\ acPhase = [a \in AcAppends |-> "new"]
          /\ acTime = [a \in AcAppends |-> 0]
          /\ acSecond = [a \in AcAppends |-> 0]
          /\ acPrevious = [a \in AcAppends |-> AcGenesis]
          /\ acNow = 0
          /\ acClock = 0
          /\ acMet = [a \in AcAppends |-> {}]

AcInFlight == {a \in AcAppends : acPhase[a] \in {"timed", "read"}}
AcStored == {a \in AcAppends : acPhase[a] = "stored"}

\* The identifier and occurred_at are taken.
AcBegin(a) ==
    /\ acPhase[a] = "new"
    /\ acPhase' = [acPhase EXCEPT ![a] = "timed"]
    /\ acNow' = acNow + 1
    /\ acTime' = [acTime EXCEPT ![a] = acNow + 1]
    /\ acSecond' = [acSecond EXCEPT ![a] = acClock]
    /\ acMet' = [b \in AcAppends |-> IF b = a THEN AcInFlight
                                     ELSE IF b \in AcInFlight THEN acMet[b] \cup {a} ELSE acMet[b]]
    /\ UNCHANGED <<acPrevious, acClock>>

AcNextSecond == /\ acClock < AcMaxSeconds
                /\ acClock' = acClock + 1
                /\ UNCHANGED <<acPhase, acTime, acSecond, acPrevious, acNow, acMet>>

\* Mutant: the order of the query is ascending.
AcOldest(S) == CHOOSE a \in S : \A b \in S : acTime[a] <= acTime[b]

\* The event of S that occurred last.
AcLatest(S) == CHOOSE a \in S : \A b \in S : acTime[b] <= acTime[a]

AcRead(a) ==
    /\ acPhase[a] = "timed"
    /\ acPhase' = [acPhase EXCEPT ![a] = "read"]
    /\ acPrevious' = [acPrevious EXCEPT ![a] = IF AcStored = {} THEN AcGenesis ELSE AcLatest(AcStored)]
    /\ UNCHANGED <<acTime, acSecond, acNow, acClock, acMet>>

AcSameId(a, b) == acSecond[a] = acSecond[b] /\ AcCorrelation[a] = AcCorrelation[b]

AcInsert(a) ==
    /\ acPhase[a] = "read"
    /\ \A b \in AcStored : ~AcSameId(a, b)
    /\ acPhase' = [acPhase EXCEPT ![a] = "stored"]
    /\ UNCHANGED <<acTime, acSecond, acPrevious, acNow, acClock, acMet>>

\* A statement fails, or the identifier is taken: the request is answered, the event is lost.
AcLose(a) ==
    /\ acPhase[a] \in {"timed", "read"}
    /\ acPhase' = [acPhase EXCEPT ![a] = "lost"]
    /\ UNCHANGED <<acTime, acSecond, acPrevious, acNow, acClock, acMet>>

AcNext == \/ \E a \in AcAppends : AcBegin(a) \/ AcRead(a) \/ AcInsert(a) \/ AcLose(a)
          \/ AcNextSecond

AcSpec == AcInit /\ [][AcNext]_acVars

-----------------------------------------------------------------------------
AcTypeOK == /\ acPhase \in [AcAppends -> {"new", "timed", "read", "stored", "lost"}]
            /\ acTime \in [AcAppends -> Nat]
            /\ acSecond \in [AcAppends -> 0..AcMaxSeconds]
            /\ acPrevious \in [AcAppends -> AcAppends \cup {AcGenesis}]
            /\ acNow \in Nat
            /\ acClock \in 0..AcMaxSeconds
            /\ acMet \in [AcAppends -> SUBSET AcAppends]

\* The events stored before a, in the order of the log.
AcBefore(a) == {b \in AcStored : acTime[b] < acTime[a]}

\* The chain breaks only where appends overlap: an event that was appended while no other
\* append was in flight is chained to the event before it in the log, whatever other appends
\* forked or were lost, and no event is chained to one that is not stored
\* (postgres_audit_log.py:43-88, ordered by occurred_at while the inserts come in any order).
AcForksNeedOverlap ==
    \A a \in AcStored :
        /\ acPrevious[a] \in AcStored \cup {AcGenesis}
        /\ acMet[a] = {} =>
              IF AcBefore(a) = {} THEN acPrevious[a] = AcGenesis
              ELSE /\ acPrevious[a] \in AcBefore(a)
                   /\ \A b \in AcBefore(a) : acTime[b] <= acTime[acPrevious[a]]
=============================================================================
