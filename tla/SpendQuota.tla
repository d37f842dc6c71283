----------------------------- MODULE SpendQuota -----------------------------
(***************************************************************************)
(* The quota manager of finops/quota.py for one tenant: a policy with a    *)
(* limit and two counters, and the reservation tokens.  Every method runs  *)
(* under one lock and is one action.  Amounts are small integers.          *)
(*                                                                         *)
(* Time is what as_of_time says; a token is overdue from some point on     *)
(* (QtLapse), which matters to finalize_spend only.  Setting the policy    *)
(* replaces it, counters and all, and leaves the tokens.                   *)
(***************************************************************************)
EXTENDS Integers, FiniteSets, FiniteSetsExt

CONSTANTS QtTokens,       \* reservations that are made
          QtAmounts,      \* estimated and actual amounts
          QtLimits,       \* limits an administrator sets
          QtDefault,      \* the limit of a tenant without a policy (1000.00)
          QtCap,          \* the limit a policy puts on the one bounded dimension
          QtMaxSettings   \* bound: times the policy is set

ASSUME QtAmountsAssumption == QtAmounts \subseteq Nat /\ QtLimits \subseteq Nat /\ QtDefault \in Nat
ASSUME QtBoundsAssumption == QtCap \in Nat /\ QtMaxSettings \in Nat

VARIABLES qtLimit,        \* hard_spend_limit_usd, QtUnset before there is a policy
          qtReserved,     \* reserved_spend_usd
          qtCommitted,    \* committed_spend_usd
          qtToken,        \* state of every token
          qtAmount,       \* reserved_amount of every token
          qtOverdue,      \* tokens whose expires_at has passed
          qtUsage,        \* current_dimension_usage of that dimension
          qtSettings,     \* counter of the bound
          qtForgiven,     \* history: tokens that were open when the policy was set
          qtOverrun       \* history: what was spent beyond the estimates since then

qtVars == <<qtLimit, qtReserved, qtCommitted, qtToken, qtAmount, qtOverdue, qtUsage,
            qtSettings, qtForgiven, qtOverrun>>

QtUnset == -1

QtInit == /\ qtLimit = QtUnset
          /\ qtReserved = 0
          /\ qtCommitted = 0
          /\ qtToken = [t \in QtTokens |-> "unused"]
          /\ qtAmount = [t \in QtTokens |-> 0]
          /\ qtOverdue = {}
          /\ qtUsage = 0
          /\ qtSettings = 0
          /\ qtForgiven = {}
          /\ qtOverrun = 0

QtOpen == {t \in QtTokens : qtToken[t] = "open"}
QtTotal(S) == MapThenSumSet(LAMBDA t : qtAmount[t], S)

\* Mutant: the counters of the old policy are kept.
QtSetPolicyKeeping(limit) ==
    /\ qtSettings < QtMaxSettings
    /\ qtSettings' = qtSettings + 1
    /\ qtLimit' = limit
    /\ qtUsage' = 0
    /\ qtForgiven' = QtOpen
    /\ qtOverrun' = 0
    /\ UNCHANGED <<qtReserved, qtCommitted, qtToken, qtAmount, qtOverdue>>

QtSetPolicy(limit) ==
    /\ qtSettings < QtMaxSettings
    /\ qtSettings' = qtSettings + 1
    /\ qtLimit' = limit
    /\ qtUsage' = 0
    /\ qtReserved' = 0
    /\ qtCommitted' = 0
    /\ qtForgiven' = QtOpen
    /\ qtOverrun' = 0
    /\ UNCHANGED <<qtToken, qtAmount, qtOverdue>>

\* get_quota_policy: a tenant without a policy gets the default one.
QtLimit == IF qtLimit = QtUnset THEN QtDefault ELSE qtLimit

\* The amount is compared with what is left of the limit, then reserved.
QtReserve(t, est) ==
    /\ qtToken[t] = "unused"
    /\ est > 0
    /\ QtLimit - (qtReserved + qtCommitted) >= est
    /\ qtLimit' = QtLimit
    /\ qtReserved' = qtReserved + est
    /\ qtToken' = [qtToken EXCEPT ![t] = "open"]
    /\ qtAmount' = [qtAmount EXCEPT ![t] = est]
    /\ UNCHANGED <<qtCommitted, qtOverdue, qtUsage, qtSettings, qtForgiven, qtOverrun>>

\* A lookup, a refused reservation or a check of an unbounded dimension: the default
\* policy is left behind.
QtLookUp == /\ qtLimit = QtUnset
            /\ qtLimit' = QtLimit
            /\ UNCHANGED <<qtReserved, qtCommitted, qtToken, qtAmount, qtOverdue, qtUsage,
                           qtSettings, qtForgiven, qtOverrun>>

\* Mutant: the usage is compared before it is raised.
QtCountFirst == /\ qtSettings > 0
                /\ qtUsage <= QtCap
                /\ qtUsage' = qtUsage + 1
                /\ UNCHANGED <<qtLimit, qtReserved, qtCommitted, qtToken, qtAmount, qtOverdue,
                               qtSettings, qtForgiven, qtOverrun>>

\* check_rate_limit of a dimension the policy bounds; the default policy bounds none.
QtCount == /\ qtSettings > 0
           /\ qtUsage + 1 <= QtCap
           /\ qtUsage' = qtUsage + 1
           /\ UNCHANGED <<qtLimit, qtReserved, qtCommitted, qtToken, qtAmount, qtOverdue,
                          qtSettings, qtForgiven, qtOverrun>>

\* The reservation of t ends in state s and its amount is given back.
QtSettle(t, s) == /\ qtReserved' = qtReserved - qtAmount[t]
                  /\ qtToken' = [qtToken EXCEPT ![t] = s]
                  /\ UNCHANGED <<qtLimit, qtAmount, qtOverdue, qtUsage, qtSettings, qtForgiven>>

\* finalize_spend in time; of a token that is finalized already it does nothing,
\* of a released one it raises.
QtFinalize(t, actual) ==
    /\ qtToken[t] = "open"
    /\ t \notin qtOverdue
    /\ qtCommitted' = qtCommitted + actual
    /\ qtOverrun' = qtOverrun + (IF actual > qtAmount[t] THEN actual - qtAmount[t] ELSE 0)
    /\ QtSettle(t, "finalized")

\* finalize_spend too late: the amount is given back, the spend is not recorded.
QtFinalizeLate(t) ==
    /\ qtToken[t] = "open"
    /\ t \in qtOverdue
    /\ QtSettle(t, "released")
    /\ UNCHANGED <<qtCommitted, qtOverrun>>

QtRelease(t) == /\ qtToken[t] = "open"
                /\ QtSettle(t, "released")
                /\ UNCHANGED <<qtCommitted, qtOverrun>>

QtLapse(t) == /\ qtToken[t] = "open"
              /\ t \notin qtOverdue
              /\ qtOverdue' = qtOverdue \cup {t}
              /\ UNCHANGED <<qtLimit, qtReserved, qtCommitted, qtToken, qtAmount, qtUsage,
                             qtSettings, qtForgiven, qtOverrun>>

QtNext == \/ \E limit \in QtLimits : QtSetPolicy(limit)
          \/ \E t \in QtTokens, a \in QtAmounts : QtReserve(t, a) \/ QtFinalize(t, a)
          \/ QtLookUp \/ QtCount
          \/ \E t \in QtTokens : QtFinalizeLate(t) \/ QtRelease(t) \/ QtLapse(t)

QtSpec == QtInit /\ [][QtNext]_qtVars

-----------------------------------------------------------------------------
QtTypeOK == /\ qtLimit \in Int
            /\ qtReserved \in Int
            /\ qtCommitted \in Nat
            /\ qtToken \in [QtTokens -> {"unused", "open", "finalized", "released"}]
            /\ qtAmount \in [QtTokens -> Nat]
            /\ qtOverdue \subseteq QtTokens
            /\ qtUsage \in 0..QtCap
            /\ qtSettings \in 0..QtMaxSettings
            /\ qtForgiven \subseteq QtTokens
            /\ qtOverrun \in Nat

\* The tokens that were open at the last setting of the policy and are settled: their
\* amounts were given back to counters that never had them.
QtRefunded == {t \in qtForgiven : qtToken[t] # "open"}

\* What is reserved and committed is within the limit, but for what was spent beyond the
\* estimates; nothing is counted before there is a policy.
QtWithinLimit == IF qtLimit = QtUnset THEN qtReserved = 0 /\ qtCommitted = 0
                 ELSE qtReserved + qtCommitted <= qtLimit + qtOverrun

\* The counters add up through every mix of late commits, releases and new policies: what is
\* reserved is what the open tokens of this policy hold, less what tokens of an earlier policy
\* gave back, and the limit holds for it up to what was spent beyond the estimates
\* (quota.py:79-93, :104-146, :148-188).
QtBooksBalance ==
    /\ qtReserved = QtTotal(QtOpen \ qtForgiven) - QtTotal(QtRefunded)
    /\ QtWithinLimit
=============================================================================
