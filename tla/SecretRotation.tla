--------------------------- MODULE SecretRotation ---------------------------
(***************************************************************************)
(* The credential broker's secrets and token cache                         *)
(* (security/secrets/broker.py) and the rotation sessions over them        *)
(* (rotation.py), for the secrets of one tenant, one scope and audience    *)
(* that are granted, and one provider.                                     *)
(*                                                                         *)
(* A version of a secret is who made it: "none", <<"reg", k>> for its k-th *)
(* registration, or a rotation session.  Two sessions may carry the same   *)
(* version number, which no code reads again.                              *)
(*                                                                         *)
(* Nothing locks the records.  validate_and_commit_rotation calls out to   *)
(* the provider (canary_validator) between the test of its session and the *)
(* promotion, and everything may happen during that call; the other        *)
(* methods call nobody and are one action each.  A session may be          *)
(* validated twice (SrMaxCalls).                                           *)
(*                                                                         *)
(* purge_cache takes the cache keys apart at ":" and compares the second   *)
(* part with the reference, so it finds the tokens of SrPlain references   *)
(* only; "vault://secret/x" is a reference it never finds.                 *)
(***************************************************************************)
EXTENDS Naturals

CONSTANTS SrRefs,           \* secret references
          SrPlain,          \* those without a colon
          SrSessions,       \* rotation sessions
          SrOf,             \* the secret of every session
          SrMaxRegistered,  \* bound: registrations of a reference
          SrMaxCalls        \* bound: canary calls of a session at a time

ASSUME SrPlainAssumption == SrPlain \subseteq SrRefs
ASSUME SrOfAssumption == SrOf \in [SrSessions -> SrRefs]
ASSUME SrBoundsAssumption == SrMaxRegistered \in Nat /\ SrMaxCalls \in Nat

VARIABLES srStatus,      \* status of every record, "absent" before it is registered
          srCurrent,     \* envelope of every record
          srPrevious,    \* previous_envelope of every record
          srRegistered,  \* registrations of every reference
          srToken,       \* cached token: the version it was issued from, or "none"
          srOutage,      \* _outage_mode
          srSession,     \* status of every session
          srCalls,       \* canary calls in flight, by session
          srLeft         \* history: tokens that were cached when their secret was registered again

srVars == <<srStatus, srCurrent, srPrevious, srRegistered, srToken, srOutage,
            srSession, srCalls, srLeft>>

srRecords == <<srStatus, srCurrent, srPrevious, srRegistered>>
srRotations == <<srSession, srCalls>>

SrNone == <<"none", 0>>
SrByRegistration(k) == <<"reg", k>>
SrBySession(s) == <<"rot", s>>
SrVersions == {SrNone} \cup {SrByRegistration(k) : k \in 1..SrMaxRegistered}
              \cup {SrBySession(s) : s \in SrSessions}

SrInit == /\ srStatus = [r \in SrRefs |-> "absent"]
          /\ srCurrent = [r \in SrRefs |-> SrNone]
          /\ srPrevious = [r \in SrRefs |-> SrNone]
          /\ srRegistered = [r \in SrRefs |-> 0]
          /\ srToken = [r \in SrRefs |-> SrNone]
          /\ srOutage = FALSE
          /\ srSession = [s \in SrSessions |-> "unused"]
          /\ srCalls = [s \in SrSessions |-> 0]
          /\ srLeft = {}

\* Mutant: the purge compares the reference with the whole cache key.
SrPurgeNothing(r) == srToken

\* purge_cache of one secret: only keys that split into three parts are recognised.
SrPurge(r) == IF r \in SrPlain THEN [srToken EXCEPT ![r] = SrNone] ELSE srToken

\* register_secret replaces whatever record the reference had and leaves the cache.
SrRegister(r) ==
    /\ srRegistered[r] < SrMaxRegistered
    /\ srRegistered' = [srRegistered EXCEPT ![r] = @ + 1]
    /\ srStatus' = [srStatus EXCEPT ![r] = "ACTIVE"]
    /\ srCurrent' = [srCurrent EXCEPT ![r] = SrByRegistration(srRegistered[r] + 1)]
    /\ srPrevious' = [srPrevious EXCEPT ![r] = SrNone]
    /\ srLeft' = IF srToken[r] # SrNone THEN srLeft \cup {r} ELSE srLeft
    /\ UNCHANGED <<srToken, srOutage, srRotations>>

\* The tests get_scoped_token makes before it looks at the cache.
SrServes(r) == ~srOutage /\ srStatus[r] \notin {"absent", "REVOKED"}

\* A cached token is returned; only a new one changes anything.
SrIssue(r) ==
    /\ SrServes(r)
    /\ srToken[r] = SrNone
    /\ srToken' = [srToken EXCEPT ![r] = srCurrent[r]]
    /\ srLeft' = srLeft \ {r}
    /\ UNCHANGED <<srOutage, srRecords, srRotations>>

\* A token reaches its fifteen minutes, which counts as having none.
SrExpire(r) ==
    /\ srToken[r] # SrNone
    /\ srToken' = [srToken EXCEPT ![r] = SrNone]
    /\ srLeft' = srLeft \ {r}
    /\ UNCHANGED <<srOutage, srRecords, srRotations>>

SrOutageTurns == srOutage' = ~srOutage /\ UNCHANGED <<srToken, srLeft, srRecords, srRotations>>

SrInitiate(s) ==
    /\ srSession[s] = "unused"
    /\ srStatus[SrOf[s]] \notin {"absent", "REVOKED"}
    /\ srStatus' = [srStatus EXCEPT ![SrOf[s]] = "ROTATING"]
    /\ srSession' = [srSession EXCEPT ![s] = "INITIATED"]
    /\ UNCHANGED <<srCurrent, srPrevious, srRegistered, srToken, srOutage, srCalls, srLeft>>

\* validate_and_commit_rotation up to the provider call; a committed session
\* returns at once and a rolled back one raises.
SrValidate(s) ==
    /\ srSession[s] = "INITIATED"
    /\ srCalls[s] < SrMaxCalls
    /\ srCalls' = [srCalls EXCEPT ![s] = @ + 1]
    /\ UNCHANGED <<srToken, srOutage, srLeft, srRecords, srSession>>

\* The canary accepts (or there is none): the new version is promoted, whatever has become of
\* the session and the secret in the meantime, and the cached tokens are purged.
SrPromote(s) ==
    LET r == SrOf[s] IN
    /\ srCalls[s] > 0
    /\ srCalls' = [srCalls EXCEPT ![s] = @ - 1]
    /\ srPrevious' = [srPrevious EXCEPT ![r] = srCurrent[r]]
    /\ srCurrent' = [srCurrent EXCEPT ![r] = SrBySession(s)]
    /\ srStatus' = [srStatus EXCEPT ![r] = "ACTIVE"]
    /\ srSession' = [srSession EXCEPT ![s] = "COMMITTED"]
    /\ srToken' = SrPurge(r)
    /\ srLeft' = IF srToken' = srToken THEN srLeft ELSE srLeft \ {r}
    /\ UNCHANGED <<srRegistered, srOutage>>

\* Mutant: rollback does not look at the status.
SrMayRollBackAnything(s) == srSession[s] # "unused"

\* rollback_rotation refuses a committed session and nothing else.
SrMayRollBack(s) == srSession[s] \in {"INITIATED", "ROLLED_BACK"}

\* The session ends and the record is ACTIVE, whatever it was.
SrAbort(s) == IF SrMayRollBack(s)
              THEN /\ srStatus' = [srStatus EXCEPT ![SrOf[s]] = "ACTIVE"]
                   /\ srSession' = [srSession EXCEPT ![s] = "ROLLED_BACK"]
              ELSE UNCHANGED <<srStatus, srSession>>

\* The canary refuses or raises: rollback, whose own refusal is raised instead.
SrReject(s) ==
    /\ srCalls[s] > 0
    /\ srCalls' = [srCalls EXCEPT ![s] = @ - 1]
    /\ SrAbort(s)
    /\ UNCHANGED <<srCurrent, srPrevious, srRegistered, srToken, srOutage, srLeft>>

SrRollBack(s) ==
    /\ srSession[s] # "unused"
    /\ SrAbort(s)
    /\ UNCHANGED <<srCurrent, srPrevious, srRegistered, srToken, srOutage, srCalls, srLeft>>

SrRevoke(r) ==
    /\ srStatus[r] # "absent"
    /\ srStatus' = [srStatus EXCEPT ![r] = "REVOKED"]
    /\ srToken' = SrPurge(r)
    /\ srLeft' = IF srToken' = srToken THEN srLeft ELSE srLeft \ {r}
    /\ UNCHANGED <<srCurrent, srPrevious, srRegistered, srOutage, srRotations>>

SrNext == \/ \E r \in SrRefs : SrRegister(r) \/ SrIssue(r) \/ SrExpire(r) \/ SrRevoke(r)
          \/ \E s \in SrSessions : \/ SrInitiate(s) \/ SrValidate(s) \/ SrPromote(s)
                                   \/ SrReject(s) \/ SrRollBack(s)
          \/ SrOutageTurns

SrSpec == SrInit /\ [][SrNext]_srVars

-----------------------------------------------------------------------------
SrTypeOK == /\ srStatus \in [SrRefs -> {"absent", "ACTIVE", "ROTATING", "REVOKED"}]
            /\ srCurrent \in [SrRefs -> SrVersions]
            /\ srPrevious \in [SrRefs -> SrVersions]
            /\ srRegistered \in [SrRefs -> 0..SrMaxRegistered]
            /\ srToken \in [SrRefs -> SrVersions]
            /\ srOutage \in BOOLEAN
            /\ srSession \in [SrSessions -> {"unused", "INITIATED", "COMMITTED", "ROLLED_BACK"}]
            /\ srCalls \in [SrSessions -> 0..SrMaxCalls]
            /\ srLeft \subseteq SrRefs

\* No token outlives the version it was issued from, nor its secret's revocation, however
\* commits, rollbacks and revocations overtake each other during the provider's call: a cached
\* token of a plain reference is of the current version of a secret that is not revoked, or
\* was cached before its secret was registered again (rotation.py:153-173, :202-212;
\* broker.py:272-301 serves the cache, :303-331 purges it).
SrCacheIsCurrent ==
    \A r \in SrPlain : srToken[r] # SrNone /\ r \notin srLeft
                          => srToken[r] = srCurrent[r] /\ srStatus[r] # "REVOKED"

\* A committed session stays committed, although a second validation of it may be answered by
\* the provider after the first one was: the late refusal is turned down by rollback_rotation
\* twice over, once in the handler of the other's exception (rotation.py:137-151, :184-185).
SrCommittedStays ==
    [][\A s \in SrSessions : srSession[s] = "COMMITTED" => srSession'[s] = "COMMITTED"]_srVars
=============================================================================
