----------------------------- MODULE IssueLedger -----------------------------
(***************************************************************************)
(* What the operator promises of its obituaries, whatever its caches,      *)
(* retries, restarts and concurrent instances do: every change of an       *)
(* obituary is one of four atomic updates of the version it replaces.  In  *)
(* particular no update is lost or applied to a stale version: the count   *)
(* goes up by exactly one per counted death, the first sighting is kept,   *)
(* and two successive counts never name the same crash.                    *)
(***************************************************************************)
EXTENDS ObituaryStatus

VARIABLE ledger     \* issue -> status of its obituary

LedgerTypeOK == ledger \in [Issues -> Statuses]

LedgerInit == ledger = [i \in Issues |-> Unset("Absent")]

Becomes(i, s) == ledger' = [ledger EXCEPT ![i] = s]

\* An obituary comes into being with an empty status.
Open(i) ==
    /\ ledger[i].phase = "Absent"
    /\ Becomes(i, Unset("Created"))

\* One more death, other than the one counted last.  What is counted is read
\* off the new status.
Count(i) ==
    LET old == ledger[i]
        new == ledger'[i]
    IN  /\ old.phase # "Absent"
        /\ new.lastEpisode \in Episodes \ {old.lastEpisode}
        /\ new.confidence \in Grades
        /\ Becomes(i, [phase        |-> "Complete",
                       occurrences  |-> old.occurrences + 1,
                       firstSeen    |-> IF old.occurrences = 0 THEN new.lastEpisode
                                                               ELSE old.firstSeen,
                       lastEpisode  |-> new.lastEpisode,
                       confidence   |-> new.confidence,
                       healAttempts |-> << >>])

\* One more entry of the audit trail, and nothing else.
Note(i) ==
    /\ ledger[i].phase # "Absent"
    /\ \E o \in Outcomes : Becomes(i, Noted(ledger[i], o))

\* Somebody deletes the obituary.
Drop(i) == ledger[i].phase # "Absent" /\ Becomes(i, Unset("Absent"))

LedgerNext == \E i \in Issues : Open(i) \/ Count(i) \/ Note(i) \/ Drop(i)

LedgerSpec == LedgerInit /\ [][LedgerNext]_ledger
=============================================================================
