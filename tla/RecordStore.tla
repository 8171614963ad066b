----------------------------- MODULE RecordStore ------------------------------
(***************************************************************************)
(* What a data table (src/ec_dbtable.h) promises: the records of each tag  *)
(* by key, and a copy of them on disk that follows record by record.  What *)
(* a call answers is what it has done to the records.                      *)
(***************************************************************************)
EXTENDS Naturals, FiniteSets

CONSTANTS Tags, Keys, Vals

NoRec == 0   \* not a value

VARIABLES store,   \* [Tags -> [Keys -> value or NoRec]], what query finds
          saved,   \* the same after the process has died
          reply    \* the last call and its answer

svars == <<store, saved, reply>>

Init ==
    /\ store \in [Tags -> [Keys -> Vals \union {NoRec}]]
    /\ saved = store
    /\ reply = [call |-> "none"]

\* What is on disk of a record is what was there, or what the record was
\* before the step, or is after it.
Follows ==
    LET was == <<saved, store, store'>>
        is == saved'
    IN  \A t \in Tags : \A k \in Keys : is[t][k] \in {was[i][t][k] : i \in 1..3}

Keep == UNCHANGED store

\* The n lowest of the keys in S.
Lowest(S, n) == {k \in S : Cardinality({j \in S : j < k}) < n}

\* The records of tag t become those of new, the others stay.
Change(t, new(_)) ==
    LET was == store
        is == store'
    IN  \A u \in Tags : \A k \in Keys : is[u][k] = IF u = t THEN new(k) ELSE was[u][k]

\* insert, insertfast: the first n of the records in put are stored.  With
\* reuse, records below all of them may be given up, the oldest first.
Put ==
    LET w == reply'.put
        stored == Lowest(DOMAIN w, reply'.n)
        was == store[reply'.tag]
    IN  /\ reply'.call = "put"
        /\ IF reply'.n < 0 THEN Keep
           ELSE /\ reply'.n >= 1
                /\ \E low \in {0} \union (IF reply'.reuse THEN Keys ELSE {}) :
                     /\ \A k \in DOMAIN w : low <= k
                     /\ Change(reply'.tag, LAMBDA k : IF k \in stored THEN w[k]
                                                      ELSE IF k < low THEN NoRec ELSE was[k])
        /\ Follows

\* deleterecord: 0 when there was a record, 1 when there was none.
Delete ==
    LET was == store[reply'.tag] IN
    /\ reply'.call = "delete"
    /\ reply'.n = IF was[reply'.key] = NoRec THEN 1 ELSE 0
    /\ Change(reply'.tag, LAMBDA k : IF k = reply'.key THEN NoRec ELSE was[k])
    /\ Follows

DeleteTag ==
    /\ reply'.call = "deletetag"
    /\ Change(reply'.tag, LAMBDA k : NoRec)
    /\ saved'[reply'.tag] = [k \in Keys |-> NoRec]
    /\ Follows

Crash ==
    /\ reply' = [call |-> "none"]
    /\ store' = saved /\ saved' = saved

Next ==
    \/ Put \/ Delete \/ DeleteTag \/ Crash
    \/ UNCHANGED reply /\ Keep /\ Follows

Spec == Init /\ [][Next]_svars
=============================================================================
