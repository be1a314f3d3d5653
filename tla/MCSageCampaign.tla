-------------------------- MODULE MCSageCampaign --------------------------
EXTENDS SageCampaign

CONSTANTS k1, k2, k3, t1, t2, f1, f2

\* Scenarios 1 and 2 are near duplicates; 3 is of another family.
MCFamily == [s \in 1..N |-> IF s = 3 THEN f2 ELSE f1]
\* k1 may show everywhere, k2 in all but the first scenario, and k3, which
\* is recorded without a birth, in the first.
MCObservable == [s \in 1..N |-> IF s = 1 THEN {k1, k3} ELSE {k1, k2}]
\* t2 is the broader helper for k2 and routed to the last scenario only.
MCRoutes == [s \in 1..N |-> IF s = 3 THEN {t1, t2} ELSE {t1}]
MCSuggested == [k \in {k1, k2, k3} |-> IF k = k1 THEN t1 ELSE t2]
MCBroader == [k \in {k1, k2, k3} |-> IF k = k1 THEN {} ELSE {t1}]
\* The generator of k1 does not always use the suggested name.
MCProducible == [k \in {k1, k2, k3} |-> IF k = k1 THEN {t1, t2} ELSE {t2}]
MCRequiredFamilies == [k \in {k1, k2, k3} |-> 2]
============================================================================
