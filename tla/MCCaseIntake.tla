---------------------------- MODULE MCCaseIntake ----------------------------
(* A form with two court stages and a second client party, submitted three *)
(* times, a pool of two connections, and another user who sets the status, *)
(* changes and removes parties, assigns and unassigns, or deletes the case.*)
EXTENDS CaseIntake

CONSTANTS t1, t2, n1, n2, n3, c1, c2, p1, m1, s1, other, u1

MCTxs == {t1, t2}
MCSubmissions == {n1, n2, n3}
MCCourts == {c1, c2}
MCParties == {p1}
MCMembers == {}
MCTypeOf == [p \in MCParties |-> "CLIENT"]
MCUserOf == [m \in MCMembers |-> u1]
MCUsers == {u1}
MCOthers == {other}
MCSenders == (MCSubmissions \X (MCCourts \cup MCParties \cup MCMembers \cup {s1})) \cup {other}
MCTargets == {"SUSPENDED"}
=============================================================================
