----------------------------- MODULE MCScanLogin -----------------------------
(* An owner, a pupil and a stranger at one page.                            *)
EXTENDS ScanLogin

CONSTANTS s1, s2, m1, m2

\* Scans differ in their names only, and so do telephone numbers that are nobody's yet: the
\* first scan is s1, and the first form has the number m1.
NamesInOrder ==
    /\ scan[s2].at # "idle" => scan[s1].at # "idle"
    /\ heap # << >> => heap[1].BasicInfo.phone # m2
=============================================================================
