----------------------------- MODULE MCTaskSync -----------------------------
(***************************************************************************)
(* Instances of TaskSync and Discipline: initproc and one or two user      *)
(* processes.                                                              *)
(***************************************************************************)
EXTENDS Discipline, TLC

CONSTANTS i0, m0, m1, t1, t2, p0, p1, a, b

\* Processes ini and p0; p0 may create the threads t1 and t2.
ProcOfOne == (i0 :> InitProc) @@ (m0 :> p0) @@ (t1 :> p0) @@ (t2 :> p0)
MainOfOne == (InitProc :> i0) @@ (p0 :> m0)
OwnerOfOne == (a :> p0) @@ (b :> p0)

\* Processes ini, p0 with a second thread and an object, and p1 with neither.
ProcOfTwo == (i0 :> InitProc) @@ (m0 :> p0) @@ (t1 :> p0) @@ (m1 :> p1)
MainOfTwo == (InitProc :> i0) @@ (p0 :> m0) @@ (p1 :> m1)
OwnerOfTwo == (a :> p0)

\* The two created threads, and the two objects, of p0 are interchangeable.
Symmetric == Permutations({t1, t2}) \cup Permutations({a, b})
=============================================================================
