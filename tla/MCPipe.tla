------------------------------- MODULE MCPipe -------------------------------
(* Instances of Pipe: a process that calls sys_pipe and a child it may fork. *)
EXTENDS Pipe, TLC

CONSTANTS p, c, m, n, u

\* The parent p may create the thread u; the child c has its main thread only.
ProcOfThree == (m :> p) @@ (u :> p) @@ (n :> c)
ProcOfPair == (m :> p) @@ (n :> c)
MainOf == (p :> m) @@ (c :> n)
=============================================================================
