---------------------------- MODULE MCCompanyJoin ----------------------------
(* Small instances of CompanyJoin.                                           *)
EXTENDS CompanyJoin, TLC

CONSTANTS A, B, p1, p2, j1, j2, c1, f1, f2

(* Two profiles of one company, of one account or of two; the first one runs *)
(* a daemon and a command beside it.                                         *)
OneAccount == p1 :> 1 @@ p2 :> 1
Accounts == p1 :> 1 @@ p2 :> 2
BothInA == p1 :> A @@ p2 :> A
Running == j1 :> p1 @@ c1 :> p1 @@ j2 :> p2

(* Both join B, once each; or the first one alone joins B, twice.            *)
BothToB == {<<p1, B>>, <<p2, B>>}
OnceEach == p1 :> {f1} @@ p2 :> {f2}
Twice == p1 :> {f1, f2} @@ p2 :> {}

(* A process that strayed stays so, and the properties of a join say no more *)
(* of it: what comes after need not be explored.                             *)
NotStrayed == ~strayed
==============================================================================
