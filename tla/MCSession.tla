----------------------------- MODULE MCSession -----------------------------
(* Instances of Session for TLC. *)
EXTENDS Session, TLC

CONSTANTS u1, u2, b1, b2, t1, t2

\* Two tabs of one browser: they overwrite each other's cookies.
OneBrowser == t1 :> b1 @@ t2 :> b1

OneTab == t1 :> b1
=============================================================================
