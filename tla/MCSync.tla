------------------------------- MODULE MCSync -------------------------------
(* Instances of SyncWindows: a workspace w with an environment e or a      *)
(* folder f with a request r in it, each under its own file name, and a    *)
(* spare name px.                                                          *)
EXTENDS SyncWindows, TLC

CONSTANTS w, f, r, e, pw, pf, pr, pe, px

AllHomes == (w :> pw) @@ (f :> pf) @@ (r :> pr) @@ (e :> pe)
MCHome == [m \in Models |-> AllHomes[m]]
HomesOnly == {MCHome[m] : m \in Models}
HomesAndSpare == HomesOnly \union {px}

MCInside == [m \in Models |-> IF m = w THEN Models ELSE IF m = f THEN {f, r} ELSE {m}]
=============================================================================
