-------------------------- MODULE ServiceConstants --------------------------
(* What the modules of several services share, so that a model may extend    *)
(* more than one of them: the absent value, and the table f with row v for x.*)

CONSTANT None

Put(f, x, v) == [y \in DOMAIN f \cup {x} |-> IF y = x THEN v ELSE f[y]]
=============================================================================
