-------------------------- MODULE MCModelAdmission --------------------------
(* TLC instance of ModelAdmission: the single-request models a and b, of which
   b is managed, and the parallel model p.  Not all of them fit at once. *)
EXTENDS ModelAdmission, TLC

CONSTANTS t1, t2, t3, t4, a, b, p

MCNeed == (a :> 2) @@ (b :> 3) @@ (p :> 2)
MCSession == (a :> 0) @@ (b :> 0) @@ (p :> 1)
MCMaxConcurrent == (a :> 1) @@ (b :> 1) @@ (p :> 2)

(* A session of the parallel model needs more than its idle footprint gives
   back: beside a it has to ask for the unload, beside b it is misjudged.  Three
   sessions fit into the memory, two are allowed. *)
MCNeedTight == (a :> 5) @@ (b :> 6) @@ (p :> 1)
MCSessionTight == (a :> 0) @@ (b :> 0) @@ (p :> 2)

(* Two requests for a parallel model, one for each of the others. *)
MCRoute ==
  LET all == (t1 :> a) @@ (t2 :> b) @@ (t3 :> p) @@ (t4 :> p)
  IN  [t \in Task |-> all[t]]

(* Two requests for one single-request model. *)
MCRouteSingle == (t1 :> a) @@ (t2 :> a) @@ (t3 :> b) @@ (t4 :> p)

MCRunSymmetry == Permutations(Run)
=============================================================================
