---- MODULE MCQHsm ----
(* A tree with two roots and a spine of four states with a branch at each
   level: source, handler and target take every relative position up to three
   levels above or below their common ancestor. *)
EXTENDS QHsm

CONSTANTS a, b, c, d, ax, ay, bx, by, cx, r, rx

MCStates == {a, b, c, d, ax, ay, bx, by, cx, r, rx}
Edges == {<<a, Top>>, <<b, a>>, <<c, b>>, <<d, c>>, <<ax, a>>, <<ay, ax>>,
          <<bx, b>>, <<by, bx>>, <<cx, c>>, <<r, Top>>, <<rx, r>>}
MCParent == [s \in MCStates |-> (CHOOSE e \in Edges : e[1] = s)[2]]
MCAncestors[s \in MCStates \cup {Top}] ==
  IF s = Top THEN {Top} ELSE {s} \cup MCAncestors[MCParent[s]]
MCDepth[s \in MCStates \cup {Top}] == IF s = Top THEN 0 ELSE MCDepth[MCParent[s]] + 1
====
