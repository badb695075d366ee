------------------------------- MODULE MCCli -------------------------------
(***************************************************************************)
(* A zone and a circle of one id; one entity that crosses them and one     *)
(* that arrives; two parts of up to two updates, registered before, after  *)
(* or in the other part.                                                   *)
(***************************************************************************)
EXTENDS Cli

MCEntities == {1, 2}

MCTimes == 0..2

MCPoints == {0, 1}

Update(id, x, t) == [type |-> "update", id |-> id, location |-> x, t |-> t]

Registration(tier, area) == [type |-> "register", geometry |-> <<tier, 1>>, area |-> area]

MCUpdates ==
  {Update(1, 0, None), Update(1, 1, None), Update(1, 1, 1), Update(1, 0, 2), Update(2, 1, 1)}

Blank == [type |-> "blank"]

Garbage == [type |-> "garbage"]

Openings ==
  {<<>>, <<Blank, Registration("zone", {1}), Registration("circle", {1}), Registration("zone", {1})>>}

Endings == {<<>>, <<Garbage, Registration("zone", {1}), Registration("circle", None)>>}

MCParts ==
  {start \o updates \o end : start \in Openings, end \in Endings,
     updates \in UNION {[1 .. n -> MCUpdates] : n \in 0 .. 2}}
=============================================================================
