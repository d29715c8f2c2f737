------------------------------ MODULE StateDicts ------------------------------
(***************************************************************************)
(* StateDict (src/weights/state_dict.cpp): <<name, tensor>> in the order   *)
(* in which the names came.                                                *)
(***************************************************************************)
EXTENDS Integers, Sequences, FiniteSets, Functions

IsList(s) == s \in Seq(Range(s))

Names(sd) == {sd[k][1] : k \in DOMAIN sd}
Find(sd, name) == (CHOOSE e \in Range(sd) : e[1] = name)[2]

\* Set keeps the place of a name it replaces.
Set(sd, name, t) ==
  IF name \in Names(sd)
  THEN [k \in DOMAIN sd |-> IF sd[k][1] = name THEN <<name, t>> ELSE sd[k]]
  ELSE Append(sd, <<name, t>>)
=============================================================================
