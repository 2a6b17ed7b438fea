----------------------------- MODULE MCRegistry -----------------------------
(***************************************************************************)
(* Instances of Registry for TLC: two backends with two tools each.  The   *)
(* distinct naming gives every tool its own name; under the colliding one  *)
(* the code's "{backend}_{tool}" maps two tools to one name, as backends   *)
(* "home" and "home_lab" do with tools "lab_on" and "on".                  *)
(***************************************************************************)
EXTENDS Registry

MCNames == {"n1", "n2", "n3", "n4"}

Distinct ==
  [e \in Backends \X Tools |->
     CASE e = <<"home", "lab_on">> -> "n1" [] e = <<"home", "on">> -> "n2"
       [] e = <<"home_lab", "lab_on">> -> "n3" [] OTHER -> "n4"]
Colliding ==
  [e \in Backends \X Tools |->
     CASE e = <<"home", "lab_on">> -> "n1" [] e = <<"home", "on">> -> "n2"
       [] e = <<"home_lab", "lab_on">> -> "n3" [] OTHER -> "n1"]

MCGroupNames == [g \in Groups |-> {"n1", "n4"}]
=============================================================================
