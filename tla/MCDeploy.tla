------------------------------ MODULE MCDeploy ------------------------------
(* Instance of Deploy for TLC.                                              *)
EXTENDS Deploy, TLC

CONSTANTS d1, d2, v1, r1, v2, r2, n1

Parents == v1 :> d1 @@ r1 :> d1 @@ n1 :> d1 @@ v2 :> d2 @@ r2 :> d2
Vpns == d1 :> v1 @@ d2 :> v2
Registers == d1 :> r1 @@ d2 :> r2

\* Before DNS automation, the file had neither provider nor names.
Files == {<<[key |-> "base_domain", value |-> d1],
            [key |-> "enroll_port", value |-> "8788"]>>}

Lines == {[key |-> "enroll_port", value |-> "bad"],
          [key |-> "register_hostname", value |-> n1]}

CommandOptions == {<<"none", FALSE>>, <<"godaddy", TRUE>>}
=============================================================================
