---------------------------- MODULE MCSchedulers ----------------------------
(* Two tenants: the second is reached only if the first does not throw.    *)
EXTENDS Schedulers

MCTenants == <<"t1", "t2">>
=============================================================================
