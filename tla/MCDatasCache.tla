---------------------------- MODULE MCDatasCache ----------------------------
(* Instances of DatasCache for TLC.                                        *)
EXTENDS DatasCache, TLC

DistinctNames == <<"services", "plugin">>
NoneHang      == {}
SecondHangs   == {2}

Symmetry == Permutations(Readers)
=============================================================================
