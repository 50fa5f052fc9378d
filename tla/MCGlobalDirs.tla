---------------------------- MODULE MCGlobalDirs ----------------------------
(* Configurations of both directories and of either one.                    *)
EXTENDS GlobalDirs

MCConfigs == {[props |-> "p1", sock |-> "s1"], [props |-> "p2", sock |-> "unset"],
              [props |-> "unset", sock |-> "s2"]}
=============================================================================
