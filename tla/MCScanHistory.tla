--------------------------- MODULE MCScanHistory ----------------------------
(* Values of the constants of ScanHistory for TLC.                         *)
EXTENDS ScanHistory, TLC

CONSTANTS a, b

(* Rules 1 and 2 belong to one engine, rule 3 to a less trusted one; rules *)
(* 1 and 3 report secrets.                                                 *)
MCRules == 1..3
MCTrustOf == <<2, 2, 0>>
MCCategoryOf == <<"secrets", "injection", "secrets">>

At(f, l, r) == [file |-> f, line |-> l, rule |-> r]

(* A fixture; a credential in a file that sorts before it, which a second  *)
(* engine also sees; the same one moved down; the fixture replaced by      *)
(* another kind of finding, the credential seen by the other engine only.  *)
MCTrees == {{At(2, 1, 1)},
            {At(1, 1, 1), At(1, 1, 3), At(2, 1, 1)},
            {At(1, 2, 1), At(2, 1, 1), At(2, 2, 3)},
            {At(1, 1, 3), At(2, 1, 2)}}
MCLegacy == {At(2, 1, 1), At(1, 1, 1)}

MCRuleFiles == {{}, {[by |-> "endpoint", file |-> 2]}, {[by |-> "id", id |-> 1]},
                {[by |-> "category", category |-> "injection"]},
                {[by |-> "fingerprint", file |-> 1, rule |-> 3]}}

Flags(i, d, s) == [ignore |-> i, baseline |-> d, save |-> s]
(* Save; compare; compare and save, as the shipped workflows do. *)
MCUses == {Flags(TRUE, FALSE, TRUE), Flags(TRUE, TRUE, FALSE), Flags(FALSE, TRUE, TRUE)}
=============================================================================
