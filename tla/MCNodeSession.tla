---------------------------- MODULE MCNodeSession ----------------------------
(* NodeSession with four rejections: two of one check, which name two       *)
(* offenders and one of them; one of a check that counts none; and an       *)
(* exploratory one.                                                         *)
EXTENDS NodeSession

SomeSignatures == {"two rows", "one row", "schema", "sound law"}
SomeProtocol == SomeSignatures \ {"sound law"}
SomeKeys == {"rows", "schema", "law"}
SomeKeyOf == [s \in SomeSignatures |->
                CASE s = "sound law" -> "law" [] s = "schema" -> "schema"
                  [] OTHER -> "rows"]
SomeCountOf == [s \in SomeSignatures |->
                  CASE s = "two rows" -> 2 [] s = "one row" -> 1
                    [] OTHER -> NoCount]
=============================================================================
