------------------------- MODULE MCReleasePipeline -------------------------
(* Two families with a few runs each.                                      *)
EXTENDS ReleasePipeline

BothFamilies == {"xray", "sing_box"}
OneFamily == {"xray"}

ReleaseAssets ==
    [f \in BothFamilies |-> IF f = "xray" THEN {"lib", "manifest"}
                            ELSE {"lib", "manifest", "source"}]
XrayAssets == [f \in OneFamily |-> {"lib", "manifest"}]
SmallAssets == [f \in BothFamilies |-> {"lib", "manifest"}]

(* Run 1 is an Xray run, run 2 a sing-box run, and so on.                  *)
Alternating == [r \in Runs |-> IF r % 2 = 1 THEN "xray" ELSE "sing_box"]
AllXray == [r \in Runs |-> "xray"]
=============================================================================
