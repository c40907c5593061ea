---------------------------- MODULE MCRuleEngine ----------------------------
(* Records and rules for the small instances of RuleEngine. *)
EXTENDS RuleEngine

CONSTANTS b1, b2, b3

\* Two batches of two records each, and one with a single late record.
MCBatches == {b1, b2, b3}
MCRecords == 1..5
MCBatchOf == <<b1, b1, b2, b2, b3>>
MCTime == <<1, 1, 1, 2, 4>>

\* Rule 1 counts the errors of each host over a window, rule 2 looks at each
\* batch alone.  Rule 3 watches the median; its level column overrides what
\* its filter_json says.  Record 2 is not an error.
MCWindow == <<2, 0, 2>>
MCNeeded == <<3, 2, 5>>
MCPercentile == <<0, 0, 50>>
MCValue == <<1, 9, 4, 7, 3>>
MCAttrs == {"level", "host"}
MCAttr == <<[level |-> "error", host |-> "h1"], [level |-> "info", host |-> "h2"],
            [level |-> "error", host |-> "h1"], [level |-> "error", host |-> "h1"],
            [level |-> "error", host |-> "h1"]>>
MCColumn == <<[level |-> Any, host |-> Any], [level |-> Any, host |-> Any],
              [level |-> "error", host |-> Any]>>
MCFilterJSON == <<[level |-> "error", host |-> Any], [level |-> Any, host |-> Any],
                  [level |-> "info", host |-> Any]>>
MCPasses == [r \in 1..3 |-> MCRecords]
MCGroupBy == <<"host", All, All>>
MCRulesOf == [b \in MCBatches |-> IF b = b3 THEN {1, 3} ELSE {1, 2, 3}]
=============================================================================
