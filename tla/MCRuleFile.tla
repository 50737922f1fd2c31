----------------------------- MODULE MCRuleFile -----------------------------
(* Small instances of RuleFile for TLC. *)
EXTENDS RuleFile

CONSTANTS ip, port, app, site, star1, star2

Names == {<<site, star1>>}
=============================================================================
