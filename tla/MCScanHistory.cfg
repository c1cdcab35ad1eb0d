\* Three scans by two processes that share a baseline file, with ignore rules.
CONSTANTS
    a = a
    b = b
    Jobs = {a, b}
    Rules <- MCRules
    TrustOf <- MCTrustOf
    CategoryOf <- MCCategoryOf
    Trees <- MCTrees
    RuleFiles <- MCRuleFiles
    Uses <- MCUses
    Legacy <- MCLegacy
    MaxScans = 3
SPECIFICATION Spec
INVARIANTS
    NewIsReported
    SavedStaysKnown
    NoTornBaseline
    IdRulesKeepTheirGroup
