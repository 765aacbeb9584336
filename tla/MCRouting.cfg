CONSTANTS
    Tag = {"a", "b"}
    RuleLists <- TwoLists
    GlobalTags = {"a"}
    Network = {"home", "cell"}
    Override <- NetworkOverride
    OverrideTags <- PolicyTags
    Policy = {"b"}
    Allow = {"p", "q"}
    Updater = {"u"}
    Reporter = {r1, r2}
    Setter = {"s"}
    MaxVersion = 2
    MaxFilters = 2
SPECIFICATION MCSpec
INVARIANTS RulesMatchRaw NetworkInForce 
SYMMETRY Symmetry
CHECK_DEADLOCK FALSE
