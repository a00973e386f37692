SPECIFICATION Spec
CONSTANTS
    Children = {1, 2}
    Paths = {9}
    Seed = 1
    Retired = 2
    Legacy <- MCLegacy
    Bundled <- MCBundled
    Drafts <- MCDrafts
    Prompts <- MCPrompts
    Registry <- MCRegistry
    ExternalTools = {"ticktick_filter_tasks"}
    Allowlists <- MCAllowlists
    Tokens = {"t1", "t2"}
    Lists = {"list"}
    OpenTasks <- MCOpenTasks
    SourceLimit = 2
    MaxEdits = 2
    MaxBoots = 2
INVARIANTS ShownIsServed
PROPERTIES DirectiveIsBest UserHasTheLastWord
CHECK_DEADLOCK FALSE
