------------------------------ MODULE MCAgent ------------------------------
EXTENDS Agent
\* Names, as the Skills of two children and one path; words of prompts.
File(name, triggers, body) ==
    [front |-> "fields", name |-> name, description |-> "d", safe |-> TRUE,
     triggers |-> triggers, body |-> body]
MCLegacy == 1 :> File(1, {}, "old") @@ 2 :> File(2, {}, "old")
MCBundled == File(1, {<<"a", "b">>}, "new")
MCDrafts ==
    1 :> {File(1, {<<"b", "c">>, <<"a", "c">>, <<"a">>}, "mine"), MCLegacy[1]} @@
    2 :> {File(2, {<<"a", "b", "c">>}, "mine"), File(2, {<<"a", "b">>}, "mine"),
          File(1, {}, "mine"),
          [front |-> "unclosed", body |-> "mine"]} @@
    9 :> {File(9, {}, "mine")}
MCPrompts == {<<"a", "b", "c">>}
MCRegistry == "read_thread" :> "pool" @@ "search_entities" :> "pool" @@
    "load_skill" :> "no_context" @@ "propose_workspace_mutation" :> "proposal" @@
    "propose_ticktick_task" :> "proposal"
MCOpenTasks == "t1" :> <<RawTask("a", "list", "NOTE", {})>> @@
    "t2" :> <<RawTask("b", "list", "NOTE", {}), RawTask("c", "gone", "CHECKLIST", {""})>>
MCAllowlists == {{"read_thread"}, {"search_entities", "propose_ticktick_task"}}
=============================================================================
