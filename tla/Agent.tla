-------------------------------- MODULE Agent --------------------------------
(***************************************************************************)
(* What a Run's model is given and what Core serves it (crates/core/src:   *)
(* skills.rs, tools/load_skill.rs, tools/mod.rs,                           *)
(* tools/propose_ticktick_task.rs, workflow.rs, worker/mod.rs,             *)
(* worker/run.rs, ticktick/token.rs, ticktick/client.rs, ticktick/wire.rs, *)
(* runs/ticktick.rs, ticktick_write.rs).                                   *)
(*                                                                         *)
(* A manifest is made at every dispatch and every resume: the prompt lists *)
(* the Skills of the moment, the tools are the Workflow's, the TickTick    *)
(* connection is the one Core read at boot.  The skills directory, the     *)
(* Workflow file and the token file belong to the user, who edits them     *)
(* while Core runs; Core itself writes Skills at boot, one file at a time. *)
(*                                                                         *)
(* A Skill is named by a number, so that names have the order the scan     *)
(* sorts by.  Some numbers name no child of the skills directory: they     *)
(* stand for the paths out of it a model may ask for.                      *)
(***************************************************************************)
EXTENDS Naturals, Sequences, FiniteSets, SequencesExt, FiniteSetsExt

CONSTANTS
    Children,           \* names of directories in the skills directory
    Paths,              \* "names" that lead out of it
    Seed,               \* the Skill Core bundles
    Retired,            \* a Skill Core bundled once
    Legacy,             \* name |-> the file an earlier release wrote
    Bundled,            \* the file this release writes for the bundled Skill
    Drafts,             \* name |-> the files a user writes there
    Prompts,            \* the prompts: sequences of words
    Registry,           \* tool |-> how it is dispatched
    ExternalTools,      \* tools with the reserved prefix
    Allowlists,         \* the tools lists the Workflow file may have
    Tokens,             \* TickTick access tokens
    Lists,              \* the lists /project names
    OpenTasks,          \* token |-> the account's other open tasks
    SourceLimit,        \* how many tasks TickTick answers with
    MaxEdits,           \* bound on the user's edits, all files together
    MaxBoots            \* bound on boots

VARIABLES
    disk, dir,          \* the SKILL.md files; whether the directory exists
    mine,               \* history: the Skills whose file the user made or
                        \* removed, and Core has not replaced since
    toml, token,        \* the Workflow's tools list; the token file
    core,               \* Core: where its boot is, and what it read
    run,                \* one Run: its state and its manifest
    touched,            \* history: Skills whose file changed since the manifest
    answer,             \* what the Run's last call was answered
    write,              \* the Run's TickTick Proposal and the call it led to
    edits

vars == <<disk, dir, mine, toml, token, core, run, touched, answer, write,
          edits>>
files == <<disk, dir, mine>>
provisioned == <<toml, token>>

Names == Children \cup Paths
Absent == [front |-> "absent"]
Unreadable == [front |-> "unreadable"]
Torn == [front |-> "none", body |-> "torn"]
None == <<>>
Ambient == {"load_skill"}
Proposal == "proposal"
MinTriggerTokens == 2

ASSUME NamesAssumption ==
    /\ Names \subseteq Nat \ {0} /\ Children \cap Paths = {}
    /\ IsFiniteSet(Children)
    /\ {Seed, Retired} \subseteq Children /\ DOMAIN Legacy = {Seed, Retired}
ASSUME RegistryAssumption ==
    /\ Ambient \subseteq DOMAIN Registry
    /\ ExternalTools \cap DOMAIN Registry = {}
ASSUME TaskAssumption ==
    /\ OpenTasks \in [Tokens -> Seq([id : STRING, list : STRING, kind : STRING,
                                      repeat : SUBSET STRING])]
    /\ SourceLimit \in Nat
\* A prompt and a trigger are both words.
Worded(f) == f.front = "fields" => f.triggers \subseteq Seq(STRING)
ASSUME WordsAssumption ==
    /\ Prompts \subseteq Seq(STRING)
    /\ Worded(Bundled)
    /\ \A n \in DOMAIN Legacy : Worded(Legacy[n])
    /\ \A n \in Names : \A f \in Drafts[n] : Worded(f)

(***************************************************************************)
(* Skills: discovery, activation, disclosure.                              *)
(***************************************************************************)
Present(f) == f.front \notin {"absent", "unreadable"}
\* The gate of discovery and of activation.
Eligible(n, f) ==
    /\ f.front = "fields"
    /\ f.description # ""
    /\ f.safe
    /\ f.name = n
Triggers(f) == {t \in f.triggers : Len(t) >= MinTriggerTokens}

Scan(d) == {n \in Children : Present(d[n]) /\ Eligible(n, d[n])}

\* A name with a separator, or a dot name, is no single component.
IsSingleComponent(n) == n \in Children
\* Mutant: any SKILL.md that is there is handed out.
LoadPresent(n, f) ==
    CASE f = Absent -> "unknown_skill"
      [] f = Unreadable -> "internal"
      [] OTHER -> "body"
LoadBody(n, f) ==
    CASE f = Absent -> "unknown_skill"
      [] f = Unreadable -> "internal"
      [] f.front = "unclosed" -> "malformed_skill"
      [] OTHER -> IF Eligible(n, f) THEN "body" ELSE "unknown_skill"
LoadSkill(n) ==
    IF IsSingleComponent(n) THEN LoadBody(n, disk[n]) ELSE "unknown_skill"

IsContiguousSubslice(haystack, needle) ==
    \E i \in 0..(Len(haystack) - Len(needle)) :
        SubSeq(haystack, i + 1, i + Len(needle)) = needle
Score(prompt, f) ==
    Max({Len(t) : t \in {u \in Triggers(f) : IsContiguousSubslice(prompt, u)}}
        \cup {0})
\* Mutant: the last Skill wins a tie.
BetterOrEqual(best, n, prompt, d) ==
    IF Score(prompt, d[n]) > 0 /\ Score(prompt, d[n]) >= best.score
    THEN [skill |-> {n}, score |-> Score(prompt, d[n])] ELSE best
\* One pass over the scan, in its order; a strictly better Skill replaces.
Better(best, n, prompt, d) ==
    IF Score(prompt, d[n]) > best.score
    THEN [skill |-> {n}, score |-> Score(prompt, d[n])] ELSE best
MatchTrigger(prompt, d) ==
    LET Best[n \in 0..Max(Children)] ==
            IF n = 0 THEN [skill |-> {}, score |-> 0]
            ELSE IF n \in Scan(d) THEN Better(Best[n - 1], n, prompt, d)
            ELSE Best[n - 1]
    IN  Best[Max(Children)].skill

AugmentedSystemPrompt ==
    [skills |-> [n \in Scan(disk) |-> disk[n].description], directive |-> {}]
AugmentedSystemPromptWithTrigger(prompt) ==
    [AugmentedSystemPrompt EXCEPT !.directive = MatchTrigger(prompt, disk)]

(***************************************************************************)
(* Tools.                                                                  *)
(***************************************************************************)
IsRegistered(tool) == tool \in DOMAIN Registry
IsProposal(tool) == IsRegistered(tool) /\ Registry[tool] = Proposal
RunDescriptors(allowlist) == (allowlist \cap DOMAIN Registry) \cup Ambient
IsAllowed(allowlist, tool) ==
    IsRegistered(tool) /\ (tool \in Ambient \/ tool \in allowlist)

(***************************************************************************)
(* The TickTick connection: read from the token file, once, at boot.       *)
(***************************************************************************)
ScopeGrantsWrite(scope) == scope = None \/ "tasks:write" \in scope[1]
\* A token file others can read, or without a token, is no connection.
Load == IF token = None \/ ~token.kept THEN None
        ELSE [token |-> token.access, writable |-> ScopeGrantsWrite(token.scope)]
Fingerprint(t) == <<"fp", t>>
Connection == core.connection
\* Mutant: any connection that may write will do.
StaleIfGone(fp) == Connection = None \/ ~Connection.writable
StaleConnection(fp) ==
    \/ Connection = None
    \/ ~Connection.writable
    \/ Fingerprint(Connection.token) # fp
PrePark(tool) ==
    CASE tool # "propose_ticktick_task" -> ""
      [] Connection = None -> "ticktick_not_connected"
      [] ~Connection.writable -> "ticktick_not_writable"
      [] OTHER -> ""

Down == [pc |-> "down", at |-> 0, boots |-> 0, tools |-> {}, connection |-> None]
Idle == [pc |-> "idle", prompt |-> None, system |-> None, allowlist |-> {},
         tools |-> {}, external |-> {}]
NoWrite == [state |-> "none", fp |-> None, shown |-> None, account |-> None]
\* The card's row, with the fingerprint of the account it is reviewed for.
Parked(tool) ==
    LET account == IF tool = "propose_ticktick_task" THEN <<Connection.token>>
                   ELSE None IN
    [NoWrite EXCEPT !.state = "proposed", !.shown = account,
                    !.fp = IF account = None THEN None
                           ELSE Fingerprint(Connection.token)]
Ends == run' = [Idle EXCEPT !.pc = "over"] /\ touched' = {} /\ answer' = None

Init ==
    /\ \/ disk = [n \in Names |-> Absent] /\ dir = FALSE
       \/ disk = [n \in Names |-> IF n \in DOMAIN Legacy THEN Legacy[n] ELSE Absent]
          /\ dir = TRUE
    /\ mine = {} /\ touched = {} /\ answer = None /\ edits = 0
    /\ toml \in Allowlists
    /\ \E t \in Tokens :
          token \in {None, [access |-> t, scope |-> None, kept |-> TRUE]}
    /\ core = Down /\ run = Idle /\ write = NoWrite

(***************************************************************************)
(* The user.                                                               *)
(***************************************************************************)
Edit == edits < MaxEdits /\ edits' = edits + 1
\* Core looks at a bundled file and then writes it; the user does not save the
\* same file between the two.
Between(n) == /\ core.pc \in {"make", "open", "fill", "replace", "refill"}
              /\ core.at = n
Touch(n) == touched' = IF run.pc = "live" THEN touched \cup {n} ELSE touched
Saved(n, f) ==
    /\ disk' = [disk EXCEPT ![n] = f] /\ dir' = TRUE
    /\ mine' = mine \cup {n} /\ Touch(n)
EditSkill ==
    /\ Edit
    /\ \E n \in Names : \E f \in Drafts[n] \cup {Absent} :
          f # disk[n] /\ ~Between(n) /\ (dir \/ f # Absent) /\ Saved(n, f)
    /\ UNCHANGED <<provisioned, core, run, answer, write>>
EditWorkflow ==
    /\ Edit
    /\ toml' \in Allowlists \ {toml}
    /\ UNCHANGED <<files, token, core, run, touched, answer, write>>
ProvisionToken ==
    /\ Edit
    /\ token' \in {None} \cup
         [access : Tokens, scope : {None, <<{"tasks:read"}>>}, kept : BOOLEAN]
    /\ UNCHANGED <<files, toml, core, run, touched, answer, write>>

(***************************************************************************)
(* Boot: the Workflow and the token file are read, then the Skills are     *)
(* seeded or migrated, then requests are served.  A file is truncated      *)
(* before it is written, and any step can fail: the boot goes on.          *)
(*   down -> seed -> make -> open -> fill -> up                            *)
(*           seed -> migrate [-> replace -> refill] -> migrate ... -> up   *)
(***************************************************************************)
Steps(s) == core' = [core EXCEPT !.pc = s]
Boot ==
    /\ core.pc = "down" /\ core.boots < MaxBoots
    /\ core' = [pc |-> "seed", at |-> Seed, boots |-> core.boots + 1,
                tools |-> toml, connection |-> Load]
    /\ UNCHANGED <<files, provisioned, run, touched, answer, write, edits>>

Rest == UNCHANGED <<mine, provisioned, run, touched, answer, write, edits>>
Puts(n, f) == disk' = [disk EXCEPT ![n] = f]

SeedIfAbsent ==
    /\ core.pc = "seed" /\ Steps(IF dir THEN "migrate" ELSE "make")
    /\ UNCHANGED <<disk, dir>> /\ Rest
MakeSkillDir ==
    /\ core.pc = "make"
    /\ \/ dir' = TRUE /\ Steps("open")
       \/ UNCHANGED dir /\ Steps("up")
    /\ UNCHANGED disk /\ Rest
OpenSeed ==
    /\ core.pc = "open"
    /\ \/ Puts(Seed, Torn) /\ Steps("fill")
       \/ UNCHANGED disk /\ Steps("up")
    /\ UNCHANGED dir /\ Rest
FillSeed ==
    /\ core.pc = "fill" /\ Steps("up")
    /\ Puts(Seed, Bundled) \/ UNCHANGED disk
    /\ UNCHANGED dir /\ Rest

\* Mutant: whatever stands where an earlier release wrote.
StandsThere(n) == Present(disk[n]) /\ disk[n] # Bundled
\* Only a file that still is, to the byte, what an earlier release wrote.
IsLegacy(n) == disk[n] = Legacy[n]
MigrateNext ==
    IF core.at = Seed THEN core' = [core EXCEPT !.pc = "migrate", !.at = Retired]
    ELSE Steps("up")
MigrateLegacySeed ==
    /\ core.pc = "migrate"
    /\ IF IsLegacy(core.at) THEN Steps("replace") ELSE MigrateNext
    /\ UNCHANGED <<disk, dir>> /\ Rest
ReplaceSeed ==
    /\ core.pc = "replace"
    /\ \/ /\ core.at = Seed /\ Puts(Seed, Torn) /\ Steps("refill")
          /\ mine' = mine \ {Seed}
       \/ /\ core.at = Retired /\ Puts(Retired, Absent) /\ MigrateNext
          /\ mine' = mine \ {Retired}
       \/ UNCHANGED <<disk, mine>> /\ MigrateNext
    /\ UNCHANGED <<dir, provisioned, run, touched, answer, write, edits>>
RefillSeed ==
    /\ core.pc = "refill" /\ MigrateNext
    /\ Puts(Seed, Bundled) \/ UNCHANGED disk
    /\ UNCHANGED dir /\ Rest

(***************************************************************************)
(* The Run: dispatched with a prompt, resumed without one.                 *)
(*   idle -> live -> over,  live -> parked -> live                         *)
(***************************************************************************)
Serving == core.pc = "up"
Same == UNCHANGED <<files, provisioned, core, edits>>
ExternalToolsManifest == IF core.connection = None THEN {} ELSE ExternalTools
Manifest(prompt, system) ==
    [pc |-> "live", prompt |-> prompt, system |-> system,
     allowlist |-> core.tools, tools |-> RunDescriptors(core.tools),
     external |-> ExternalToolsManifest]
Spawns(manifest) ==
    run' = manifest /\ touched' = {} /\ answer' = None

Dispatch ==
    /\ Serving /\ run.pc = "idle"
    /\ \E p \in Prompts : Spawns(Manifest(p, AugmentedSystemPromptWithTrigger(p)))
    /\ UNCHANGED write /\ Same
\* Mutant: the tools of the manifest the Run parked with.
ResumeAsParked ==
    /\ Serving /\ run.pc = "parked" /\ write.state \in {"rejected", "posted"}
    /\ Spawns([Manifest(None, AugmentedSystemPrompt) EXCEPT !.tools = run.tools])
    /\ write' = NoWrite /\ Same
Resume ==
    /\ Serving /\ run.pc = "parked" /\ write.state \in {"rejected", "posted"}
    /\ Spawns(Manifest(None, AugmentedSystemPrompt))
    /\ write' = NoWrite /\ Same

Answered(tool, what) == [tool |-> tool, what |-> what]
LoadAnswered(n, what) == [skill |-> n, what |-> what]
Answers(with) == answer' = with /\ UNCHANGED <<run, touched>>
CallSkill ==
    /\ run.pc = "live"
    /\ \E n \in Names : Answers(LoadAnswered(n, LoadSkill(n)))
    /\ UNCHANGED write /\ Same
CallTool ==
    /\ run.pc = "live"
    /\ \E tool \in (DOMAIN Registry \ Ambient) \cup ExternalTools :
          /\ ~IsProposal(tool)
          /\ Answers(Answered(tool, IF IsAllowed(run.allowlist, tool)
                                    THEN "result" ELSE "tool_not_allowed"))
    /\ UNCHANGED write /\ Same
\* A Proposal tool: refused, ended as a Worker error, or parked on.  What it
\* would change is Workspace's; here the TickTick write is followed.
Propose ==
    /\ run.pc = "live"
    /\ \E tool \in DOMAIN Registry :
          /\ IsProposal(tool)
          /\ IF PrePark(tool) # ""
             THEN Answers(Answered(tool, PrePark(tool))) /\ UNCHANGED write
             ELSE \/ Ends /\ UNCHANGED write
                  \/ /\ run' = [run EXCEPT !.pc = "parked"]
                     /\ touched' = {} /\ answer' = None
                     /\ write' = Parked(tool)
    /\ Same
End ==
    /\ run.pc = "live" /\ Ends
    /\ UNCHANGED write /\ Same

\* Accepting re-checks the connection; the one POST uses the token Core holds.
Accept ==
    /\ Serving /\ run.pc = "parked" /\ write.state = "proposed"
    /\ ~(write.fp # None /\ StaleConnection(write.fp))
    /\ write' = [write EXCEPT !.state = "posted",
                             !.account = IF write.fp = None THEN None
                                         ELSE <<Connection.token>>]
    /\ UNCHANGED <<run, touched, answer>> /\ Same
Reject ==
    /\ Serving /\ run.pc = "parked" /\ write.state = "proposed"
    /\ write' = [write EXCEPT !.state = "rejected"]
    /\ UNCHANGED <<run, touched, answer>> /\ Same

\* Mutant: the next boot leaves the Run it finds.
CrashOnly ==
    /\ core.pc # "down"
    /\ core' = [Down EXCEPT !.boots = core.boots]
    /\ UNCHANGED <<files, provisioned, run, touched, answer, write, edits>>
\* A crash, and the boot recovery that ends a Run that was live.
Crash ==
    /\ core.pc # "down"
    /\ core' = [Down EXCEPT !.boots = core.boots]
    /\ IF run.pc = "live" THEN Ends ELSE UNCHANGED <<run, touched, answer>>
    /\ UNCHANGED <<files, provisioned, write, edits>>

(***************************************************************************)
(* ticktick/tasks/list: the open tasks of the connected account.           *)
(***************************************************************************)
\* A new task lands in the Inbox (TickTick's side), which /project leaves out.
Inbox == "inbox"
RawTask(id, list, kind, repeat) == [id |-> id, list |-> list, kind |-> kind, repeat |-> repeat]
Created == RawTask("created", Inbox, "TEXT", {})
Open ==
    OpenTasks[Connection.token]
        \o (IF write.state = "posted" /\ write.account = <<Connection.token>>
            THEN <<Created>> ELSE <<>>)

ListName(list) ==
    IF list = Inbox THEN {"Inbox"} ELSE {list} \cap Lists
Shows(raw) == raw.kind \in {"TEXT", "CHECKLIST"}
Row(raw) == [id |-> raw.id, list |-> ListName(raw.list), kind |-> raw.kind,
             repeat |-> raw.repeat \ {""}]

\* Mutant: the rows that are left are counted.
LimitOfRows(raw) == Len(SelectSeq(raw, Shows)) >= SourceLimit
LimitReached(raw) == Len(raw) >= SourceLimit
NormalizeTasks(raw) ==
    [tasks |-> {Row(raw[k]) : k \in {i \in DOMAIN raw : Shows(raw[i])}},
     source_limit_reached |-> LimitReached(raw)]

\* Two requests at once; TickTick answers with at most so many tasks.
FetchTasks == NormalizeTasks(SubSeq(Open, 1, Min({Len(Open), SourceLimit})))
HandleTasksList ==
    IF Connection = None THEN "provider_not_connected" ELSE FetchTasks

Next ==
    \/ EditSkill \/ EditWorkflow \/ ProvisionToken
    \/ Boot \/ SeedIfAbsent \/ MakeSkillDir \/ OpenSeed \/ FillSeed
    \/ MigrateLegacySeed \/ ReplaceSeed \/ RefillSeed
    \/ Dispatch \/ Resume \/ CallSkill \/ CallTool \/ Propose \/ End
    \/ Accept \/ Reject \/ Crash

Spec == Init /\ [][Next]_vars

-----------------------------------------------------------------------------

\* Type correctness, and that a Run is live only while Core serves.
TypeOK ==
    /\ dir \in BOOLEAN /\ mine \subseteq Names /\ touched \subseteq Names
    /\ toml \in Allowlists
    /\ core.pc \in {"down", "seed", "make", "open", "fill", "migrate",
                    "replace", "refill", "up"}
    /\ run.pc \in {"idle", "live", "parked", "over"}
    /\ run.pc = "live" => Serving
    /\ run.pc = "parked" <=> write # NoWrite

\* "The loadable set equals the advertised set": what load_skill hands a
\* model is exactly what its prompt listed, unless the file changed since
\* (skills.rs eligible, load_skill.rs is_single_component).
LoadableIsAdvertised ==
    \A n \in Names \ touched, what \in {"body", "internal", "malformed_skill",
                                         "unknown_skill"} :
        answer = LoadAnswered(n, what) => (what = "body" <=> n \in DOMAIN run.system.skills)

\* The directive of a new Run names an advertised Skill with a trigger in the
\* prompt that no other Skill's trigger is longer than, the first of those by
\* name; there is one whenever some trigger matches, and a resumed Run has
\* none (skills.rs match_trigger).
Found(prompt, n) == {t \in disk[n].triggers :
                       Len(t) > 1 /\ \E i \in 1..Len(prompt) : \E j \in i..Len(prompt) :
                                        SubSeq(prompt, i, j) = t}
BestFor(prompt, n) ==
    \E t \in Found(prompt, n) : \A m \in DOMAIN run'.system.skills :
        \A u \in Found(prompt, m) :
            Len(t) > Len(u) \/ (Len(t) = Len(u) /\ n <= m)
DirectiveIsBest ==
    [][run.pc # "live" /\ run'.pc = "live" =>
         run'.system.directive =
           IF run.pc = "parked" THEN {}
           ELSE {n \in DOMAIN run'.system.skills : BestFor(run'.prompt, n)}]_vars

\* A Skill the user wrote or removed is changed by no boot, whatever a crash
\* left half done, unless it is to the byte a file an earlier release wrote
\* (skills.rs seed_if_absent, migrate_legacy_seeds).
UserHasTheLastWord ==
    [][\A n \in mine :
         disk'[n] # disk[n] =>
            \/ edits' # edits
            \/ n \in DOMAIN Legacy /\ disk[n] = Legacy[n]]_vars

\* A tool the model was offered is never "not allowed", and one that is
\* served was offered: the two gates agree over a restart between which the
\* Workflow file changed (tools/mod.rs run_descriptors, is_allowed).
AdvertisedIsServed ==
    \A tool \in DOMAIN Registry \cup ExternalTools :
        /\ answer = Answered(tool, "tool_not_allowed") => tool \notin run.tools
        /\ answer = Answered(tool, "result") => tool \in run.tools

\* The account a task is created in is the one that was connected when its
\* card was made, however often Core restarted and the token file was
\* swapped between the two (ticktick_write.rs stale_connection, token.rs init).
PostsToReviewedAccount ==
    write.state = "posted" => write.account = write.shown

\* The list of tasks shows all that is open in the account, the task just
\* created included, or says that something may be missing, however many of
\* the tasks TickTick sends are of a kind that is not shown (wire.rs: the flag
\* "must survive NOTE removal").
TasksAreShown ==
    Connection # None =>
        LET listed == HandleTasksList
            visible == {k \in DOMAIN Open : Shows(Open[k])}
        IN  listed.source_limit_reached \/ listed.tasks = {Row(Open[k]) : k \in visible}

\* What was shown is what is served: the Skills and tools to the model, the
\* account and its tasks to the user, although files and Core change in between
\* (skills.rs, tools/mod.rs, ticktick_write.rs, ticktick/wire.rs).
ShownIsServed ==
    /\ TypeOK /\ LoadableIsAdvertised /\ AdvertisedIsServed
    /\ PostsToReviewedAccount /\ TasksAreShown
=============================================================================
