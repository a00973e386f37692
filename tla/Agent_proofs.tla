---------------------------- MODULE Agent_proofs ----------------------------
(***************************************************************************)
(* Theorems about Agent and about Library, what the agent is given and     *)
(* what it reads.  Agent: for any Skills, tools, Workflows, accounts and   *)
(* tasks, and any number of edits and boots, what was shown is what is     *)
(* served, no boot changes a Skill the user has the last word on, and the  *)
(* Skill a prompt is given in full is the best one for it.  Library (from  *)
(* its banner on): for any tables, requests and clocks, and writes between *)
(* any two statements of a read, every answer is faithful, an Entity keeps *)
(* the entry it was captured from, and every row can be read.              *)
(*                                                                         *)
(* The argument for Agent: the manifest of a live Run was made by the Core *)
(* that is up, so its Skills are those on disk except where the user has   *)
(* edited one since (Listed) and its tools are those of its allowlist      *)
(* (Offered); the card of a Proposal carries the fingerprint of the        *)
(* account it shows (Reviewed); boot writes only where no file of the user *)
(* is, or where it has just seen a file of an earlier release (Boots); and *)
(* every file holds words (Texts), so that the pass over the scan has at   *)
(* each name the best of those before it (Leads).                          *)
(*                                                                         *)
(* The argument for Library is at LibraryInv: the tables hold together     *)
(* (TablesHold), a request that waits stays one that may be written        *)
(* (Asked), and a read holds its rows against the tables of the moment     *)
(* (ReadHolds).  Writes are of two kinds, those that only add (Grown) and  *)
(* the deletion of one Entity with what named it (Cascaded).               *)
(***************************************************************************)
EXTENDS Agent, Library, SequenceTheorems, FiniteSetTheorems, WellFoundedInduction, TLAPS

(***************************************************************************)
(* Types.                                                                  *)
(***************************************************************************)
CorePcs == {"down", "seed", "make", "open", "fill", "migrate", "replace",
            "refill", "up"}
RunPcs == {"idle", "live", "parked", "over"}
WriteStates == {"none", "proposed", "rejected", "posted"}
Connections == {None} \cup [token : Tokens, writable : BOOLEAN]
TokenFiles ==
    {None} \cup [access : Tokens, scope : {None, <<{"tasks:read"}>>}, kept : BOOLEAN]
CoreRecord == [pc : CorePcs, at : {0, Seed, Retired}, boots : Nat,
               tools : Allowlists \cup {{}}, connection : Connections]
\* What an account and its fingerprint are written down as.
Accounts == {None} \cup {<<t>> : t \in Tokens}
Fingerprints == {None} \cup {Fingerprint(t) : t \in Tokens}
WriteRecord == [state : WriteStates, fp : Fingerprints, shown : Accounts,
                account : Accounts]

Typed ==
    /\ disk = [n \in Names |-> disk[n]]
    /\ dir \in BOOLEAN /\ mine \subseteq Names /\ touched \subseteq Names
    /\ toml \in Allowlists /\ token \in TokenFiles /\ edits \in Nat
    /\ core \in CoreRecord
    /\ run = [pc |-> run.pc, prompt |-> run.prompt, system |-> run.system,
              allowlist |-> run.allowlist, tools |-> run.tools,
              external |-> run.external]
    /\ run.pc \in RunPcs
    /\ write \in WriteRecord

(***************************************************************************)
(* The Run, its manifest and what it is answered.                          *)
(***************************************************************************)
\* A Run is live only while Core serves, and only a live one has an answer.
Lives ==
    /\ run.pc = "live" => Serving
    /\ run.pc # "live" => touched = {} /\ answer = None
Advertised(n) == n \in DOMAIN run.system.skills
Listed ==
    run.pc = "live" =>
        \A n \in Names \ touched :
            Advertised(n) <=> n \in Children /\ Eligible(n, disk[n])
Offered == run.pc = "live" => run.tools = RunDescriptors(run.allowlist)

(***************************************************************************)
(* The Proposal, its card and its account.                                 *)
(***************************************************************************)
Reviewed ==
    /\ run.pc = "parked" <=> write.state # "none"
    /\ write.state = "none" => write = NoWrite
    /\ \/ write.fp = None /\ write.shown = None
       \/ \E t \in Tokens : write.fp = Fingerprint(t) /\ write.shown = <<t>>
    /\ write.state = "posted" => write.account = write.shown

(***************************************************************************)
(* Boot.                                                                   *)
(***************************************************************************)
Boots ==
    /\ ~dir => mine = {}
    /\ core.pc = "seed" => core.at = Seed
    /\ core.pc \in {"make", "open", "fill", "refill"} =>
           core.at = Seed /\ Seed \notin mine
    /\ core.pc \in {"migrate", "replace"} => core.at \in {Seed, Retired}
    /\ core.pc = "replace" => disk[core.at] = Legacy[core.at]

RunFacts == Listed /\ Offered /\ LoadableIsAdvertised /\ AdvertisedIsServed

\* The inductive invariant.
IInv == Typed /\ Lives /\ RunFacts /\ Reviewed /\ Boots

(***************************************************************************)
(* What the operators return.                                              *)
(***************************************************************************)
\* The answers of load_skill and of the other tools are told apart, and read
\* back what was answered.
LEMMA AnswersApart ==
    ASSUME NEW a, NEW b, NEW v, NEW w
    PROVE  /\ Answered(a, v) # None /\ LoadAnswered(a, v) # None
           /\ Answered(a, v) # LoadAnswered(b, w)
           /\ Answered(a, v) = Answered(b, w) => a = b /\ v = w
           /\ LoadAnswered(a, v) = LoadAnswered(b, w) => a = b /\ v = w
<1>1. "tool" \in DOMAIN Answered(a, v) /\ "tool" \notin DOMAIN LoadAnswered(b, w)
  BY DEF Answered, LoadAnswered
<1>2. "what" \in DOMAIN Answered(a, v) /\ "what" \in DOMAIN LoadAnswered(a, v)
  BY DEF Answered, LoadAnswered
<1>3. "what" \notin DOMAIN None
  <2>1. None \in Seq({}) /\ Len(None) = 0
    BY DEF None
  <2>2. DOMAIN None = {}
    BY <2>1
  <2>. QED  BY <2>2
<1>4. Answered(a, v).tool = a /\ Answered(a, v).what = v
  BY DEF Answered
<1>5. Answered(b, w).tool = b /\ Answered(b, w).what = w
  BY DEF Answered
<1>6. LoadAnswered(a, v).skill = a /\ LoadAnswered(a, v).what = v
  BY DEF LoadAnswered
<1>7. LoadAnswered(b, w).skill = b /\ LoadAnswered(b, w).what = w
  BY DEF LoadAnswered
<1>. QED  BY <1>1, <1>2, <1>3, <1>4, <1>5, <1>6, <1>7

\* No account, no connection and no token file is told from any that is there.
LEMMA NoneApart ==
    /\ \A t : None # <<t>> /\ None # Fingerprint(t)
    /\ \A t, u : Fingerprint(t) = Fingerprint(u) => t = u
    /\ \A t, u : <<t>> = <<u>> => t = u
    /\ \A c \in [token : Tokens, writable : BOOLEAN] : c # None
    /\ \A f \in [access : Tokens, scope : {None, <<{"tasks:read"}>>},
                 kept : BOOLEAN] : f # None
<1>1. DOMAIN None = {}
  BY DEF None
<1>2. \A t : None # <<t>> /\ None # Fingerprint(t)
  BY DEF None, Fingerprint
<1>3. \A t, u : Fingerprint(t) = Fingerprint(u) => t = u
  BY DEF Fingerprint
<1>4. \A t, u : <<t>> = <<u>> => t = u
  OBVIOUS
<1>5. \A c \in [token : Tokens, writable : BOOLEAN] : c # None
  <2>1. \A c \in [token : Tokens, writable : BOOLEAN] : "token" \in DOMAIN c
    OBVIOUS
  <2>. QED  BY <1>1, <2>1
<1>6. \A f \in [access : Tokens, scope : {None, <<{"tasks:read"}>>},
                kept : BOOLEAN] : f # None
  <2>1. \A f \in [access : Tokens, scope : {None, <<{"tasks:read"}>>},
                  kept : BOOLEAN] : "access" \in DOMAIN f
    OBVIOUS
  <2>. QED  BY <1>1, <2>1
<1>. QED  BY <1>2, <1>3, <1>4, <1>5, <1>6

\* load_skill hands out a body exactly where the gate of discovery is passed.
LEMMA BodyIffEligible ==
    ASSUME NEW n
    PROVE  LoadSkill(n) = "body" <=> n \in Children /\ Eligible(n, disk[n])
<1>1. ASSUME NEW f PROVE LoadBody(n, f) = "body" <=> Eligible(n, f)
  <2>1. f = Absent \/ f = Unreadable \/ f.front = "unclosed"
        => LoadBody(n, f) # "body" /\ ~Eligible(n, f)
    <3>1. Absent.front = "absent" /\ Unreadable.front = "unreadable"
      BY DEF Absent, Unreadable
    <3>2. CASE f = Absent
      BY <3>1, <3>2 DEF LoadBody, Eligible
    <3>3. CASE f = Unreadable
      BY <3>1, <3>3 DEF LoadBody, Eligible
    <3>4. CASE f.front = "unclosed"
      BY <3>1, <3>4 DEF LoadBody, Eligible
    <3>. QED  BY <3>2, <3>3, <3>4
  <2>2. ~(f = Absent \/ f = Unreadable \/ f.front = "unclosed")
        => (LoadBody(n, f) = "body" <=> Eligible(n, f))
    BY DEF LoadBody
  <2>. QED  BY <2>1, <2>2
<1>. QED  BY <1>1 DEF LoadSkill, IsSingleComponent

\* What a manifest lists and offers.
LEMMA ManifestLists ==
    ASSUME NEW p, NEW m,
           m = Manifest(p, AugmentedSystemPrompt)
           \/ m = Manifest(p, AugmentedSystemPromptWithTrigger(p))
    PROVE  /\ m.pc = "live"
           /\ m = [pc |-> m.pc, prompt |-> m.prompt, system |-> m.system,
                   allowlist |-> m.allowlist, tools |-> m.tools,
                   external |-> m.external]
           /\ m.tools = RunDescriptors(m.allowlist)
           /\ \A n : n \in DOMAIN m.system.skills
                     <=> n \in Children /\ Eligible(n, disk[n])
<1>1. AugmentedSystemPromptWithTrigger(p).skills = AugmentedSystemPrompt.skills
  BY DEF AugmentedSystemPromptWithTrigger, AugmentedSystemPrompt
<1>2. PICK s : m = Manifest(p, s) /\ s.skills = AugmentedSystemPrompt.skills
  BY <1>1
<1>3. m = [pc |-> "live", prompt |-> p, system |-> s, allowlist |-> core.tools,
           tools |-> RunDescriptors(core.tools), external |-> ExternalToolsManifest]
  BY <1>2 DEF Manifest
<1>4. DOMAIN s.skills = Scan(disk)
  BY <1>2 DEF AugmentedSystemPrompt
<1>5. \A n : n \in Scan(disk) <=> n \in Children /\ Eligible(n, disk[n])
  BY DEF Scan, Present, Eligible
<1>. QED  BY <1>3, <1>4, <1>5

\* The two gates agree: what is offered is registered, and what is registered
\* and offered is allowed.
LEMMA GatesAgree ==
    ASSUME NEW allowlist, NEW tool
    PROVE  IsAllowed(allowlist, tool) <=> tool \in RunDescriptors(allowlist)
BY RegistryAssumption DEF IsAllowed, IsRegistered, RunDescriptors

(***************************************************************************)
(* What a step leaves of a Run.                                            *)
(***************************************************************************)
\* A Run goes on with its manifest: what it was shown stands, but for the
\* Skills that are touched.
LEMMA ManifestStands ==
    ASSUME RunFacts, run' = run, answer' = answer, touched \subseteq touched',
           run.pc = "live" =>
               \A n \in Names \ touched' : disk'[n] = disk[n]
    PROVE  RunFacts'
<1>1. Listed'
  BY DEF RunFacts, Listed, Advertised
<1>2. Offered'
  BY DEF RunFacts, Offered
<1>3. LoadableIsAdvertised'
  BY DEF RunFacts, LoadableIsAdvertised
<1>4. AdvertisedIsServed'
  BY DEF RunFacts, AdvertisedIsServed
<1>. QED  BY <1>1, <1>2, <1>3, <1>4 DEF RunFacts

\* A Run that is not live has neither a manifest in use nor an answer.
LEMMA NoLiveRun ==
    ASSUME run'.pc # "live", answer' = None
    PROVE  RunFacts'
<1>1. Listed' /\ Offered'
  BY DEF Listed, Offered
<1>2. \A a, v : Answered(a, v) # None /\ LoadAnswered(a, v) # None
  BY AnswersApart
<1>3. LoadableIsAdvertised'
  BY <1>2 DEF LoadableIsAdvertised
<1>4. AdvertisedIsServed'
  BY <1>2 DEF AdvertisedIsServed
<1>. QED  BY <1>1, <1>3, <1>4 DEF RunFacts

\* A manifest that has just been made is true.
LEMMA ManifestIsTrue ==
    ASSUME NEW p, NEW m, Spawns(m), UNCHANGED disk,
           m = Manifest(p, AugmentedSystemPrompt)
           \/ m = Manifest(p, AugmentedSystemPromptWithTrigger(p))
    PROVE  RunFacts'
<1>1. run' = m /\ touched' = {} /\ answer' = None /\ disk' = disk
  BY DEF Spawns
<1>2. m.tools = RunDescriptors(m.allowlist)
  BY ManifestLists
<1>3. \A n : n \in DOMAIN m.system.skills <=> n \in Children /\ Eligible(n, disk[n])
  BY ManifestLists
<1>4. Listed'
  BY <1>1, <1>3 DEF Listed, Advertised
<1>5. Offered'
  BY <1>1, <1>2 DEF Offered
<1>6. \A a, v : Answered(a, v) # None /\ LoadAnswered(a, v) # None
  BY AnswersApart
<1>7. LoadableIsAdvertised'
  BY <1>1, <1>6 DEF LoadableIsAdvertised
<1>8. AdvertisedIsServed'
  BY <1>1, <1>6 DEF AdvertisedIsServed
<1>. QED  BY <1>4, <1>5, <1>7, <1>8 DEF RunFacts

\* load_skill answers from the disk what the prompt has listed.
LEMMA SkillIsListed ==
    ASSUME RunFacts, run.pc = "live", UNCHANGED <<run, touched, disk>>,
           NEW n \in Names, answer' = LoadAnswered(n, LoadSkill(n))
    PROVE  RunFacts'
<1>1. Listed' /\ Offered'
  BY DEF RunFacts, Listed, Offered, Advertised
<1>2. LoadableIsAdvertised'
  <2>1. SUFFICES ASSUME NEW m \in Names \ touched, NEW what,
                        answer' = LoadAnswered(m, what)
                 PROVE  what = "body" <=> m \in DOMAIN run.system.skills
    BY DEF LoadableIsAdvertised
  <2>2. m = n /\ what = LoadSkill(n)
    <3>1. LoadAnswered(m, what) = LoadAnswered(n, LoadSkill(n))
      BY <2>1
    <3>. HIDE DEF LoadSkill
    <3>. QED  BY <3>1, AnswersApart
  <2>3. LoadSkill(n) = "body" <=> n \in Children /\ Eligible(n, disk[n])
    BY BodyIffEligible
  <2>4. m \in DOMAIN run.system.skills <=> m \in Children /\ Eligible(m, disk[m])
    BY DEF RunFacts, Listed, Advertised
  <2>. QED  BY <2>2, <2>3, <2>4
<1>3. AdvertisedIsServed'
  BY AnswersApart DEF AdvertisedIsServed
<1>. QED  BY <1>1, <1>2, <1>3 DEF RunFacts

\* A tool is served exactly when it was offered.
LEMMA ToolIsOffered ==
    ASSUME RunFacts, run.pc = "live", UNCHANGED <<run, touched, disk>>,
           NEW tool, NEW what, answer' = Answered(tool, what),
           what = "tool_not_allowed" => ~IsAllowed(run.allowlist, tool),
           what = "result" => IsAllowed(run.allowlist, tool)
    PROVE  RunFacts'
<1>1. Listed' /\ Offered'
  BY DEF RunFacts, Listed, Offered, Advertised
<1>2. LoadableIsAdvertised'
  <2>1. \A n, w : answer' # LoadAnswered(n, w)
    BY AnswersApart
  <2>. QED  BY <2>1 DEF LoadableIsAdvertised
<1>3. AdvertisedIsServed'
  <2>1. IsAllowed(run.allowlist, tool) <=> tool \in run.tools
    BY GatesAgree DEF RunFacts, Offered
  <2>2. SUFFICES ASSUME NEW t
                 PROVE  /\ answer' = Answered(t, "tool_not_allowed") => t \notin run.tools
                        /\ answer' = Answered(t, "result") => t \in run.tools
    BY DEF AdvertisedIsServed
  <2>3. \A w : answer' = Answered(t, w) => t = tool /\ w = what
    BY AnswersApart
  <2>. QED  BY <2>1, <2>3
<1>. QED  BY <1>1, <1>2, <1>3 DEF RunFacts

(***************************************************************************)
(* The steps.                                                              *)
(***************************************************************************)
LEMMA InitHolds == Init => IInv
<1>. SUFFICES ASSUME Init PROVE IInv
  OBVIOUS
<1>1. disk = [n \in Names |-> disk[n]] /\ dir \in BOOLEAN
  <2>1. CASE disk = [n \in Names |-> Absent] /\ dir = FALSE
    BY <2>1
  <2>2. CASE /\ disk = [n \in Names |-> IF n \in DOMAIN Legacy THEN Legacy[n] ELSE Absent]
             /\ dir = TRUE
    BY <2>2
  <2>. QED  BY <2>1, <2>2 DEF Init
<1>2. Typed
  <2>1. token \in TokenFiles
    <3>1. PICK t \in Tokens :
              token \in {None, [access |-> t, scope |-> None, kept |-> TRUE]}
      BY DEF Init
    <3>2. None \in {None, <<{"tasks:read"}>>}
      OBVIOUS
    <3>3. [access |-> t, scope |-> None, kept |-> TRUE] \in
          [access : Tokens, scope : {None, <<{"tasks:read"}>>}, kept : BOOLEAN]
      BY <3>2
    <3>. QED  BY <3>1, <3>3 DEF TokenFiles
  <2>2. core \in CoreRecord
    BY DEF Init, Down, CoreRecord, CorePcs, Connections
  <2>3. write \in WriteRecord
    BY DEF Init, NoWrite, WriteRecord, WriteStates, Fingerprints, Accounts
  <2>4. run = [pc |-> run.pc, prompt |-> run.prompt, system |-> run.system,
               allowlist |-> run.allowlist, tools |-> run.tools,
               external |-> run.external] /\ run.pc \in RunPcs
    BY DEF Init, Idle, RunPcs
  <2>. QED  BY <1>1, <2>1, <2>2, <2>3, <2>4 DEF Init, Typed
<1>3. Lives
  BY DEF Init, Lives, Idle
<1>4. Reviewed
  BY DEF Init, Reviewed, Idle, NoWrite
<1>5. Boots
  BY DEF Init, Boots, Down
<1>6. RunFacts
  <2>1. run.pc # "live" /\ answer = None
    BY DEF Init, Idle
  <2>2. \A a, v : Answered(a, v) # None /\ LoadAnswered(a, v) # None
    BY AnswersApart
  <2>. QED  BY <2>1, <2>2
            DEF RunFacts, Listed, Offered, LoadableIsAdvertised, AdvertisedIsServed
<1>. QED  BY <1>2, <1>3, <1>4, <1>5, <1>6 DEF IInv

\* The user's edits: what a live Run was shown is touched, and the files Core
\* is about to write are not.
LEMMA UserStep ==
    ASSUME IInv, EditSkill \/ EditWorkflow \/ ProvisionToken
    PROVE  IInv'
<1>. USE DEF IInv
<1>1. ASSUME EditSkill PROVE IInv'
  <2>0. PICK n \in Names : ~Between(n) /\ \E f : Saved(n, f)
    BY <1>1 DEF EditSkill
  <2>1. PICK f : ~Between(n) /\ Saved(n, f)
    BY <2>0
  <2>2. /\ disk' = [disk EXCEPT ![n] = f] /\ dir' = TRUE /\ mine' = mine \cup {n}
        /\ touched' = IF run.pc = "live" THEN touched \cup {n} ELSE touched
    BY <2>1 DEF Saved, Touch
  <2>3. UNCHANGED <<toml, token, core, run, answer, write>> /\ edits' = edits + 1
    BY <1>1 DEF EditSkill, Edit, provisioned
  <2>4. \A m \in Names \ {n} : disk'[m] = disk[m]
    BY <2>2 DEF Typed
  <2>5. Typed'
    BY <2>2, <2>3 DEF Typed
  <2>6. Lives'
    BY <2>2, <2>3 DEF Lives, Serving
  <2>7. RunFacts'
    BY <2>2, <2>3, <2>4, ManifestStands
  <2>8. Reviewed'
    BY <2>3 DEF Reviewed, NoWrite
  <2>9. Boots'
    <3>1. core.pc \in {"make", "open", "fill", "replace", "refill"} => n # core.at
      BY <2>1 DEF Between
    <3>2. core.pc = "replace" => disk'[core.at] = Legacy[core.at]
      BY <2>4, <3>1, NamesAssumption DEF Boots, Names
    <3>. QED  BY <2>2, <2>3, <3>1, <3>2 DEF Boots
  <2>. QED  BY <2>5, <2>6, <2>7, <2>8, <2>9
<1>2. ASSUME EditWorkflow \/ ProvisionToken PROVE IInv'
  <2>1. UNCHANGED <<disk, dir, mine, core, run, touched, answer, write>>
    BY <1>2 DEF EditWorkflow, ProvisionToken, files
  <2>2. toml' \in Allowlists /\ token' \in TokenFiles /\ edits' \in Nat
    BY <1>2 DEF EditWorkflow, ProvisionToken, Edit, Typed, TokenFiles
  <2>3. Typed'
    BY <2>1, <2>2 DEF Typed
  <2>4. Lives'
    BY <2>1 DEF Lives, Serving
  <2>5. RunFacts'
    BY <2>1, ManifestStands
  <2>6. Reviewed' /\ Boots'
    BY <2>1 DEF Reviewed, Boots
  <2>. QED  BY <2>3, <2>4, <2>5, <2>6
<1>. QED  BY <1>1, <1>2

BootSteps ==
    \/ Boot \/ SeedIfAbsent \/ MakeSkillDir \/ OpenSeed \/ FillSeed
    \/ MigrateLegacySeed \/ ReplaceSeed \/ RefillSeed

\* A step of boot, and what it may write.
LEMMA BootStep ==
    ASSUME IInv, BootSteps
    PROVE  /\ IInv'
           /\ \A n \in mine : disk'[n] # disk[n]
                 => n \in DOMAIN Legacy /\ disk[n] = Legacy[n]
<1>. USE DEF IInv
<1>1. /\ UNCHANGED <<toml, token, run, touched, answer, write, edits>>
      /\ core.pc # "up"
  BY DEF BootSteps, Boot, SeedIfAbsent, MakeSkillDir, OpenSeed, FillSeed,
         MigrateLegacySeed, ReplaceSeed, RefillSeed, Rest, provisioned
<1>2. run.pc # "live" /\ answer = None
  BY <1>1 DEF Lives, Serving
<1>3. RunFacts'
  BY <1>1, <1>2, NoLiveRun
<1>4. Reviewed'
  BY <1>1 DEF Reviewed, NoWrite
<1>5. Lives'
  BY <1>1, <1>2 DEF Lives
<1>6. Seed \in Names /\ Retired \in Names /\ DOMAIN Legacy = {Seed, Retired}
  BY NamesAssumption DEF Names
<1>7. core' \in CoreRecord
  <2>1. core \in CoreRecord /\ toml \in Allowlists
    BY DEF Typed
  <2>2. CASE Boot
    <3>1. Load \in Connections
      BY DEF Typed, Load, Connections, TokenFiles, ScopeGrantsWrite
    <3>. QED  BY <2>1, <2>2, <3>1 DEF Boot, CoreRecord, CorePcs
  <2>3. CASE ~Boot
    BY <2>1, <2>3 DEF BootSteps, SeedIfAbsent, MakeSkillDir, OpenSeed, FillSeed,
       MigrateLegacySeed, ReplaceSeed, RefillSeed, Steps, MigrateNext, CoreRecord, CorePcs
  <2>. QED  BY <2>2, <2>3
<1>8. /\ disk' = [n \in Names |-> disk'[n]]
      /\ dir' \in BOOLEAN /\ mine' \subseteq mine
  <2>1. CASE Boot \/ SeedIfAbsent \/ MigrateLegacySeed \/ MakeSkillDir
    BY <2>1 DEF Typed, Boot, SeedIfAbsent, MigrateLegacySeed, MakeSkillDir, Rest, files
  <2>2. CASE OpenSeed \/ FillSeed \/ ReplaceSeed \/ RefillSeed
    BY <2>2 DEF Typed, OpenSeed, FillSeed, ReplaceSeed, RefillSeed, Rest, Puts
  <2>. QED  BY <2>1, <2>2 DEF BootSteps
<1>9. Typed'
  BY <1>1, <1>7, <1>8 DEF Typed
<1>10. /\ Boots'
       /\ \A n \in mine : disk'[n] # disk[n]
                 => n \in DOMAIN Legacy /\ disk[n] = Legacy[n]
  <2>0. core \in CoreRecord /\ mine \subseteq Names
    BY DEF Typed
  <2>9. \A n, f : Puts(n, f) => \A m \in Names : m # n => disk'[m] = disk[m]
    BY DEF Puts, Typed
  <2>1. CASE Boot
    BY <2>0, <2>1 DEF Boot, Boots, files
  <2>2. CASE SeedIfAbsent
    BY <2>0, <2>2 DEF SeedIfAbsent, Boots, Steps, Rest, CoreRecord
  <2>3. CASE MakeSkillDir
    BY <2>0, <2>3 DEF MakeSkillDir, Boots, Steps, Rest, CoreRecord
  <2>4. CASE OpenSeed
    BY <1>6, <2>0, <2>9, <2>4 DEF OpenSeed, Boots, Steps, Rest, CoreRecord
  <2>5. CASE FillSeed
    BY <1>6, <2>0, <2>9, <2>5 DEF FillSeed, Boots, Steps, Rest, CoreRecord
  <2>6. CASE MigrateLegacySeed
    BY <1>6, <2>0, <2>6 DEF MigrateLegacySeed, Boots, Steps, MigrateNext, IsLegacy, Rest, CoreRecord
  <2>7. CASE ReplaceSeed
    <3>1. core.at \in {Seed, Retired} /\ disk[core.at] = Legacy[core.at]
      BY <2>7 DEF ReplaceSeed, Boots
    <3>2. \A n \in Names : n # core.at => disk'[n] = disk[n]
      BY <2>9, <2>7 DEF ReplaceSeed
    <3>3. dir' = dir /\ mine' \subseteq mine
      BY <2>7 DEF ReplaceSeed
    <3>4. \/ core.at = Seed /\ Seed \notin mine' /\ Steps("refill")
          \/ MigrateNext
      BY <2>7 DEF ReplaceSeed
    <3>5. Boots'
      <4>1. CASE core.at = Seed /\ Seed \notin mine' /\ Steps("refill")
        BY <2>0, <3>3, <4>1 DEF Boots, Steps, CoreRecord
      <4>2. CASE MigrateNext
        BY <2>0, <3>3, <4>2 DEF Boots, Steps, MigrateNext, CoreRecord
      <4>. QED  BY <3>4, <4>1, <4>2
    <3>. QED  BY <1>6, <2>0, <3>1, <3>2, <3>5
  <2>8. CASE RefillSeed
    <3>1. core.at = Seed /\ Seed \notin mine
      BY <2>8 DEF RefillSeed, Boots
    <3>2. \A n \in Names : n # Seed => disk'[n] = disk[n]
      BY <2>9, <2>8 DEF RefillSeed
    <3>3. MigrateNext /\ dir' = dir /\ mine' = mine
      BY <2>8 DEF RefillSeed, Rest
    <3>4. Boots'
      BY <2>0, <3>1, <3>3 DEF Boots, MigrateNext, CoreRecord
    <3>. QED  BY <2>0, <3>1, <3>2, <3>4
  <2>. QED  BY <2>1, <2>2, <2>3, <2>4, <2>5, <2>6, <2>7, <2>8 DEF BootSteps
<1>. QED  BY <1>3, <1>4, <1>5, <1>9, <1>10

\* A Run that starts or goes on gets a manifest made there and then.
LEMMA SpawnStep ==
    ASSUME IInv, Dispatch \/ Resume
    PROVE  IInv'
<1>. USE DEF IInv
<1>1. PICK p, m :
          /\ Spawns(m)
          /\ \/ m = Manifest(p, AugmentedSystemPrompt)
             \/ m = Manifest(p, AugmentedSystemPromptWithTrigger(p))
  BY DEF Dispatch, Resume
<1>2. /\ UNCHANGED <<disk, dir, mine, toml, token, core, edits>> /\ Serving
      /\ run' = m /\ touched' = {} /\ answer' = None
  BY <1>1 DEF Dispatch, Resume, Same, files, provisioned, Spawns
<1>3. write' = NoWrite
  BY DEF Dispatch, Resume, Reviewed
<1>4. /\ m.pc = "live"
      /\ m = [pc |-> m.pc, prompt |-> m.prompt, system |-> m.system,
              allowlist |-> m.allowlist, tools |-> m.tools, external |-> m.external]
  BY <1>1, ManifestLists
<1>5. NoWrite \in WriteRecord
  BY DEF NoWrite, WriteRecord, WriteStates, Fingerprints, Accounts
<1>6. Typed'
  BY <1>2, <1>3, <1>4, <1>5 DEF Typed, RunPcs
<1>7. Lives'
  BY <1>2, <1>4 DEF Lives, Serving
<1>8. RunFacts'
  BY <1>1, <1>2, ManifestIsTrue
<1>9. Reviewed'
  BY <1>2, <1>3, <1>4 DEF Reviewed, NoWrite
<1>10. Boots'
  BY <1>2 DEF Boots
<1>. QED  BY <1>6, <1>7, <1>8, <1>9, <1>10

\* What a live Run is answered, with nothing else changed.
LEMMA AnswerStep ==
    ASSUME IInv, run.pc = "live", UNCHANGED <<run, touched, write>>, Same, RunFacts'
    PROVE  IInv'
<1>. USE DEF IInv
<1>1. UNCHANGED <<disk, dir, mine, toml, token, core, edits>>
  BY DEF Same, files, provisioned
<1>2. Typed'
  BY <1>1 DEF Typed
<1>3. Lives' /\ Reviewed' /\ Boots'
  BY <1>1 DEF Lives, Serving, Reviewed, NoWrite, Boots
<1>. QED  BY <1>2, <1>3

\* A Run that ends: nothing of its manifest is in use any more.
LEMMA EndStep ==
    ASSUME IInv, run.pc = "live", Ends, UNCHANGED write,
           UNCHANGED <<disk, dir, mine, toml, token, edits>>,
           core' \in CoreRecord, Boots'
    PROVE  IInv'
<1>. USE DEF IInv
<1>1. run' = [Idle EXCEPT !.pc = "over"] /\ touched' = {} /\ answer' = None
  BY DEF Ends
<1>2. /\ run'.pc = "over"
      /\ run' = [pc |-> run'.pc, prompt |-> run'.prompt, system |-> run'.system,
                 allowlist |-> run'.allowlist, tools |-> run'.tools,
                 external |-> run'.external]
  BY <1>1 DEF Idle
<1>3. Typed'
  BY <1>1, <1>2 DEF Typed, RunPcs
<1>4. Lives'
  BY <1>1, <1>2 DEF Lives
<1>5. RunFacts'
  BY <1>1, <1>2, NoLiveRun
<1>6. Reviewed'
  BY <1>2 DEF Reviewed, NoWrite
<1>. QED  BY <1>3, <1>4, <1>5, <1>6

\* The calls of a live Run.
LEMMA CallStep ==
    ASSUME IInv, CallSkill \/ CallTool \/ Propose \/ End
    PROVE  IInv'
<1>. USE DEF IInv
<1>1. ASSUME CallSkill PROVE IInv'
  <2>1. PICK n \in Names : Answers(LoadAnswered(n, LoadSkill(n)))
    BY <1>1 DEF CallSkill
  <2>2. run.pc = "live" /\ UNCHANGED <<run, touched, disk, write>> /\ Same
    BY <1>1, <2>1 DEF CallSkill, Answers, Same, files
  <2>3. answer' = LoadAnswered(n, LoadSkill(n))
    BY <2>1 DEF Answers
  <2>4. RunFacts'
    BY <2>2, <2>3, SkillIsListed
  <2>. QED  BY <2>2, <2>4, AnswerStep
<1>2. ASSUME CallTool PROVE IInv'
  <2>1. PICK tool : Answers(Answered(tool, IF IsAllowed(run.allowlist, tool)
                                           THEN "result" ELSE "tool_not_allowed"))
    BY <1>2 DEF CallTool
  <2>2. run.pc = "live" /\ UNCHANGED <<run, touched, disk, write>> /\ Same
    BY <1>2, <2>1 DEF CallTool, Answers, Same, files
  <2>3. PICK what : /\ answer' = Answered(tool, what)
                    /\ what = "tool_not_allowed" => ~IsAllowed(run.allowlist, tool)
                    /\ what = "result" => IsAllowed(run.allowlist, tool)
    BY <2>1 DEF Answers
  <2>4. RunFacts'
    BY <2>2, <2>3, ToolIsOffered
  <2>. QED  BY <2>2, <2>4, AnswerStep
<1>3. ASSUME Propose PROVE IInv'
  <2>0. run.pc = "live" /\ Same
    BY <1>3 DEF Propose
  <2>1. PICK tool :
            IF PrePark(tool) # ""
            THEN Answers(Answered(tool, PrePark(tool))) /\ UNCHANGED write
            ELSE \/ Ends /\ UNCHANGED write
                 \/ /\ run' = [run EXCEPT !.pc = "parked"]
                    /\ touched' = {} /\ answer' = None
                    /\ write' = Parked(tool)
    BY <1>3 DEF Propose
  <2>2. UNCHANGED <<disk, dir, mine, toml, token, core, edits>>
    BY <2>0 DEF Same, files, provisioned
  <2>3. CASE PrePark(tool) # ""
    <3>1. UNCHANGED <<run, touched, disk, write>>
      BY <2>1, <2>2, <2>3 DEF Answers
    <3>2. answer' = Answered(tool, PrePark(tool))
      BY <2>1, <2>3 DEF Answers
    <3>3. PrePark(tool) # "tool_not_allowed" /\ PrePark(tool) # "result"
      BY DEF PrePark
    <3>4. RunFacts'
      <4>. HIDE DEF PrePark
      <4>. QED  BY <2>0, <3>1, <3>2, <3>3, ToolIsOffered
    <3>. QED  BY <2>0, <3>1, <3>4, AnswerStep
  <2>4. CASE Ends /\ UNCHANGED write
    <3>1. core' \in CoreRecord /\ Boots'
      BY <2>2 DEF Typed, Boots
    <3>. QED  BY <2>0, <2>2, <2>4, <3>1, EndStep
  <2>5. CASE /\ PrePark(tool) = "" /\ run' = [run EXCEPT !.pc = "parked"]
             /\ touched' = {} /\ answer' = None
             /\ write' = Parked(tool)
    <3>1. /\ run'.pc = "parked"
          /\ run' = [pc |-> run'.pc, prompt |-> run'.prompt, system |-> run'.system,
                     allowlist |-> run'.allowlist, tools |-> run'.tools,
                     external |-> run'.external]
      BY <2>5 DEF Typed
    <3>2. tool = "propose_ticktick_task" => Connection # None
      BY <2>5 DEF PrePark
    <3>3. /\ write'.state = "proposed" /\ write' \in WriteRecord
          /\ \/ write'.fp = None /\ write'.shown = None
             \/ \E t \in Tokens : write'.fp = Fingerprint(t) /\ write'.shown = <<t>>
      <4>1. CASE tool = "propose_ticktick_task"
        <5>1. PICK t \in Tokens : Connection.token = t
          BY <3>2, <4>1 DEF Typed, CoreRecord, Connections, Connection
        <5>2. write' = [NoWrite EXCEPT !.state = "proposed", !.shown = <<t>>,
                                       !.fp = Fingerprint(t)]
          BY <2>5, <4>1, <5>1, NoneApart DEF Parked
        <5>. QED  BY <5>2 DEF NoWrite, WriteRecord, WriteStates, Fingerprints, Accounts
      <4>2. CASE tool # "propose_ticktick_task"
        <5>1. write' = [NoWrite EXCEPT !.state = "proposed", !.shown = None, !.fp = None]
          BY <2>5, <4>2 DEF Parked
        <5>. QED  BY <5>1 DEF NoWrite, WriteRecord, WriteStates, Fingerprints, Accounts
      <4>. QED  BY <4>1, <4>2
    <3>4. Typed'
      BY <2>2, <2>5, <3>1, <3>3 DEF Typed, RunPcs
    <3>5. Lives'
      BY <2>5, <3>1 DEF Lives
    <3>6. RunFacts'
      BY <2>5, <3>1, NoLiveRun
    <3>7. Reviewed'
      BY <3>1, <3>3 DEF Reviewed
    <3>8. Boots'
      BY <2>2 DEF Boots
    <3>. QED  BY <3>4, <3>5, <3>6, <3>7, <3>8
  <2>. QED  BY <2>1, <2>3, <2>4, <2>5
<1>4. ASSUME End PROVE IInv'
  <2>1. /\ UNCHANGED <<disk, dir, mine, toml, token, core, edits, write>>
        /\ run.pc = "live" /\ Ends
    BY <1>4 DEF End, Same, files, provisioned
  <2>2. core' \in CoreRecord /\ Boots'
    BY <2>1 DEF Typed, Boots
  <2>. QED  BY <2>1, <2>2, EndStep
<1>. QED  BY <1>1, <1>2, <1>3, <1>4

\* The Decision: what is posted goes to the account the card shows.
LEMMA DecideStep ==
    ASSUME IInv, Accept \/ Reject
    PROVE  IInv'
<1>. USE DEF IInv
<1>1. /\ UNCHANGED <<disk, dir, mine, toml, token, core, edits, run, touched, answer>>
      /\ run.pc = "parked" /\ write.state = "proposed" /\ write \in WriteRecord
  BY DEF Accept, Reject, Same, files, provisioned, Typed
<1>2. RunFacts'
  BY <1>1, ManifestStands
<1>3. Lives' /\ Boots'
  BY <1>1 DEF Lives, Serving, Boots
<1>4. CASE Accept
  <2>1. PICK a : /\ write' = [write EXCEPT !.state = "posted", !.account = a]
                 /\ a = IF write.fp = None THEN None ELSE <<Connection.token>>
    BY <1>4 DEF Accept
  <2>2. write.fp = None \/ Fingerprint(Connection.token) = write.fp
    BY <1>4 DEF Accept, StaleConnection
  <2>3. a = write.shown /\ a \in Accounts
    <3>1. CASE write.fp = None
      BY <2>1, <3>1, NoneApart DEF Reviewed, Accounts
    <3>2. CASE write.fp # None
      <4>1. PICK t \in Tokens : write.fp = Fingerprint(t) /\ write.shown = <<t>>
        BY <3>2 DEF Reviewed
      <4>2. Connection.token = t
        BY <2>2, <3>2, <4>1, NoneApart
      <4>. QED  BY <2>1, <3>2, <4>1, <4>2 DEF Accounts
    <3>. QED  BY <3>1, <3>2
  <2>4. write' \in WriteRecord /\ Reviewed'
    BY <1>1, <2>1, <2>3 DEF WriteRecord, WriteStates, Reviewed
  <2>5. Typed'
    BY <1>1, <2>4 DEF Typed
  <2>. QED  BY <1>2, <1>3, <2>4, <2>5
<1>5. CASE Reject
  <2>1. write' = [write EXCEPT !.state = "rejected"]
    BY <1>5 DEF Reject
  <2>2. write' \in WriteRecord /\ Reviewed'
    BY <1>1, <2>1 DEF WriteRecord, WriteStates, Reviewed
  <2>3. Typed'
    BY <1>1, <2>2 DEF Typed
  <2>. QED  BY <1>2, <1>3, <2>2, <2>3
<1>. QED  BY <1>4, <1>5

\* A crash takes a live Run with it and leaves the files.
LEMMA CrashStep ==
    ASSUME IInv, Crash
    PROVE  IInv'
<1>. USE DEF IInv
<1>1. /\ UNCHANGED <<disk, dir, mine, toml, token, edits, write>>
      /\ core' = [Down EXCEPT !.boots = core.boots]
  BY DEF Crash, files, provisioned
<1>2. core' \in CoreRecord /\ core'.pc = "down"
  BY <1>1 DEF Typed, CoreRecord, CorePcs, Connections, Down
<1>3. Boots'
  BY <1>1, <1>2 DEF Boots
<1>4. CASE run.pc = "live"
  BY <1>1, <1>2, <1>3, <1>4, EndStep DEF Crash
<1>5. CASE run.pc # "live"
  <2>1. UNCHANGED <<run, touched, answer>>
    BY <1>5 DEF Crash
  <2>2. Typed'
    BY <1>1, <1>2, <2>1 DEF Typed
  <2>3. Lives' /\ Reviewed'
    BY <1>1, <1>5, <2>1 DEF Lives, Reviewed, NoWrite
  <2>4. RunFacts'
    BY <1>1, <2>1, ManifestStands
  <2>. QED  BY <1>3, <2>2, <2>3, <2>4
<1>. QED  BY <1>4, <1>5

LEMMA Invariance == IInv /\ [Next]_vars => IInv'
<1>. SUFFICES ASSUME IInv, [Next]_vars PROVE IInv'
  OBVIOUS
<1>1. CASE EditSkill \/ EditWorkflow \/ ProvisionToken
  BY <1>1, UserStep
<1>2. CASE BootSteps
  BY <1>2, BootStep
<1>3. CASE Dispatch \/ Resume
  BY <1>3, SpawnStep
<1>4. CASE CallSkill \/ CallTool \/ Propose \/ End
  BY <1>4, CallStep
<1>5. CASE Accept \/ Reject
  BY <1>5, DecideStep
<1>6. CASE Crash
  BY <1>6, CrashStep
<1>7. CASE UNCHANGED vars
  BY <1>7 DEF vars, IInv, Typed, Lives, Serving, RunFacts, Listed, Offered,
     Advertised, Reviewed, Boots, LoadableIsAdvertised, AdvertisedIsServed
<1>. QED  BY <1>1, <1>2, <1>3, <1>4, <1>5, <1>6, <1>7 DEF Next, BootSteps

LEMMA AlwaysIInv == Spec => []IInv
BY InitHolds, Invariance, PTL DEF Spec

(***************************************************************************)
(* What follows.                                                           *)
(***************************************************************************)
LEMMA TypesFollow == IInv => TypeOK
BY DEF IInv, Typed, Lives, Serving, Reviewed, NoWrite, TypeOK, CoreRecord, CorePcs,
   RunPcs

LEMMA AccountsFollow == IInv => PostsToReviewedAccount
BY DEF IInv, Reviewed, PostsToReviewedAccount

\* TickTick answers with all open tasks, or with as many as its limit.
LEMMA ShortAnswerIsWhole ==
    ASSUME NEW S, NEW s \in Seq(S), NEW limit \in Nat
    PROVE  \/ SubSeq(s, 1, Min({Len(s), limit})) = s
           \/ Len(SubSeq(s, 1, Min({Len(s), limit}))) >= limit
<1>1. Len(s) \in Nat
  OBVIOUS
<1>2. CASE Len(s) <= limit
  <2>1. Min({Len(s), limit}) = Len(s)
    BY <1>1, <1>2 DEF Min
  <2>. QED  BY <2>1, SubSeqFull
<1>3. CASE limit < Len(s)
  <2>1. Min({Len(s), limit}) = limit
    BY <1>1, <1>3 DEF Min
  <2>2. Len(SubSeq(s, 1, limit)) = limit
    BY <1>1, <1>3
  <2>. QED  BY <2>1, <2>2
<1>4. Len(s) <= limit \/ limit < Len(s)
  BY <1>1
<1>. QED  BY <1>2, <1>3, <1>4

LEMMA TasksFollow == IInv => TasksAreShown
<1>. SUFFICES ASSUME IInv, Connection # None
              PROVE  LET listed == HandleTasksList
                         visible == {k \in DOMAIN Open : Shows(Open[k])}
                     IN  \/ listed.source_limit_reached
                         \/ listed.tasks = {Row(Open[k]) : k \in visible}
  BY DEF TasksAreShown
<1>. DEFINE Raw == [id : STRING, list : STRING, kind : STRING, repeat : SUBSET STRING]
                   \cup {Created}
            cut == SubSeq(Open, 1, Min({Len(Open), SourceLimit}))
<1>1. Connection.token \in Tokens
  BY DEF IInv, Typed, CoreRecord, Connections, Connection
<1>2. Open \in Seq(Raw)
  <2>1. OpenTasks[Connection.token] \in Seq(Raw)
    <3>1. OpenTasks[Connection.token] \in
              Seq([id : STRING, list : STRING, kind : STRING, repeat : SUBSET STRING])
      BY <1>1, TaskAssumption
    <3>. QED  BY <3>1, SeqMonotonic
  <2>2. <<Created>> \in Seq(Raw) /\ <<>> \in Seq(Raw)
    OBVIOUS
  <2>. QED  BY <2>1, <2>2, ConcatProperties DEF Open
<1>3. HandleTasksList = NormalizeTasks(cut)
  BY DEF HandleTasksList, FetchTasks
<1>4. cut = Open \/ Len(cut) >= SourceLimit
  <2>. HIDE DEF Raw
  <2>. QED  BY <1>2, ShortAnswerIsWhole, TaskAssumption
<1>5. CASE cut = Open
  <2>1. HandleTasksList.tasks = {Row(Open[k]) : k \in {i \in DOMAIN Open : Shows(Open[i])}}
    <3>. HIDE DEF cut
    <3>. QED  BY <1>3, <1>5 DEF NormalizeTasks
  <2>. QED  BY <2>1
<1>6. CASE Len(cut) >= SourceLimit
  <2>1. HandleTasksList.source_limit_reached
    <3>. HIDE DEF cut
    <3>. QED  BY <1>3, <1>6 DEF NormalizeTasks, LimitReached
  <2>. QED  BY <2>1
<1>. QED  BY <1>4, <1>5, <1>6

(***************************************************************************)
(* The directive: the best Skill for a prompt.                             *)
(***************************************************************************)
LEMMA NatInduct ==
    ASSUME NEW S, 0 \in S, \A n \in Nat : n \in S => n + 1 \in S
    PROVE  Nat \subseteq S
<1>. DEFINE T == {n \in Nat : n \notin S}
<1>. SUFFICES ASSUME T # {} PROVE FALSE
  OBVIOUS
<1>. HIDE DEF T
<1>1. PICK n \in T : \A m \in T : ~(m < n)
  <2>. DEFINE R == OpToRel(<, Nat)
  <2>1. T \subseteq Nat /\ IsWellFoundedOn(R, Nat)
    BY NatLessThanWellFounded, Zenon DEF T
  <2>2. PICK n \in T : \A m \in T : ~ (<<m, n>> \in R)
    <3>. HIDE DEF R
    <3>. QED  BY <2>1, WFMin
  <2>3. \A m \in T : ~(m < n)
    BY <2>1, <2>2 DEF OpToRel
  <2>. HIDE DEF R
  <2>. QED  BY <2>2, <2>3
<1>2. n \in Nat /\ n \notin S /\ n # 0
  BY <1>1 DEF T
<1>3. n - 1 \in Nat /\ n - 1 < n /\ n = (n - 1) + 1
  BY <1>2
<1>4. n - 1 \in S
  BY <1>1, <1>3 DEF T
<1>. QED  BY <1>2, <1>3, <1>4

\* A set of numbers with an upper bound, and a finite one, has its greatest.
LEMMA GreatestBelow ==
    ASSUME NEW bound \in Nat, NEW T \in SUBSET (0..bound), T # {}
    PROVE  Max(T) \in T /\ \A j \in T : Max(T) >= j
<1>. DEFINE S == {n \in Nat : \A U \in SUBSET (0..n) :
                                 U # {} => \E i \in U : \A j \in U : i >= j}
<1>1. 0 \in S
  <2>1. ASSUME NEW U \in SUBSET (0..0), U # {} PROVE \E i \in U : \A j \in U : i >= j
    <3>1. \A i \in U : i = 0
      OBVIOUS
    <3>2. PICK i \in U : TRUE
      BY <2>1
    <3>. QED  BY <3>1, <3>2
  <2>. QED  BY <2>1
<1>2. ASSUME NEW n \in Nat, n \in S PROVE n + 1 \in S
  <2>. SUFFICES ASSUME NEW U \in SUBSET (0..n + 1), U # {}
                PROVE  \E i \in U : \A j \in U : i >= j
    OBVIOUS
  <2>1. CASE n + 1 \in U
    <3>1. \A j \in U : n + 1 >= j
      OBVIOUS
    <3>. QED  BY <2>1, <3>1
  <2>2. CASE n + 1 \notin U
    <3>1. U \in SUBSET (0..n)
      BY <2>2
    <3>. QED  BY <1>2, <3>1
  <2>. QED  BY <2>1, <2>2
<1>. HIDE DEF S
<1>3. Nat \subseteq S
  BY <1>1, <1>2, NatInduct
<1>4. \E i \in T : \A j \in T : i >= j
  BY <1>3 DEF S
<1>. QED  BY <1>4 DEF Max

LEMMA GreatestOf ==
    ASSUME NEW T \in SUBSET Nat, IsFiniteSet(T), T # {}
    PROVE  Max(T) \in T /\ \A j \in T : Max(T) >= j
<1>. DEFINE S == {n \in Nat : \A U \in SUBSET Nat : IsFiniteSet(U) /\ Cardinality(U) = n
                                 => \E bound \in Nat : U \subseteq 0..bound}
<1>1. 0 \in S
  <2>1. \A U : IsFiniteSet(U) /\ Cardinality(U) = 0 => U = {}
    BY FS_EmptySet
  <2>2. {} \subseteq 0..0
    OBVIOUS
  <2>. QED  BY <2>1, <2>2
<1>2. ASSUME NEW n \in Nat, n \in S PROVE n + 1 \in S
  <2>. SUFFICES ASSUME NEW U \in SUBSET Nat, IsFiniteSet(U), Cardinality(U) = n + 1
                PROVE  \E bound \in Nat : U \subseteq 0..bound
    OBVIOUS
  <2>1. U # {}
    BY FS_EmptySet
  <2>2. PICK x \in U : TRUE
    BY <2>1
  <2>3. IsFiniteSet(U \ {x}) /\ Cardinality(U \ {x}) = n
    <3>1. IsFiniteSet(U \ {x})
      BY FS_RemoveElement
    <3>2. Cardinality(U \ {x}) = Cardinality(U) - 1
      BY <2>2, FS_RemoveElement
    <3>. QED  BY <3>1, <3>2
  <2>4. PICK bound \in Nat : U \ {x} \subseteq 0..bound
    BY <1>2, <2>3
  <2>5. U \subseteq 0..(bound + x)
    BY <2>2, <2>4
  <2>6. bound + x \in Nat
    BY <2>2, <2>4
  <2>. QED  BY <2>5, <2>6
<1>. HIDE DEF S
<1>3. Nat \subseteq S
  BY <1>1, <1>2, NatInduct
<1>4. Cardinality(T) \in Nat
  BY FS_CardinalityType
<1>5. PICK bound \in Nat : T \subseteq 0..bound
  BY <1>3, <1>4 DEF S
<1>. QED  BY <1>5, GreatestBelow

\* The triggers of a file that a prompt has, as the property reads them.
Has(prompt, f) ==
    {t \in f.triggers : Len(t) > 1 /\ \E i \in 1..Len(prompt) : \E j \in i..Len(prompt) :
                                        SubSeq(prompt, i, j) = t}

LEMMA PartsAgree ==
    ASSUME NEW p \in Seq(STRING), NEW t \in Seq(STRING), Len(t) > 1
    PROVE  IsContiguousSubslice(p, t)
              <=> \E i \in 1..Len(p) : \E j \in i..Len(p) : SubSeq(p, i, j) = t
<1>1. Len(p) \in Nat /\ Len(t) \in Nat
  OBVIOUS
<1>2. ASSUME IsContiguousSubslice(p, t)
      PROVE  \E i \in 1..Len(p) : \E j \in i..Len(p) : SubSeq(p, i, j) = t
  <2>1. PICK i \in 0..(Len(p) - Len(t)) : SubSeq(p, i + 1, i + Len(t)) = t
    BY <1>2 DEF IsContiguousSubslice
  <2>2. i + 1 \in 1..Len(p) /\ i + Len(t) \in (i + 1)..Len(p)
    BY <1>1, <2>1
  <2>. QED  BY <2>1, <2>2
<1>3. ASSUME NEW i \in 1..Len(p), NEW j \in i..Len(p), SubSeq(p, i, j) = t
      PROVE  IsContiguousSubslice(p, t)
  <2>1. Len(SubSeq(p, i, j)) = j - i + 1
    OBVIOUS
  <2>2. Len(t) = j - i + 1
    BY <1>3, <2>1
  <2>3. i - 1 \in 0..(Len(p) - Len(t)) /\ (i - 1) + 1 = i /\ (i - 1) + Len(t) = j
    BY <1>1, <2>2
  <2>4. SubSeq(p, (i - 1) + 1, (i - 1) + Len(t)) = t
    BY <1>3, <2>3
  <2>. QED  BY <2>3, <2>4 DEF IsContiguousSubslice
<1>. QED  BY <1>2, <1>3

\* The score of a file is the length of its longest trigger in the prompt.
LEMMA ScoreIsLongest ==
    ASSUME NEW p \in Seq(STRING), NEW f, f.triggers \subseteq Seq(STRING)
    PROVE  /\ Score(p, f) \in Nat
           /\ \A u \in Has(p, f) : Len(u) \in Nat /\ 0 < Len(u) /\ Len(u) <= Score(p, f)
           /\ Score(p, f) # 0 => \E t \in Has(p, f) : Len(t) = Score(p, f)
<1>. DEFINE matching == {u \in Triggers(f) : IsContiguousSubslice(p, u)}
            lengths == {Len(t) : t \in matching} \cup {0}
<1>1. matching = Has(p, f)
  <2>1. \A t \in f.triggers : Len(t) \in Nat
    OBVIOUS
  <2>2. \A t \in f.triggers : Len(t) >= MinTriggerTokens <=> Len(t) > 1
    BY <2>1 DEF MinTriggerTokens
  <2>3. \A t \in f.triggers : Len(t) > 1 =>
           (IsContiguousSubslice(p, t)
               <=> \E i \in 1..Len(p) : \E j \in i..Len(p) : SubSeq(p, i, j) = t)
    BY PartsAgree
  <2>. QED  BY <2>2, <2>3 DEF Triggers, Has
<1>2. Len(p) \in Nat
  OBVIOUS
<1>3. \A u \in matching : Len(u) \in 2..Len(p)
  <2>. SUFFICES ASSUME NEW u \in matching PROVE Len(u) \in 2..Len(p)
    OBVIOUS
  <2>1. u \in Seq(STRING) /\ Len(u) >= 2
    BY DEF Triggers, MinTriggerTokens
  <2>2. PICK i \in 0..(Len(p) - Len(u)) : TRUE
    BY DEF IsContiguousSubslice
  <2>. QED  BY <1>2, <2>1, <2>2
<1>4. Score(p, f) = Max(lengths)
  BY DEF Score
<1>. HIDE DEF matching
<1>5. lengths \in SUBSET (0..Len(p)) /\ lengths # {} /\ \A u \in matching : Len(u) \in lengths
  BY <1>2, <1>3
<1>6. lengths \ {0} = {Len(t) : t \in matching}
  BY <1>3
<1>. HIDE DEF lengths
<1>7. Max(lengths) \in lengths /\ \A j \in lengths : Max(lengths) >= j
  BY <1>2, <1>5, GreatestBelow
<1>8. PICK score : score = Score(p, f)
  OBVIOUS
<1>9. score \in 0..Len(p) /\ score \in lengths /\ \A j \in lengths : score >= j
  BY <1>4, <1>5, <1>7, <1>8
<1>10. score # 0 => \E t \in matching : Len(t) = score
  BY <1>6, <1>9
<1>11. \A u \in matching : Len(u) \in Nat /\ 0 < Len(u) /\ Len(u) <= score
  BY <1>2, <1>3, <1>5, <1>9
<1>. QED  BY <1>1, <1>2, <1>8, <1>9, <1>10, <1>11

\* Where the pass over the scan stands after the names up to n.
Leads(p, d, n, best) ==
    \/ /\ best.skill = {} /\ best.score = 0
       /\ \A m \in Scan(d) : m <= n => Score(p, d[m]) = 0
    \/ \E l \in Scan(d) :
          /\ l <= n /\ best.skill = {l} /\ best.score = Score(p, d[l]) /\ best.score > 0
          /\ \A m \in Scan(d) : m <= n =>
                \/ best.score > Score(p, d[m])
                \/ best.score = Score(p, d[m]) /\ l <= m

LEMMA NextLeads ==
    ASSUME NEW p, NEW d, NEW n \in Nat, NEW best, Leads(p, d, n, best),
           \A m \in Scan(d) : m \in Nat /\ Score(p, d[m]) \in Nat
    PROVE  /\ n + 1 \in Scan(d) => Leads(p, d, n + 1, Better(best, n + 1, p, d))
           /\ n + 1 \notin Scan(d) => Leads(p, d, n + 1, best)
<1>1. \A m \in Scan(d) : m <= n + 1 <=> m <= n \/ m = n + 1
  OBVIOUS
<1>2. ASSUME n + 1 \notin Scan(d) PROVE Leads(p, d, n + 1, best)
  <2>1. \A m \in Scan(d) : m <= n + 1 <=> m <= n
    BY <1>1, <1>2
  <2>. QED  BY <2>1 DEF Leads
<1>3. ASSUME n + 1 \in Scan(d) PROVE Leads(p, d, n + 1, Better(best, n + 1, p, d))
  <2>1. PICK score : score = Score(p, d[n + 1])
    OBVIOUS
  <2>2. score \in Nat
    BY <1>3, <2>1
  <2>3. PICK new : new = Better(best, n + 1, p, d)
    OBVIOUS
  <2>4. CASE score > best.score
    <3>1. new = [skill |-> {n + 1}, score |-> score]
      BY <2>1, <2>3, <2>4 DEF Better
    <3>2. new.skill = {n + 1} /\ new.score = score
      BY <3>1
    <3>3. best.score \in Nat /\ \A m \in Scan(d) : m <= n => best.score >= Score(p, d[m])
      BY DEF Leads
    <3>4. \A m \in Scan(d) : m <= n + 1 =>
              new.score > Score(p, d[m]) \/ (new.score = Score(p, d[m]) /\ n + 1 <= m)
      <4>. SUFFICES ASSUME NEW m \in Scan(d), m <= n + 1
                    PROVE  \/ new.score > Score(p, d[m])
                           \/ new.score = Score(p, d[m]) /\ n + 1 <= m
        OBVIOUS
      <4>1. CASE m <= n
        BY <2>2, <2>4, <3>2, <3>3, <4>1
      <4>2. CASE m = n + 1
        BY <2>1, <3>2, <4>2
      <4>. QED  BY <1>1, <4>1, <4>2
    <3>5. new.score > 0
      BY <2>2, <2>4, <3>2, <3>3
    <3>. QED  BY <1>3, <2>1, <2>3, <3>2, <3>4, <3>5 DEF Leads
  <2>5. CASE ~(score > best.score)
    <3>1. new = best
      BY <2>1, <2>3, <2>5 DEF Better
    <3>2. CASE /\ best.skill = {} /\ best.score = 0
               /\ \A m \in Scan(d) : m <= n => Score(p, d[m]) = 0
      <4>1. score = 0
        BY <2>2, <2>5, <3>2
      <4>2. \A m \in Scan(d) : m <= n + 1 => Score(p, d[m]) = 0
        BY <1>1, <2>1, <3>2, <4>1
      <4>. QED  BY <2>3, <3>1, <3>2, <4>2 DEF Leads
    <3>3. ASSUME NEW l \in Scan(d), l <= n, best.skill = {l},
                 best.score = Score(p, d[l]), best.score > 0,
                 \A m \in Scan(d) : m <= n => \/ best.score > Score(p, d[m])
                                              \/ best.score = Score(p, d[m]) /\ l <= m
          PROVE  Leads(p, d, n + 1, new)
      <4>1. l <= n + 1
        BY <3>3
      <4>2. \A m \in Scan(d) : m <= n + 1 => \/ best.score > Score(p, d[m])
                                             \/ best.score = Score(p, d[m]) /\ l <= m
        <5>. SUFFICES ASSUME NEW m \in Scan(d), m <= n + 1
                      PROVE  \/ best.score > Score(p, d[m])
                             \/ best.score = Score(p, d[m]) /\ l <= m
          OBVIOUS
        <5>1. CASE m <= n
          BY <3>3, <5>1
        <5>2. CASE m = n + 1
          <6>1. best.score \in Nat
            BY <3>3
          <6>2. best.score >= score
            BY <2>2, <2>5, <6>1
          <6>3. l <= m
            BY <4>1, <5>2
          <6>4. best.score > score \/ best.score = score
            BY <2>2, <6>1, <6>2
          <6>. QED  BY <2>1, <5>2, <6>3, <6>4
        <5>. QED  BY <1>1, <5>1, <5>2
      <4>. QED  BY <3>1, <3>3, <4>1, <4>2 DEF Leads
    <3>. QED  BY <2>3, <3>2, <3>3 DEF Leads
  <2>. QED  BY <2>3, <2>4, <2>5
<1>. QED  BY <1>2, <1>3

Passed(p, d, best, n) == IF n \in Scan(d) THEN Better(best, n, p, d) ELSE best
Passes(p, d, top, f) ==
    f = [n \in 0..top |-> IF n = 0 THEN [skill |-> {}, score |-> 0]
                          ELSE Passed(p, d, f[n - 1], n)]

LEMMA PassesExist ==
    ASSUME NEW p, NEW d, NEW top \in Nat PROVE \E f : Passes(p, d, top, f)
<1>. DEFINE S == {m \in Nat : \E f : Passes(p, d, m, f)}
            base == [skill |-> {}, score |-> 0]
<1>1. 0 \in S
  <2>1. Passes(p, d, 0, [n \in 0..0 |-> base])
    BY DEF Passes
  <2>. QED  BY <2>1
<1>2. ASSUME NEW m \in Nat, m \in S PROVE m + 1 \in S
  <2>1. PICK f : Passes(p, d, m, f)
    BY <1>2
  <2>. DEFINE h == [n \in 0..m + 1 |-> IF n = m + 1 THEN Passed(p, d, f[m], n) ELSE f[n]]
  <2>2. \A n \in 0..m : h[n] = f[n] /\ f[n] = IF n = 0 THEN base ELSE Passed(p, d, f[n - 1], n)
    <3>1. \A n \in 0..m : n \in 0..m + 1 /\ n # m + 1
      OBVIOUS
    <3>2. \A n \in 0..m : h[n] = f[n]
      BY <3>1
    <3>3. \A n \in 0..m : f[n] = IF n = 0 THEN base ELSE Passed(p, d, f[n - 1], n)
      <4>. HIDE DEF h
      <4>. QED  BY <2>1 DEF Passes
    <3>. QED  BY <3>2, <3>3
  <2>3. ASSUME NEW n \in 0..m + 1
        PROVE  h[n] = IF n = 0 THEN base ELSE Passed(p, d, h[n - 1], n)
    <3>1. CASE n = m + 1
      <4>1. n # 0 /\ n - 1 = m /\ h[m] = f[m]
        BY <3>1
      <4>. QED  BY <3>1, <4>1
    <3>2. CASE n \in 0..m
      <4>1. n # 0 => n - 1 \in 0..m
        BY <3>2
      <4>2. h[n] = f[n] /\ (n # 0 => h[n - 1] = f[n - 1])
        BY <3>2, <4>1, <2>2
      <4>. HIDE DEF h, base
      <4>. QED  BY <3>2, <4>2, <2>2
    <3>. QED  BY <3>1, <3>2
  <2>4. Passes(p, d, m + 1, h)
    BY <2>3 DEF Passes
  <2>. QED  BY <2>4
<1>. HIDE DEF S
<1>3. Nat \subseteq S
  BY <1>1, <1>2, NatInduct
<1>. QED  BY <1>3 DEF S

LEMMA TriggerLeads ==
    ASSUME NEW p \in Seq(STRING), NEW d,
           \A m \in Children : Worded(d[m])
    PROVE  \E best : MatchTrigger(p, d) = best.skill /\ Leads(p, d, Max(Children), best)
<1>1. Children \in SUBSET Nat /\ Children # {} /\ IsFiniteSet(Children) /\ 0 \notin Children
  BY NamesAssumption DEF Names
<1>2. PICK top : top = Max(Children)
  OBVIOUS
<1>3. top \in Nat
  BY <1>1, <1>2, GreatestOf
<1>4. \A m \in Scan(d) : m \in Nat /\ m # 0 /\ Score(p, d[m]) \in Nat
  <2>. SUFFICES ASSUME NEW m \in Scan(d)
                PROVE  m \in Nat /\ m # 0 /\ Score(p, d[m]) \in Nat
    OBVIOUS
  <2>1. m \in Children /\ d[m].triggers \subseteq Seq(STRING)
    BY DEF Scan, Eligible, Worded
  <2>2. PICK file : file = d[m]
    OBVIOUS
  <2>3. Score(p, file) \in Nat
    BY <2>1, <2>2, ScoreIsLongest
  <2>. QED  BY <1>1, <2>1, <2>2, <2>3
<1>. DEFINE f == CHOOSE g : Passes(p, d, top, g)
<1>5. Passes(p, d, top, f)
  BY <1>3, PassesExist
<1>6. MatchTrigger(p, d) = f[top].skill
  BY <1>2 DEF MatchTrigger, Passes, Passed
<1>. HIDE DEF f
<1>. DEFINE T == {n \in Nat : n <= top => Leads(p, d, n, f[n])}
<1>7. 0 \in T
  <2>1. f[0] = [skill |-> {}, score |-> 0]
    BY <1>3, <1>5 DEF Passes
  <2>2. \A m \in Scan(d) : ~(m <= 0)
    BY <1>4
  <2>3. Leads(p, d, 0, f[0])
    BY <2>1, <2>2 DEF Leads
  <2>. QED  BY <2>3
<1>8. ASSUME NEW n \in Nat, n \in T PROVE n + 1 \in T
  <2>. SUFFICES ASSUME n + 1 <= top PROVE Leads(p, d, n + 1, f[n + 1])
    OBVIOUS
  <2>1. n <= top /\ n + 1 \in 0..top /\ (n + 1) - 1 = n /\ n + 1 # 0
    BY <1>3
  <2>2. Leads(p, d, n, f[n])
    BY <1>8, <2>1
  <2>3. f[n + 1] = IF n + 1 \in Scan(d) THEN Better(f[n], n + 1, p, d) ELSE f[n]
    BY <1>5, <2>1 DEF Passes, Passed
  <2>4. PICK best : best = f[n]
    OBVIOUS
  <2>5. /\ n + 1 \in Scan(d) => Leads(p, d, n + 1, Better(best, n + 1, p, d))
        /\ n + 1 \notin Scan(d) => Leads(p, d, n + 1, best)
    BY <1>4, <2>2, <2>4, NextLeads
  <2>. QED  BY <2>3, <2>4, <2>5
<1>. HIDE DEF T
<1>9. Nat \subseteq T
  BY <1>7, <1>8, NatInduct
<1>10. Leads(p, d, top, f[top])
  BY <1>3, <1>9 DEF T
<1>. QED  BY <1>2, <1>6, <1>10

\* A Skill of the scan with a trigger in the prompt that no other Skill's
\* trigger is longer than, the first of those by name.
Wins(p, d, n) ==
    \E t \in Has(p, d[n]) : \A m \in Scan(d) : \A u \in Has(p, d[m]) :
        Len(t) > Len(u) \/ (Len(t) = Len(u) /\ n <= m)

LEMMA TriggerIsBest ==
    ASSUME NEW p \in Seq(STRING), NEW d, \A m \in Children : Worded(d[m])
    PROVE  MatchTrigger(p, d) = {n \in Scan(d) : Wins(p, d, n)}
<1>1. PICK best : MatchTrigger(p, d) = best.skill /\ Leads(p, d, Max(Children), best)
  BY TriggerLeads
<1>2. \A m \in Scan(d) : m \in Nat /\ m <= Max(Children)
  <2>1. Children \in SUBSET Nat /\ Children # {} /\ IsFiniteSet(Children)
    BY NamesAssumption DEF Names
  <2>2. Max(Children) \in Nat /\ \A m \in Children : Max(Children) >= m
    BY <2>1, GreatestOf
  <2>. QED  BY <2>1, <2>2 DEF Scan
<1>3. ASSUME NEW m \in Scan(d)
      PROVE  /\ Score(p, d[m]) \in Nat
             /\ \A u \in Has(p, d[m]) : /\ Len(u) \in Nat /\ 0 < Len(u)
                                        /\ Len(u) <= Score(p, d[m])
             /\ Score(p, d[m]) # 0 => \E t \in Has(p, d[m]) : Len(t) = Score(p, d[m])
  <2>1. d[m].triggers \subseteq Seq(STRING)
    BY DEF Scan, Eligible, Worded
  <2>2. PICK file : file = d[m]
    OBVIOUS
  <2>. QED  BY <2>1, <2>2, ScoreIsLongest
<1>4. CASE /\ best.skill = {} /\ \A m \in Scan(d) : Score(p, d[m]) = 0
  <2>1. \A m \in Scan(d) : Has(p, d[m]) = {}
    BY <1>3, <1>4
  <2>2. \A n \in Scan(d) : ~Wins(p, d, n)
    BY <2>1 DEF Wins
  <2>. QED  BY <1>1, <1>4, <2>2
<1>5. ASSUME NEW l \in Scan(d), best.skill = {l}, best.score = Score(p, d[l]), best.score > 0,
             \A m \in Scan(d) : \/ best.score > Score(p, d[m])
                                \/ best.score = Score(p, d[m]) /\ l <= m
      PROVE  MatchTrigger(p, d) = {n \in Scan(d) : Wins(p, d, n)}
  <2>1. PICK t \in Has(p, d[l]) : Len(t) = best.score
    BY <1>3, <1>5
  <2>2. Wins(p, d, l)
    <3>. SUFFICES ASSUME NEW m \in Scan(d), NEW u \in Has(p, d[m])
                  PROVE  Len(t) > Len(u) \/ (Len(t) = Len(u) /\ l <= m)
      BY <2>1 DEF Wins
    <3>1. Len(u) \in Nat /\ Len(u) <= Score(p, d[m]) /\ Score(p, d[m]) \in Nat
      BY <1>3
    <3>2. best.score \in Nat
      BY <1>3, <1>5
    <3>3. best.score > Score(p, d[m]) \/ (best.score = Score(p, d[m]) /\ l <= m)
      BY <1>5
    <3>. QED  BY <2>1, <3>1, <3>2, <3>3
  <2>3. ASSUME NEW n \in Scan(d), Wins(p, d, n) PROVE n = l
    <3>1. PICK v \in Has(p, d[n]) : \A m \in Scan(d) : \A u \in Has(p, d[m]) :
              Len(v) > Len(u) \/ (Len(v) = Len(u) /\ n <= m)
      BY <2>3 DEF Wins
    <3>2. Len(v) > Len(t) \/ (Len(v) = Len(t) /\ n <= l)
      BY <2>1, <3>1
    <3>3. Len(v) \in Nat /\ Len(v) <= Score(p, d[n]) /\ Score(p, d[n]) \in Nat
      BY <1>3
    <3>4. best.score \in Nat
      BY <1>3, <1>5
    <3>5. best.score > Score(p, d[n]) \/ (best.score = Score(p, d[n]) /\ l <= n)
      BY <1>5
    <3>6. n <= l /\ l <= n
      BY <2>1, <3>2, <3>3, <3>4, <3>5
    <3>. QED  BY <1>2, <3>6
  <2>. QED  BY <1>1, <1>5, <2>2, <2>3
<1>6. \/ /\ best.skill = {} /\ \A m \in Scan(d) : Score(p, d[m]) = 0
      \/ \E l \in Scan(d) :
            /\ best.skill = {l} /\ best.score = Score(p, d[l]) /\ best.score > 0
            /\ \A m \in Scan(d) : \/ best.score > Score(p, d[m])
                                  \/ best.score = Score(p, d[m]) /\ l <= m
  BY <1>1, <1>2 DEF Leads
<1>. QED  BY <1>4, <1>5, <1>6

(***************************************************************************)
(* The files on disk, and the texts in them.                               *)
(***************************************************************************)
Texts == \A n \in Names : Worded(disk[n])

LEMMA TextsStay ==
    ASSUME Typed, Texts, NEW n, NEW f, Worded(f), disk' = [disk EXCEPT ![n] = f]
    PROVE  Texts'
BY DEF Typed, Texts

LEMMA TextsInvariance == IInv /\ Texts /\ [Next]_vars => Texts'
<1>. SUFFICES ASSUME Typed, Texts, [Next]_vars PROVE Texts'
  BY DEF IInv
<1>1. Worded(Absent) /\ Worded(Torn) /\ Worded(Bundled)
  BY WordsAssumption DEF Worded, Absent, Torn
<1>2. CASE EditSkill
  <2>1. PICK n \in Names : \E f \in Drafts[n] \cup {Absent} : Saved(n, f)
    BY <1>2 DEF EditSkill
  <2>2. PICK f \in Drafts[n] \cup {Absent} : Saved(n, f)
    BY <2>1
  <2>3. Worded(f)
    BY <1>1, <2>2, WordsAssumption
  <2>4. disk' = [disk EXCEPT ![n] = f]
    BY <2>2 DEF Saved
  <2>. QED  BY <2>3, <2>4, TextsStay
<1>3. CASE disk' = disk
  BY <1>3 DEF Texts
<1>4. CASE OpenSeed \/ FillSeed \/ ReplaceSeed \/ RefillSeed
  <2>1. disk' = disk \/ \E f \in {Absent, Torn, Bundled} : \E n : disk' = [disk EXCEPT ![n] = f]
    BY <1>4 DEF OpenSeed, FillSeed, ReplaceSeed, RefillSeed, Puts
  <2>2. ASSUME NEW f \in {Absent, Torn, Bundled}, NEW n, disk' = [disk EXCEPT ![n] = f]
        PROVE  Texts'
    <3>1. Worded(f)
      BY <1>1
    <3>. QED  BY <2>2, <3>1, TextsStay
  <2>. QED  BY <1>3, <2>1, <2>2
<1>5. CASE \/ EditWorkflow \/ ProvisionToken \/ Boot \/ SeedIfAbsent \/ MakeSkillDir
           \/ MigrateLegacySeed \/ Dispatch \/ Resume \/ CallSkill \/ CallTool \/ Propose
           \/ End \/ Accept \/ Reject \/ Crash \/ UNCHANGED vars
  <2>1. disk' = disk
    BY <1>5 DEF EditWorkflow, ProvisionToken, Boot, SeedIfAbsent, MakeSkillDir,
       MigrateLegacySeed, Dispatch, Resume, CallSkill, CallTool, Propose, End, Accept, Reject,
       Crash, Same, files, vars
  <2>. QED  BY <1>3, <2>1
<1>. QED  BY <1>2, <1>4, <1>5 DEF Next

LEMMA AlwaysTexts == Spec => []Texts
<1>1. Init => Texts
  <2>. SUFFICES ASSUME Init PROVE Texts
    OBVIOUS
  <2>1. \A n \in Names : disk[n] = Absent \/ (n \in DOMAIN Legacy /\ disk[n] = Legacy[n])
    BY DEF Init
  <2>2. Worded(Absent)
    BY DEF Worded, Absent
  <2>. QED  BY <2>1, <2>2, WordsAssumption DEF Texts
<1>. QED  BY <1>1, AlwaysIInv, TextsInvariance, PTL DEF Spec

(***************************************************************************)
(* The theorems.                                                           *)
(***************************************************************************)
\* The Skills a model may load are those its prompt lists, the tools it is
\* served those it was offered, the account a task is posted to the one its
\* card showed, and the list of tasks whole or marked as cut: however files,
\* Core and the Run change in between, for any Skills, tools, accounts and
\* tasks and any number of edits and boots (skills.rs, tools/mod.rs,
\* ticktick_write.rs, ticktick/wire.rs).
THEOREM ServedAsShown == Spec => []ShownIsServed
<1>1. IInv => ShownIsServed
  BY TypesFollow, AccountsFollow, TasksFollow DEF IInv, RunFacts, ShownIsServed
<1>. QED  BY AlwaysIInv, <1>1, PTL

\* No boot changes a Skill the user wrote or removed, crashes in the middle of
\* an earlier boot included, unless the file is to the byte one an earlier
\* release wrote (skills.rs seed_if_absent, migrate_legacy_seeds).
THEOREM BootSparesUserSkills == Spec => UserHasTheLastWord
<1>1. IInv /\ [Next]_vars
      => [\A n \in mine :
             disk'[n] # disk[n] =>
                \/ edits' # edits
                \/ n \in DOMAIN Legacy /\ disk[n] = Legacy[n]]_vars
  <2>. SUFFICES ASSUME IInv, [Next]_vars, NEW n \in mine, disk'[n] # disk[n]
                PROVE  \/ edits' # edits
                       \/ n \in DOMAIN Legacy /\ disk[n] = Legacy[n]
    OBVIOUS
  <2>1. CASE BootSteps
    BY <2>1, BootStep
  <2>2. CASE EditSkill \/ EditWorkflow \/ ProvisionToken
    <3>1. Edit
      BY <2>2 DEF EditSkill, EditWorkflow, ProvisionToken
    <3>2. edits \in Nat /\ edits' = edits + 1
      BY <3>1 DEF IInv, Typed, Edit
    <3>. QED  BY <3>2
  <2>3. CASE \/ Dispatch \/ Resume \/ CallSkill \/ CallTool \/ Propose \/ End
             \/ Accept \/ Reject \/ Crash \/ UNCHANGED vars
    <3>1. disk' = disk
      BY <2>3 DEF Dispatch, Resume, CallSkill, CallTool, Propose, End, Accept, Reject,
         Crash, Same, files, vars
    <3>. QED  BY <3>1
  <2>. QED  BY <2>1, <2>2, <2>3 DEF Next, BootSteps
<1>. QED  BY AlwaysIInv, <1>1, PTL DEF Spec, UserHasTheLastWord

\* A new Run's directive is the Skill with the longest trigger in the prompt,
\* the first by name among equals, whenever some Skill it is told of has a
\* trigger there, and none otherwise; a resumed Run has none: for any prompts
\* and Skills, whatever was edited before (skills.rs match_trigger,
\* worker/mod.rs the prompt of a manifest).
THEOREM DirectiveAlwaysBest == Spec => DirectiveIsBest
<1>. DEFINE A == run.pc # "live" /\ run'.pc = "live" =>
                     run'.system.directive =
                       IF run.pc = "parked" THEN {}
                       ELSE {n \in DOMAIN run'.system.skills : BestFor(run'.prompt, n)}
<1>1. IInv /\ Texts /\ [Next]_vars => A
  <2>. SUFFICES ASSUME IInv, Texts, [Next]_vars, run.pc # "live", run'.pc = "live" PROVE A
    OBVIOUS
  <2>1. CASE Dispatch
    <3>1. PICK p \in Prompts : run' = Manifest(p, AugmentedSystemPromptWithTrigger(p))
      BY <2>1 DEF Dispatch, Spawns
    <3>2. run.pc = "idle"
      BY <2>1 DEF Dispatch
    <3>3. PICK system : system = AugmentedSystemPromptWithTrigger(p)
      OBVIOUS
    <3>4. DOMAIN system.skills = Scan(disk) /\ system.directive = MatchTrigger(p, disk)
      BY <3>3 DEF AugmentedSystemPromptWithTrigger, AugmentedSystemPrompt
    <3>5. run'.prompt = p /\ run'.system = system
      BY <3>1, <3>3 DEF Manifest
    <3>6. \A m \in Children : Worded(disk[m])
      BY DEF Texts, Names
    <3>7. p \in Seq(STRING)
      BY WordsAssumption
    <3>8. MatchTrigger(p, disk) = {n \in Scan(disk) : Wins(p, disk, n)}
      BY <3>6, <3>7, TriggerIsBest
    <3>9. \A n : Wins(p, disk, n) <=> BestFor(p, n)
      BY <3>4, <3>5 DEF Wins, BestFor, Has, Found
    <3>. QED  BY <3>2, <3>4, <3>5, <3>8, <3>9
  <2>2. CASE Resume
    <3>1. run.pc = "parked" /\ run' = Manifest(None, AugmentedSystemPrompt)
      BY <2>2 DEF Resume, Spawns
    <3>2. run'.system.directive = {}
      BY <3>1 DEF Manifest, AugmentedSystemPrompt
    <3>. QED  BY <3>1, <3>2
  <2>3. CASE CallSkill \/ CallTool \/ Propose \/ End
    BY <2>3 DEF CallSkill, CallTool, Propose, End
  <2>4. CASE ~(Dispatch \/ Resume \/ CallSkill \/ CallTool \/ Propose \/ End)
    <3>1. run' = run \/ Ends
      BY <2>4 DEF Next, vars, EditSkill, EditWorkflow, ProvisionToken, Boot, SeedIfAbsent,
         MakeSkillDir, OpenSeed, FillSeed, MigrateLegacySeed, ReplaceSeed, RefillSeed,
         Accept, Reject, Crash, Rest
    <3>2. Ends => run'.pc = "over"
      BY DEF Ends, Idle
    <3>. QED  BY <3>1, <3>2
  <2>. QED  BY <2>1, <2>2, <2>3, <2>4
<1>2. IInv /\ Texts /\ [Next]_vars => [A]_vars
  BY <1>1
<1>. QED  BY AlwaysIInv, AlwaysTexts, <1>2, PTL DEF Spec, DirectiveIsBest

(***************************************************************************)
(* Library.                                                                *)
(***************************************************************************)

(***************************************************************************)
(* Ordering: a row stands at the number of rows before it, and no two rows *)
(* have the same number.                                                   *)
(***************************************************************************)
Triples == Int \X Int \X Int

Columns(f) ==
    /\ f = [r \in DOMAIN f |-> f[r]] /\ IsFiniteSet(DOMAIN f)
    /\ \A r \in DOMAIN f : f[r] \in Triples
    /\ \A r, q \in DOMAIN f : f[r] = f[q] => r = q

Ahead(f, r) == {q \in DOMAIN f : Later(f[q], f[r])}

LEMMA LaterIrreflexive == \A a \in Triples : ~Later(a, a)
BY SMT DEF Later, Triples

LEMMA LaterTotal == \A a, b \in Triples : a # b => Later(a, b) \/ Later(b, a)
BY SMT DEF Later, Triples

LEMMA LaterTransitive ==
  \A a, b, c \in Triples : Later(a, b) /\ Later(b, c) => Later(a, c)
BY SMT DEF Later, Triples

LEMMA AheadCounts ==
  ASSUME NEW f, Columns(f), NEW r \in DOMAIN f
  PROVE  /\ IsFiniteSet(Ahead(f, r))
         /\ Cardinality(DOMAIN f) \in Nat
         /\ Cardinality(Ahead(f, r)) \in 0 .. Cardinality(DOMAIN f) - 1
<1>1. Ahead(f, r) \subseteq DOMAIN f /\ IsFiniteSet(DOMAIN f)
  BY DEF Ahead, Columns
<1>2. r \notin Ahead(f, r)
  BY LaterIrreflexive DEF Ahead, Columns
<1>3. IsFiniteSet(Ahead(f, r)) /\ Cardinality(Ahead(f, r)) <= Cardinality(DOMAIN f)
      /\ Cardinality(DOMAIN f) # Cardinality(Ahead(f, r))
  BY <1>1, <1>2, FS_Subset
<1>4. Cardinality(Ahead(f, r)) \in Nat /\ Cardinality(DOMAIN f) \in Nat
  BY <1>1, <1>3, FS_CardinalityType
<1>. QED  BY <1>3, <1>4

LEMMA AheadApart ==
  ASSUME NEW f, Columns(f), NEW r \in DOMAIN f, NEW q \in DOMAIN f,
         Cardinality(Ahead(f, r)) = Cardinality(Ahead(f, q))
  PROVE  r = q
<1>1. ASSUME NEW a \in DOMAIN f, NEW b \in DOMAIN f, Later(f[a], f[b])
      PROVE  Cardinality(Ahead(f, a)) # Cardinality(Ahead(f, b))
  <2>1. f[a] \in Triples /\ f[b] \in Triples
    BY DEF Columns
  <2>2. Ahead(f, a) \subseteq Ahead(f, b)
    <3>. SUFFICES ASSUME NEW x \in Ahead(f, a) PROVE x \in Ahead(f, b)
      OBVIOUS
    <3>1. x \in DOMAIN f /\ Later(f[x], f[a]) /\ f[x] \in Triples
      BY DEF Ahead, Columns
    <3>. QED  BY <3>1, <1>1, <2>1, LaterTransitive DEF Ahead
  <2>3. a \in Ahead(f, b) /\ a \notin Ahead(f, a)
    BY <1>1, <2>1, LaterIrreflexive DEF Ahead
  <2>. QED  BY <2>2, <2>3, AheadCounts, FS_Subset
<1>2. f[r] \in Triples /\ f[q] \in Triples
  BY DEF Columns
<1>3. ~Later(f[r], f[q]) /\ ~Later(f[q], f[r])
  BY <1>1
<1>4. f[r] = f[q]
  BY <1>2, <1>3, LaterTotal
<1>. QED  BY <1>4 DEF Columns

\* An ordered set of rows is a sequence in which each row occurs.
LEMMA OrderByHolds ==
  ASSUME NEW f, Columns(f)
  PROVE  /\ OrderBy(f) \in Seq(DOMAIN f)
         /\ Len(OrderBy(f)) = Cardinality(DOMAIN f)
         /\ DOMAIN OrderBy(f) = 1 .. Cardinality(DOMAIN f)
         /\ \A r \in DOMAIN f : \E k \in DOMAIN OrderBy(f) : OrderBy(f)[k] = r
<1>. DEFINE n == Cardinality(DOMAIN f)
            rank == [r \in DOMAIN f |-> Cardinality(Ahead(f, r))]
<1>1. n \in Nat /\ IsFiniteSet(DOMAIN f)
  BY FS_CardinalityType DEF Columns
<1>2. rank \in [DOMAIN f -> 0 .. n - 1]
  BY AheadCounts
<1>3. \A r, q \in DOMAIN f : rank[r] = rank[q] => r = q
  BY AheadApart
<1>4. IsFiniteSet(0 .. n - 1) /\ Cardinality(0 .. n - 1) = n
  <2>1. 0 \in Int /\ n - 1 \in Int
    BY <1>1
  <2>2. IsFiniteSet(0 .. n - 1)
    BY <2>1, FS_Interval
  <2>3. Cardinality(0 .. n - 1) = IF 0 > n - 1 THEN 0 ELSE (n - 1) - 0 + 1
    BY <2>1, FS_Interval
  <2>. QED  BY <2>2, <2>3, <1>1
<1>5. rank \in Surjection(DOMAIN f, 0 .. n - 1)
  <2>1. rank \in Injection(DOMAIN f, 0 .. n - 1)
    BY <1>2, <1>3 DEF Injection, IsInjective
  <2>. QED  BY <2>1, <1>1, <1>4, FS_Injection
<1>6. \A k \in 0 .. n - 1 : \E r \in DOMAIN f : rank[r] = k
  BY <1>5 DEF Surjection
<1>7. OrderBy(f) = [k \in 1 .. n |-> CHOOSE r \in DOMAIN f : Cardinality(Ahead(f, r)) = k - 1]
  BY DEF OrderBy, Ahead
<1>8. \A k \in 1 .. n : OrderBy(f)[k] \in DOMAIN f /\ Cardinality(Ahead(f, OrderBy(f)[k])) = k - 1
  <2>. TAKE k \in 1 .. n
  <2>1. k - 1 \in 0 .. n - 1
    BY <1>1
  <2>2. \E r \in DOMAIN f : Cardinality(Ahead(f, r)) = k - 1
    BY <2>1, <1>6
  <2>. QED  BY <2>2, <1>7
<1>9. OrderBy(f) \in Seq(DOMAIN f) /\ Len(OrderBy(f)) = n /\ DOMAIN OrderBy(f) = 1 .. n
  BY <1>1, <1>7, <1>8
<1>10. ASSUME NEW r \in DOMAIN f PROVE \E k \in DOMAIN OrderBy(f) : OrderBy(f)[k] = r
  <2>. DEFINE k == Cardinality(Ahead(f, r)) + 1
  <2>1. k \in 1 .. n /\ k - 1 = Cardinality(Ahead(f, r))
    BY AheadCounts, <1>1
  <2>2. OrderBy(f)[k] \in DOMAIN f /\ Cardinality(Ahead(f, OrderBy(f)[k])) = Cardinality(Ahead(f, r))
    BY <2>1, <1>8
  <2>3. OrderBy(f)[k] = r
    BY <2>2, AheadApart
  <2>. QED  BY <2>1, <2>3, <1>9
<1>. QED  BY <1>9, <1>10

(***************************************************************************)
(* Sequences.                                                              *)
(***************************************************************************)
LEMMA SequenceFacts ==
  ASSUME NEW s, IsSequence(s)
  PROVE  Len(s) \in Nat /\ DOMAIN s = 1 .. Len(s) /\ (s # <<>> => 1 \in DOMAIN s /\ Len(s) \in DOMAIN s)
BY DEF IsSequence

LEMMA FunctionIsSequence ==
  ASSUME NEW n \in Nat, NEW f, f = [i \in 1 .. n |-> f[i]]
  PROVE  IsSequence(f) /\ Len(f) = n /\ DOMAIN f = 1 .. n
BY DEF IsSequence, ToSet

LEMMA SequenceWithin ==
  ASSUME NEW S, NEW s \in Seq(S)
  PROVE  IsSequence(s)
<1>1. Len(s) \in Nat /\ s = [i \in 1 .. Len(s) |-> s[i]]
  OBVIOUS
<1>. QED  BY <1>1, FunctionIsSequence

LEMMA AppendForms ==
  ASSUME NEW S, NEW s \in Seq(S), NEW x \in S
  PROVE  /\ Append(s, x) \in Seq(S) /\ Len(Append(s, x)) = Len(s) + 1
         /\ DOMAIN Append(s, x) = 1 .. Len(s) + 1
         /\ \A i \in DOMAIN s : Append(s, x)[i] = s[i]
         /\ Append(s, x)[Len(s) + 1] = x
OBVIOUS

LEMMA CatForms ==
  ASSUME NEW S, NEW s \in Seq(S), NEW t \in Seq(S)
  PROVE  /\ s \o t \in Seq(S) /\ Len(s \o t) = Len(s) + Len(t)
         /\ DOMAIN (s \o t) = 1 .. (Len(s) + Len(t))
         /\ \A i \in DOMAIN s : (s \o t)[i] = s[i]
         /\ \A i \in DOMAIN t : (s \o t)[Len(s) + i] = t[i]
OBVIOUS

LEMMA AppendHolds ==
  ASSUME NEW s, IsSequence(s), NEW x
  PROVE  /\ IsSequence(Append(s, x)) /\ Append(s, x) # <<>>
         /\ Len(Append(s, x)) = Len(s) + 1
         /\ DOMAIN Append(s, x) = 1 .. Len(s) + 1
         /\ \A i \in DOMAIN s : Append(s, x)[i] = s[i]
         /\ Append(s, x)[Len(s) + 1] = x
<1>. DEFINE S == ToSet(s) \cup {x}
<1>1. s \in Seq(S) /\ x \in S /\ Len(s) \in Nat
  BY DEF IsSequence
<1>. HIDE DEF S
<1>2. Append(s, x) \in Seq(S)
  BY <1>1
<1>3. IsSequence(Append(s, x))
  BY <1>2, SequenceWithin
<1>4. /\ Len(Append(s, x)) = Len(s) + 1
      /\ DOMAIN Append(s, x) = 1 .. Len(s) + 1
      /\ \A i \in DOMAIN s : Append(s, x)[i] = s[i]
      /\ Append(s, x)[Len(s) + 1] = x
  BY <1>1, AppendForms
<1>5. Append(s, x) # <<>>
  BY <1>1, <1>4
<1>. QED  BY <1>3, <1>4, <1>5

LEMMA CatHolds ==
  ASSUME NEW s, IsSequence(s), NEW t, IsSequence(t)
  PROVE  /\ IsSequence(s \o t)
         /\ Len(s \o t) = Len(s) + Len(t)
         /\ DOMAIN (s \o t) = 1 .. Len(s) + Len(t)
         /\ \A i \in DOMAIN s : (s \o t)[i] = s[i]
         /\ \A i \in DOMAIN t : (s \o t)[Len(s) + i] = t[i]
<1>. DEFINE S == ToSet(s) \cup ToSet(t)
<1>1. s \in Seq(S) /\ t \in Seq(S)
  BY DEF IsSequence
<1>. HIDE DEF S
<1>2. s \o t \in Seq(S)
  BY <1>1, CatForms
<1>3. IsSequence(s \o t)
  BY <1>2, SequenceWithin
<1>4. Len(s \o t) = Len(s) + Len(t) /\ DOMAIN (s \o t) = 1 .. Len(s) + Len(t)
  BY <1>1, CatForms
<1>5. \A i \in DOMAIN s : (s \o t)[i] = s[i]
  BY <1>1, CatForms
<1>6. \A i \in DOMAIN t : (s \o t)[Len(s) + i] = t[i]
  BY <1>1, CatForms
<1>. QED  BY <1>3, <1>4, <1>5, <1>6

LEMMA CatRight ==
  \A s, t : IsSequence(s) /\ IsSequence(t) =>
             \A i \in DOMAIN t : (s \o t)[Len(s) + i] = t[i]
<1>. SUFFICES ASSUME NEW s, NEW t, IsSequence(s), IsSequence(t)
              PROVE  \A i \in DOMAIN t : (s \o t)[Len(s) + i] = t[i]
  OBVIOUS
<1>. DEFINE S == ToSet(s) \cup ToSet(t)
<1>1. s \in Seq(S) /\ t \in Seq(S)
  BY DEF IsSequence
<1>. HIDE DEF S
<1>. QED  BY <1>1, CatForms

(***************************************************************************)
(* What a row needs of the tables it stands in stays when they widen.      *)
(***************************************************************************)
Wider(d, d2) ==
    /\ Ids(d) \subseteq Ids(d2)
    /\ \A e \in Ids(d) : d.ent[e] # Gone => d2.ent[e].type = d.ent[e].type

LEMMA TypesStay ==
  ASSUME NEW d, NEW d2, Wider(d, d2)
  PROVE  \A e : \A type \in {"journal_entry", "person", "habit"} :
            EntityIsType(d, e, type) => EntityIsType(d2, e, type)
BY DEF Wider, EntityIsType, Gone

LEMMA SourceRowsStay ==
  ASSUME NEW d, NEW d2, Wider(d, d2), NEW m, NEW m2, m \subseteq m2
  PROVE  \A row : SourceRowHolds(d, row, m) => SourceRowHolds(d2, row, m2)
<1>. SUFFICES ASSUME NEW row, SourceRowHolds(d, row, m), row # NoRow
              PROVE  SourceRowHolds(d2, row, m2)
  BY DEF SourceRowHolds
<1>1. (\E message \in m : row.source = MessageSource(message))
      \/ (\E e \in Ids(d) : EntityIsType(d, e, "journal_entry") /\ row.source = EntrySource(e))
  BY DEF SourceRowHolds
<1>2. (\E message \in m2 : row.source = MessageSource(message))
      \/ (\E e \in Ids(d2) : EntityIsType(d2, e, "journal_entry") /\ row.source = EntrySource(e))
  BY <1>1, TypesStay DEF Wider
<1>. QED  BY <1>2 DEF SourceRowHolds

LEMMA EntitiesStay ==
  ASSUME NEW d, NEW d2, Wider(d, d2), NEW m, NEW m2, m \subseteq m2
  PROVE  \A row : EntityHolds(d, row, m) => EntityHolds(d2, row, m2)
BY SourceRowsStay DEF EntityHolds

LEMMA RelationsAre ==
  \A schema, r : r \in RelationsOf(schema) <=>
      schema = "habit.checkin" /\ r = [schema |-> "habit.checkin", field |-> "habit_id", target |-> "habit"]
BY DEF RelationsOf, Relations

LEMMA FactsStay ==
  ASSUME NEW d, NEW d2, Wider(d, d2)
  PROVE  \A facts : FactsHold(d, facts) => FactsHold(d2, facts)
BY TypesStay, RelationsAre DEF FactsHold

LEMMA EvidenceStays ==
  ASSUME NEW d, NEW d2, Wider(d, d2), NEW m, NEW m2, m \subseteq m2
  PROVE  \A source : SourceHolds(d, source, m) => SourceHolds(d2, source, m2)
BY TypesStay DEF SourceHolds, Wider

LEMMA ObservationsStay ==
  ASSUME NEW d, NEW d2, Wider(d, d2), NEW m, NEW m2, m \subseteq m2
  PROVE  \A row : ObservationHolds(d, row, m) => ObservationHolds(d2, row, m2)
BY FactsStay, EvidenceStays DEF ObservationHolds

LEMMA RefsStay ==
  ASSUME NEW d, NEW d2, Wider(d, d2)
  PROVE  \A r : RefHolds(d, r) => RefHolds(d2, r)
BY TypesStay DEF RefHolds

(***************************************************************************)
(* Changes that delete nothing: a row keeps its type and its origin.       *)
(***************************************************************************)
MadeFrom(sources) == {k \in DOMAIN sources : sources[k].relation = "created_from"}
Single(sources) == \A j, k \in MadeFrom(sources) : j = k
SameOrigin(s, t) == MadeFrom(t) = MadeFrom(s) /\ \A k \in MadeFrom(s) : t[k] = s[k]

Grown(d, d2) ==
    /\ Ids(d) \subseteq Ids(d2)
    /\ \A e \in Ids(d) : d.ent[e] = Gone => d2.ent[e] = Gone
    /\ \A e \in Ids(d) : d.ent[e] # Gone =>
          /\ d2.ent[e] # Gone /\ d2.ent[e].type = d.ent[e].type
          /\ SameOrigin(d.ent[e].sources, d2.ent[e].sources)

\* The Observations there were are there, under the same schema.
Recorded(d, d2) ==
    /\ DOMAIN d.obs \subseteq DOMAIN d2.obs
    /\ \A o \in DOMAIN d.obs : d2.obs[o].facts.schema = d.obs[o].facts.schema

Shaped(d) == d = [ent |-> d.ent, refs |-> d.refs, obs |-> d.obs]

LEMMA GrownWider == \A d, d2 : Grown(d, d2) => Wider(d, d2)
BY DEF Grown, Wider

LEMMA GrownTwice ==
  ASSUME NEW d, NEW d2, NEW d3, Grown(d, d2), Grown(d2, d3)
  PROVE  Grown(d, d3)
BY DEF Grown, SameOrigin

LEMMA GrownNot == \A d : Grown(d, d)
BY DEF Grown, SameOrigin

LEMMA LiveIsNotGone ==
  \A d, row, m : EntityHolds(d, row, m) => row # Gone
BY DEF EntityHolds, Gone

\* The rows that did not change still hold: only what changed is to be shown.
LEMMA ChangeHolds ==
  ASSUME NEW d, NEW m, TablesHold(d, m), NEW d2, Shaped(d2), Grown(d, d2),
         IsSequence(d2.ent), IsSequence(d2.obs),
         \A e \in Ids(d2) :
            \/ e \in Ids(d) /\ d2.ent[e] = d.ent[e]
            \/ EntityHolds(d2, d2.ent[e], m) /\ Single(d2.ent[e].sources),
         \A r \in d2.refs : r \in d.refs \/ RefHolds(d2, r),
         \A o \in DOMAIN d2.obs :
            \/ o \in DOMAIN d.obs /\ d2.obs[o] = d.obs[o]
            \/ ObservationHolds(d2, d2.obs[o], m)
  PROVE  TablesHold(d2, m)
<1>1. Wider(d, d2)
  BY GrownWider
<1>2. ASSUME NEW e \in Ids(d2), d2.ent[e] # Gone
      PROVE  EntityHolds(d2, d2.ent[e], m) /\ \A j, k \in CreatedFrom(d2, e) : j = k
  <2>1. CASE e \in Ids(d) /\ d2.ent[e] = d.ent[e]
    <3>1. EntityHolds(d, d.ent[e], m) /\ \A j, k \in CreatedFrom(d, e) : j = k
      BY <2>1, <1>2 DEF TablesHold
    <3>2. EntityHolds(d2, d2.ent[e], m)
      BY <3>1, <2>1, <1>1, EntitiesStay
    <3>. QED  BY <3>1, <3>2, <2>1 DEF CreatedFrom
  <2>2. CASE EntityHolds(d2, d2.ent[e], m) /\ Single(d2.ent[e].sources)
    BY <2>2 DEF CreatedFrom, Single, MadeFrom
  <2>. QED  BY <2>1, <2>2
<1>3. \A r \in d2.refs : RefHolds(d2, r)
  BY <1>1, RefsStay DEF TablesHold
<1>4. \A o \in DOMAIN d2.obs : ObservationHolds(d2, d2.obs[o], m)
  BY <1>1, ObservationsStay DEF TablesHold
<1>. QED  BY <1>2, <1>3, <1>4 DEF TablesHold, Shaped

LEMMA IdsAre == \A d, m : TablesHold(d, m) =>
                    Len(d.ent) \in Nat /\ DOMAIN d.ent = Ids(d) /\ Shaped(d)
                    /\ IsSequence(d.ent) /\ IsSequence(d.obs)
BY SequenceFacts DEF TablesHold, Ids, Shaped

IsData(data) == data = Data(data.name, data.day) /\ data.day \in Int

LEMMA DataForms == \A name : \A n \in Int : IsData(Data(name, n))
BY DEF IsData, Data

LEMMA ExceptForms ==
  ASSUME NEW d, Shaped(d), NEW x
  PROVE  /\ [d EXCEPT !.ent = x] = [ent |-> x, refs |-> d.refs, obs |-> d.obs]
         /\ [d EXCEPT !.refs = x] = [ent |-> d.ent, refs |-> x, obs |-> d.obs]
         /\ [d EXCEPT !.obs = x] = [ent |-> d.ent, refs |-> d.refs, obs |-> x]
<1>. PICK ent, refs, obs : d = [ent |-> ent, refs |-> refs, obs |-> obs]
  BY DEF Shaped
<1>. QED  OBVIOUS

LEMMA InsertEntityHolds ==
  ASSUME NEW d, NEW m, TablesHold(d, m), NEW type \in {"journal_entry", "person", "habit"},
         NEW data, IsData(data), NEW at \in Int,
         NEW sources, IsSequence(sources), Single(sources),
         \A row \in ToSet(sources) : SourceRowHolds(d, row, m)
  PROVE  LET d2 == InsertEntity(d, type, data, sources, at)
         IN  /\ TablesHold(d2, m) /\ Grown(d, d2)
             /\ Len(d2.ent) = Len(d.ent) + 1 /\ EntityIsType(d2, Len(d.ent) + 1, type)
             /\ d2.refs = d.refs /\ d2.obs = d.obs
<1>. DEFINE new == [type |-> type, data |-> data, at |-> at, sources |-> sources,
                    revs |-> <<[data |-> data, at |-> at]>>]
            d2 == InsertEntity(d, type, data, sources, at)
<1>1. Shaped(d) /\ IsSequence(d.ent) /\ IsSequence(d.obs) /\ Len(d.ent) \in Nat /\ DOMAIN d.ent = Ids(d)
  BY IdsAre
<1>2. Shaped(d2) /\ d2.ent = Append(d.ent, new) /\ d2.refs = d.refs /\ d2.obs = d.obs
  <2>1. d2 = [d EXCEPT !.ent = Append(d.ent, new)]
    BY DEF InsertEntity
  <2>2. d2 = [ent |-> Append(d.ent, new), refs |-> d.refs, obs |-> d.obs]
    <3>. HIDE DEF new, d2
    <3>. QED  BY <2>1, <1>1, ExceptForms
  <2>. HIDE DEF new, d2
  <2>. QED  BY <2>2 DEF Shaped
<1>3. new.type = type /\ new.sources = sources /\ new # Gone
  BY DEF Gone
<1>4. /\ IsSequence(d2.ent) /\ Len(d2.ent) = Len(d.ent) + 1
      /\ \A e \in Ids(d) : d2.ent[e] = d.ent[e]
      /\ d2.ent[Len(d.ent) + 1] = new
  <2>. HIDE DEF new, d2
  <2>. QED  BY <1>1, <1>2, AppendHolds
<1>5. Ids(d2) = Ids(d) \cup {Len(d.ent) + 1} /\ Len(d.ent) + 1 \in Ids(d2)
  <2>. HIDE DEF d2
  <2>. QED  BY <1>1, <1>4 DEF Ids
<1>6. Grown(d, d2)
  <2>. HIDE DEF new, d2
  <2>. QED  BY <1>4, <1>5 DEF Grown, SameOrigin
<1>7. EntityHolds(d2, new, m)
  <2>1. \A row \in ToSet(sources) : SourceRowHolds(d2, row, m)
    <3>. HIDE DEF d2
    <3>. QED  BY <1>6, GrownWider, SourceRowsStay
  <2>2. LET revs == <<[data |-> data, at |-> at]>>
        IN  IsSequence(revs) /\ revs # <<>> /\ \A rev \in ToSet(revs) : rev.at \in Int
    BY DEF IsSequence, ToSet
  <2>. HIDE DEF d2
  <2>. QED  BY <2>1, <2>2 DEF EntityHolds, IsData
<1>8. EntityIsType(d2, Len(d.ent) + 1, type)
  <2>. HIDE DEF new, d2
  <2>. QED  BY <1>3, <1>4, <1>5 DEF EntityIsType
<1>9. TablesHold(d2, m)
  <2>. HIDE DEF new, d2
  <2>1. \A e \in Ids(d2) : \/ e \in Ids(d) /\ d2.ent[e] = d.ent[e]
                           \/ EntityHolds(d2, d2.ent[e], m) /\ Single(d2.ent[e].sources)
    BY <1>3, <1>4, <1>5, <1>7
  <2>. QED  BY <2>1, <1>1, <1>2, <1>4, <1>6, ChangeHolds
<1>. HIDE DEF new, d2
<1>10. d2 = InsertEntity(d, type, data, sources, at)
  BY DEF d2
<1>. QED  BY <1>2, <1>4, <1>6, <1>8, <1>9, <1>10

\* One row replaced by another of the same type and origin.
LEMMA ReplaceHolds ==
  ASSUME NEW d, NEW m, TablesHold(d, m), NEW e \in Ids(d), d.ent[e] # Gone,
         NEW row, EntityHolds(d, row, m), row.type = d.ent[e].type,
         SameOrigin(d.ent[e].sources, row.sources),
         NEW d2, Shaped(d2), d2.ent = [d.ent EXCEPT ![e] = row], d2.refs = d.refs, d2.obs = d.obs
  PROVE  TablesHold(d2, m) /\ Grown(d, d2) /\ Ids(d2) = Ids(d)
<1>1. Shaped(d) /\ IsSequence(d.ent) /\ IsSequence(d.obs) /\ Len(d.ent) \in Nat /\ DOMAIN d.ent = Ids(d)
  BY IdsAre
<1>2. IsSequence(d2.ent) /\ Len(d2.ent) = Len(d.ent) /\ Ids(d2) = Ids(d)
  <2>1. d2.ent = [i \in 1 .. Len(d.ent) |-> d2.ent[i]]
    BY <1>1 DEF Ids
  <2>2. IsSequence(d2.ent) /\ Len(d2.ent) = Len(d.ent)
    BY <2>1, <1>1, FunctionIsSequence
  <2>. QED  BY <2>2 DEF Ids
<1>3. d2.ent[e] = row /\ \A k \in Ids(d) : k # e => d2.ent[k] = d.ent[k]
  BY <1>1
<1>4. row # Gone
  BY LiveIsNotGone
<1>5. Grown(d, d2)
  BY <1>2, <1>3, <1>4 DEF Grown, SameOrigin
<1>6. EntityHolds(d2, row, m)
  BY <1>5, GrownWider, EntitiesStay
<1>7. Single(row.sources)
  <2>1. Single(d.ent[e].sources)
    BY DEF TablesHold, CreatedFrom, Single, MadeFrom
  <2>. QED  BY <2>1 DEF SameOrigin, Single
<1>8. \A k \in Ids(d2) : \/ k \in Ids(d) /\ d2.ent[k] = d.ent[k]
                         \/ EntityHolds(d2, d2.ent[k], m) /\ Single(d2.ent[k].sources)
  BY <1>2, <1>3, <1>6, <1>7
<1>9. TablesHold(d2, m)
  BY <1>1, <1>2, <1>5, <1>8, ChangeHolds
<1>. QED  BY <1>2, <1>5, <1>9

LEMMA UpdateEntityHolds ==
  ASSUME NEW d, NEW m, TablesHold(d, m), NEW e \in Ids(d), d.ent[e] # Gone,
         NEW data, IsData(data), NEW at \in Int
  PROVE  LET d2 == UpdateEntity(d, e, data, at)
         IN  /\ TablesHold(d2, m) /\ Grown(d, d2) /\ Ids(d2) = Ids(d)
             /\ d2.refs = d.refs /\ d2.obs = d.obs
<1>. DEFINE old == d.ent[e]
            rev == [data |-> data, at |-> at]
            row == [type |-> old.type, data |-> data, at |-> old.at, sources |-> old.sources,
                    revs |-> Append(old.revs, rev)]
            d2 == UpdateEntity(d, e, data, at)
<1>1. Shaped(d) /\ DOMAIN d.ent = Ids(d)
  BY IdsAre
<1>2. EntityHolds(d, old, m)
  BY DEF TablesHold
<1>3. row = [old EXCEPT !.data = data, !.revs = Append(@, rev)]
  <2>. HIDE DEF rev
  <2>1. old = [type |-> old.type, data |-> old.data, at |-> old.at, sources |-> old.sources,
               revs |-> old.revs]
    BY <1>2 DEF EntityHolds
  <2>. HIDE DEF old
  <2>2. PICK type, load, stamp, sources, revs :
            old = [type |-> type, data |-> load, at |-> stamp, sources |-> sources, revs |-> revs]
    BY <2>1
  <2>. DEFINE longer == Append(old.revs, rev)
              mid == [old EXCEPT !.data = data]
  <2>3. mid = [type |-> type, data |-> data, at |-> stamp, sources |-> sources, revs |-> revs]
    BY <2>2
  <2>4. [old EXCEPT !.data = data, !.revs = longer] = [mid EXCEPT !.revs = longer]
    <3>. HIDE DEF longer
    <3>. QED  OBVIOUS
  <2>5. [mid EXCEPT !.revs = longer]
            = [type |-> type, data |-> data, at |-> stamp, sources |-> sources, revs |-> longer]
    <3>. HIDE DEF longer, mid
    <3>. QED  BY <2>3
  <2>6. row = [type |-> type, data |-> data, at |-> stamp, sources |-> sources, revs |-> longer]
    BY <2>2
  <2>. QED  BY <2>4, <2>5, <2>6
<1>4. d2 = [d EXCEPT !.ent = [d.ent EXCEPT ![e] = row]]
  <2>1. d2 = [d EXCEPT !.ent = [d.ent EXCEPT ![e] = [old EXCEPT !.data = data, !.revs = Append(@, rev)]]]
    <3>1. old = [type |-> old.type, data |-> old.data, at |-> old.at, sources |-> old.sources,
                 revs |-> old.revs]
      BY <1>2 DEF EntityHolds
    <3>2. PICK ent, refs, obs : d = [ent |-> ent, refs |-> refs, obs |-> obs]
      BY <1>1 DEF Shaped
    <3>. QED  BY <3>1, <3>2, <1>1 DEF UpdateEntity
  <2>. HIDE DEF row, old, rev, d2
  <2>. QED  BY <2>1, <1>3
<1>5. /\ Shaped(d2) /\ d2.ent = [d.ent EXCEPT ![e] = row] /\ d2.refs = d.refs /\ d2.obs = d.obs
  <2>. HIDE DEF row, d2
  <2>1. d2 = [ent |-> [d.ent EXCEPT ![e] = row], refs |-> d.refs, obs |-> d.obs]
    BY <1>1, <1>4, ExceptForms
  <2>. QED  BY <2>1 DEF Shaped
<1>6. EntityHolds(d, row, m)
  <2>1. IsSequence(old.revs) /\ \A r \in ToSet(old.revs) : r.at \in Int
    BY <1>2 DEF EntityHolds
  <2>2. /\ IsSequence(Append(old.revs, rev)) /\ Append(old.revs, rev) # <<>>
        /\ \A r \in ToSet(Append(old.revs, rev)) : r.at \in Int
    <3>1. \A r \in ToSet(Append(old.revs, rev)) : r = rev \/ r \in ToSet(old.revs)
      <4>. HIDE DEF rev, old
      <4>1. Len(old.revs) \in Nat /\ DOMAIN old.revs = 1 .. Len(old.revs)
        BY <2>1, SequenceFacts
      <4>. QED  BY <4>1, <2>1, AppendHolds DEF ToSet
    <3>2. rev.at \in Int
      OBVIOUS
    <3>3. IsSequence(Append(old.revs, rev)) /\ Append(old.revs, rev) # <<>>
      <4>. HIDE DEF rev, old
      <4>. QED  BY <2>1, AppendHolds
    <3>. HIDE DEF rev, old
    <3>. QED  BY <2>1, <3>1, <3>2, <3>3
  <2>3. /\ old.type \in {"journal_entry", "person", "habit"} /\ old.at \in Int
        /\ IsSequence(old.sources) /\ \A source \in ToSet(old.sources) : SourceRowHolds(d, source, m)
    BY <1>2 DEF EntityHolds
  <2>. HIDE DEF old, rev
  <2>. QED  BY <2>2, <2>3 DEF EntityHolds, IsData
<1>7. row.type = old.type /\ SameOrigin(old.sources, row.sources)
  BY DEF SameOrigin
<1>8. TablesHold(d2, m) /\ Grown(d, d2) /\ Ids(d2) = Ids(d)
  <2>. HIDE DEF row, d2
  <2>. QED  BY <1>5, <1>6, <1>7, ReplaceHolds
<1>. HIDE DEF row, d2
<1>9. d2 = UpdateEntity(d, e, data, at)
  BY DEF d2
<1>. QED  BY <1>5, <1>8, <1>9

LEMMA InsertSourceHolds ==
  ASSUME NEW d, NEW m, TablesHold(d, m), NEW e \in Ids(d), d.ent[e] # Gone,
         NEW source, SourceRowHolds(d, source, m), source.relation = "updated_from"
  PROVE  LET d2 == InsertSource(d, e, source)
         IN  /\ TablesHold(d2, m) /\ Grown(d, d2) /\ Ids(d2) = Ids(d)
             /\ d2.refs = d.refs /\ d2.obs = d.obs
<1>. DEFINE old == d.ent[e]
            row == [type |-> old.type, data |-> old.data, at |-> old.at,
                    sources |-> Append(old.sources, source), revs |-> old.revs]
            d2 == InsertSource(d, e, source)
<1>1. Shaped(d) /\ DOMAIN d.ent = Ids(d)
  BY IdsAre
<1>2. EntityHolds(d, old, m)
  BY DEF TablesHold
<1>3. row = [old EXCEPT !.sources = Append(@, source)]
  <2>1. old = [type |-> old.type, data |-> old.data, at |-> old.at, sources |-> old.sources,
               revs |-> old.revs]
    BY <1>2 DEF EntityHolds
  <2>. HIDE DEF old
  <2>2. PICK type, load, stamp, sources, revs :
            old = [type |-> type, data |-> load, at |-> stamp, sources |-> sources, revs |-> revs]
    BY <2>1
  <2>. QED  BY <2>2
<1>4. d2 = [d EXCEPT !.ent = [d.ent EXCEPT ![e] = row]]
  <2>1. d2 = [d EXCEPT !.ent = [d.ent EXCEPT ![e] = [old EXCEPT !.sources = Append(@, source)]]]
    <3>1. PICK ent, refs, obs : d = [ent |-> ent, refs |-> refs, obs |-> obs]
      BY <1>1 DEF Shaped
    <3>. QED  BY <3>1, <1>1 DEF InsertSource
  <2>. HIDE DEF row, old, d2
  <2>. QED  BY <2>1, <1>3
<1>5. /\ Shaped(d2) /\ d2.ent = [d.ent EXCEPT ![e] = row] /\ d2.refs = d.refs /\ d2.obs = d.obs
  <2>. HIDE DEF row, d2
  <2>1. d2 = [ent |-> [d.ent EXCEPT ![e] = row], refs |-> d.refs, obs |-> d.obs]
    BY <1>1, <1>4, ExceptForms
  <2>. QED  BY <2>1 DEF Shaped
<1>6. IsSequence(old.sources) /\ \A s \in ToSet(old.sources) : SourceRowHolds(d, s, m)
  BY <1>2 DEF EntityHolds
<1>7. /\ IsSequence(Append(old.sources, source))
      /\ DOMAIN Append(old.sources, source) = DOMAIN old.sources \cup {Len(old.sources) + 1}
      /\ \A i \in DOMAIN old.sources : Append(old.sources, source)[i] = old.sources[i]
      /\ Append(old.sources, source)[Len(old.sources) + 1] = source
  <2>. HIDE DEF old
  <2>1. Len(old.sources) \in Nat /\ DOMAIN old.sources = 1 .. Len(old.sources)
    BY <1>6, SequenceFacts
  <2>2. IsSequence(Append(old.sources, source))
    BY <1>6, AppendHolds
  <2>3. /\ DOMAIN Append(old.sources, source) = 1 .. Len(old.sources) + 1
        /\ \A i \in DOMAIN old.sources : Append(old.sources, source)[i] = old.sources[i]
        /\ Append(old.sources, source)[Len(old.sources) + 1] = source
    BY <1>6, AppendHolds
  <2>. QED  BY <2>1, <2>2, <2>3
<1>8. EntityHolds(d, row, m)
  <2>1. \A s \in ToSet(Append(old.sources, source)) : SourceRowHolds(d, s, m)
    <3>. HIDE DEF old
    <3>. QED  BY <1>6, <1>7 DEF ToSet
  <2>2. /\ old.type \in {"journal_entry", "person", "habit"} /\ old.at \in Int
        /\ old.data = Data(old.data.name, old.data.day) /\ old.data.day \in Int
        /\ IsSequence(old.revs) /\ old.revs # <<>> /\ \A rev \in ToSet(old.revs) : rev.at \in Int
    BY <1>2 DEF EntityHolds
  <2>. HIDE DEF old
  <2>. QED  BY <2>1, <2>2, <1>7 DEF EntityHolds
<1>9. row.type = old.type /\ SameOrigin(old.sources, row.sources)
  <2>1. MadeFrom(Append(old.sources, source)) = MadeFrom(old.sources)
    <3>. HIDE DEF old
    <3>. QED  BY <1>7 DEF MadeFrom
  <2>. QED  BY <2>1, <1>7 DEF SameOrigin, MadeFrom
<1>10. TablesHold(d2, m) /\ Grown(d, d2) /\ Ids(d2) = Ids(d)
  <2>. HIDE DEF row, d2
  <2>. QED  BY <1>5, <1>8, <1>9, ReplaceHolds
<1>. HIDE DEF row, d2
<1>11. d2 = InsertSource(d, e, source)
  BY DEF d2
<1>. QED  BY <1>5, <1>10, <1>11

LEMMA InsertEntityRefHolds ==
  ASSUME NEW d, NEW m, TablesHold(d, m), NEW source, NEW target, NEW label,
         EntityIsType(d, source, "journal_entry"), EntityIsType(d, target, "person")
  PROVE  LET d2 == InsertEntityRef(d, source, target, label)
         IN  /\ TablesHold(d2, m) /\ Grown(d, d2) /\ Ids(d2) = Ids(d)
             /\ d2.ent = d.ent /\ d2.obs = d.obs
<1>. DEFINE d2 == InsertEntityRef(d, source, target, label)
            ref == [source |-> source, target |-> target, label |-> label]
<1>1. Shaped(d) /\ IsSequence(d.ent) /\ IsSequence(d.obs)
  BY IdsAre
<1>2. d2 = d \/ d2 = [d EXCEPT !.refs = d.refs \cup {ref}]
  BY DEF InsertEntityRef
<1>3. Shaped(d2) /\ d2.ent = d.ent /\ d2.obs = d.obs /\ d2.refs \subseteq d.refs \cup {ref}
  <2>1. [d EXCEPT !.refs = d.refs \cup {ref}] = [ent |-> d.ent, refs |-> d.refs \cup {ref}, obs |-> d.obs]
    <3>. HIDE DEF ref
    <3>. QED  BY <1>1, ExceptForms
  <2>. HIDE DEF d2, ref
  <2>. QED  BY <2>1, <1>1, <1>2 DEF Shaped
<1>4. ref.source = source /\ ref.target = target
  OBVIOUS
<1>. HIDE DEF d2, ref
<1>5. Grown(d, d2) /\ Ids(d2) = Ids(d)
  BY <1>3 DEF Grown, SameOrigin, Ids
<1>6. \A r \in d2.refs : r \in d.refs \/ RefHolds(d2, r)
  BY <1>3, <1>4, <1>5, GrownWider, TypesStay DEF RefHolds
<1>7. \A e \in Ids(d2) : e \in Ids(d) /\ d2.ent[e] = d.ent[e]
  BY <1>3, <1>5
<1>8. \A o \in DOMAIN d2.obs : o \in DOMAIN d.obs /\ d2.obs[o] = d.obs[o]
  BY <1>3
<1>9. TablesHold(d2, m)
  BY <1>1, <1>3, <1>5, <1>6, <1>7, <1>8, ChangeHolds
<1>10. d2 = InsertEntityRef(d, source, target, label)
  BY DEF d2
<1>. QED  BY <1>3, <1>5, <1>9, <1>10

LEMMA RevisedHolds ==
  ASSUME NEW d, NEW m, NEW old, EntityHolds(d, old, m), NEW rev, rev.at \in Int
  PROVE  LET row == [old EXCEPT !.revs = Append(old.revs, rev)]
         IN  EntityHolds(d, row, m) /\ row.type = old.type /\ row.sources = old.sources
<1>. DEFINE revs == Append(old.revs, rev)
            row == [old EXCEPT !.revs = revs]
<1>1. row = [type |-> old.type, data |-> old.data, at |-> old.at, sources |-> old.sources, revs |-> revs]
  <2>1. old = [type |-> old.type, data |-> old.data, at |-> old.at, sources |-> old.sources,
               revs |-> old.revs]
    BY DEF EntityHolds
  <2>2. PICK type, load, stamp, sources, past :
            old = [type |-> type, data |-> load, at |-> stamp, sources |-> sources, revs |-> past]
    BY <2>1
  <2>. HIDE DEF revs
  <2>. QED  BY <2>2
<1>2. IsSequence(old.revs) /\ \A r \in ToSet(old.revs) : r.at \in Int
  BY DEF EntityHolds
<1>3. IsSequence(revs) /\ revs # <<>>
  BY <1>2, AppendHolds
<1>4. \A r \in ToSet(revs) : r.at \in Int
  <2>1. Len(old.revs) \in Nat /\ DOMAIN old.revs = 1 .. Len(old.revs)
    BY <1>2, SequenceFacts
  <2>2. DOMAIN revs = 1 .. Len(old.revs) + 1 /\ (\A i \in DOMAIN old.revs : revs[i] = old.revs[i])
        /\ revs[Len(old.revs) + 1] = rev
    BY <1>2, AppendHolds
  <2>. HIDE DEF revs
  <2>. QED  BY <2>1, <2>2, <1>2 DEF ToSet
<1>. HIDE DEF revs, row
<1>5. EntityHolds(d, row, m)
  <2>1. /\ old.type \in {"journal_entry", "person", "habit"} /\ old.at \in Int
        /\ old.data = Data(old.data.name, old.data.day) /\ old.data.day \in Int
        /\ IsSequence(old.sources) /\ \A source \in ToSet(old.sources) : SourceRowHolds(d, source, m)
    BY DEF EntityHolds
  <2>. QED  BY <1>1, <1>3, <1>4, <2>1 DEF EntityHolds
<1>6. row.type = old.type /\ row.sources = old.sources
  BY <1>1
<1>7. row = [old EXCEPT !.revs = Append(old.revs, rev)]
  BY DEF row, revs
<1>. QED  BY <1>5, <1>6, <1>7

LEMMA TextualizeHolds ==
  ASSUME NEW d, NEW m, TablesHold(d, m), NEW e, NEW at \in Int
  PROVE  LET d2 == Textualize(d, e, at)
         IN  /\ TablesHold(d2, m) /\ Grown(d, d2) /\ Ids(d2) = Ids(d)
             /\ d2.refs = d.refs /\ d2.obs = d.obs
<1>. DEFINE NewRow(k) == Revised(d.ent[k], at)
            Mentioned(k) == k \in {r.source : r \in {ref \in d.refs : ref.target = e}}
            ent == [k \in Ids(d) |-> IF Mentioned(k) THEN NewRow(k) ELSE d.ent[k]]
            d2 == Textualize(d, e, at)
<1>1. Shaped(d) /\ IsSequence(d.ent) /\ IsSequence(d.obs) /\ Len(d.ent) \in Nat /\ DOMAIN d.ent = Ids(d)
  BY IdsAre
<1>2. Shaped(d2) /\ d2.ent = ent /\ d2.refs = d.refs /\ d2.obs = d.obs
  <2>1. d2 = [d EXCEPT !.ent = ent]
    BY DEF Textualize
  <2>. HIDE DEF ent, d2
  <2>2. d2 = [ent |-> ent, refs |-> d.refs, obs |-> d.obs]
    BY <1>1, <2>1, ExceptForms
  <2>. QED  BY <2>2 DEF Shaped
<1>3. ASSUME NEW k \in Ids(d), Mentioned(k)
      PROVE  d.ent[k] # Gone /\ EntityHolds(d, NewRow(k), m) /\ NewRow(k) # Gone
             /\ NewRow(k).type = d.ent[k].type /\ NewRow(k).sources = d.ent[k].sources
  <2>. DEFINE rev == [data |-> d.ent[k].data, at |-> at]
  <2>1. d.ent[k] # Gone
    BY <1>3 DEF TablesHold, RefHolds, EntityIsType, Gone
  <2>2. EntityHolds(d, d.ent[k], m) /\ rev.at \in Int
    BY <2>1 DEF TablesHold
  <2>3. EntityHolds(d, NewRow(k), m) /\ NewRow(k).type = d.ent[k].type /\ NewRow(k).sources = d.ent[k].sources
    <3>. HIDE DEF rev
    <3>1. /\ EntityHolds(d, [d.ent[k] EXCEPT !.revs = Append(d.ent[k].revs, rev)], m)
          /\ [d.ent[k] EXCEPT !.revs = Append(d.ent[k].revs, rev)].type = d.ent[k].type
          /\ [d.ent[k] EXCEPT !.revs = Append(d.ent[k].revs, rev)].sources = d.ent[k].sources
      BY <2>2, RevisedHolds
    <3>. QED  BY <3>1 DEF rev, Revised
  <2>. HIDE DEF NewRow, rev
  <2>. QED  BY <2>1, <2>3, LiveIsNotGone
<1>4. IsSequence(d2.ent) /\ Ids(d2) = Ids(d)
  <2>1. d2.ent = [i \in 1 .. Len(d.ent) |-> d2.ent[i]]
    BY <1>2 DEF Ids
  <2>2. IsSequence(d2.ent) /\ Len(d2.ent) = Len(d.ent)
    <3>. HIDE DEF ent, d2
    <3>. QED  BY <2>1, <1>1, FunctionIsSequence
  <2>. HIDE DEF d2
  <2>. QED  BY <2>2 DEF Ids
<1>5. \A k \in Ids(d) : \/ d2.ent[k] = d.ent[k]
                        \/ Mentioned(k) /\ d2.ent[k] = NewRow(k)
  BY <1>2
<1>. HIDE DEF NewRow, Mentioned, ent, d2
<1>6. Grown(d, d2)
  BY <1>3, <1>4, <1>5 DEF Grown, SameOrigin
<1>7. ASSUME NEW k \in Ids(d2)
      PROVE  \/ k \in Ids(d) /\ d2.ent[k] = d.ent[k]
             \/ EntityHolds(d2, d2.ent[k], m) /\ Single(d2.ent[k].sources)
  <2>1. CASE d2.ent[k] = d.ent[k]
    BY <2>1, <1>4
  <2>2. CASE Mentioned(k) /\ d2.ent[k] = NewRow(k)
    <3>1. Single(d.ent[k].sources)
      BY <2>2, <1>3, <1>4 DEF TablesHold, CreatedFrom, Single, MadeFrom
    <3>2. EntityHolds(d2, NewRow(k), m)
      BY <2>2, <1>3, <1>4, <1>6, GrownWider, EntitiesStay
    <3>. QED  BY <2>2, <3>1, <3>2, <1>3, <1>4
  <2>. QED  BY <2>1, <2>2, <1>4, <1>5
<1>8. TablesHold(d2, m)
  BY <1>1, <1>2, <1>4, <1>6, <1>7, ChangeHolds
<1>9. d2 = Textualize(d, e, at)
  BY DEF d2
<1>. QED  BY <1>2, <1>4, <1>6, <1>8, <1>9

(***************************************************************************)
(* Deleting: the row goes, and what named it.                              *)
(***************************************************************************)
\* e goes; another row keeps its type, and its origin unless that was e.
Cascaded(d, d2, e) ==
    /\ Ids(d2) = Ids(d)
    /\ \A k \in Ids(d) : k = e \/ d.ent[k] = Gone => d2.ent[k] = Gone
    /\ \A k \in Ids(d) : k # e /\ d.ent[k] # Gone =>
          LET before == d.ent[k].sources
              after == d2.ent[k].sources
          IN  /\ d2.ent[k] # Gone /\ d2.ent[k].type = d.ent[k].type
              /\ after = CascadeSources(before, e)

LEMMA TypesButOne ==
  ASSUME NEW d, NEW d2, NEW e, Cascaded(d, d2, e)
  PROVE  \A k : \A type \in {"journal_entry", "person", "habit"} :
            EntityIsType(d, k, type) /\ k # e => EntityIsType(d2, k, type)
BY DEF Cascaded, EntityIsType, Gone

LEMMA CascadeForms ==
  ASSUME NEW s, IsSequence(s), NEW e
  PROVE  /\ IsSequence(CascadeSources(s, e)) /\ DOMAIN CascadeSources(s, e) = DOMAIN s
         /\ \A k \in DOMAIN s : \/ CascadeSources(s, e)[k] = s[k] /\ s[k].source # EntrySource(e)
                                \/ CascadeSources(s, e)[k] = NoRow /\ s[k].source = EntrySource(e)
<1>. DEFINE t == CascadeSources(s, e)
<1>1. DOMAIN s = 1 .. Len(s) /\ Len(s) \in Nat
  BY SequenceFacts
<1>2. t = [k \in 1 .. Len(s) |-> t[k]]
  BY <1>1 DEF CascadeSources
<1>3. IsSequence(t) /\ DOMAIN t = DOMAIN s
  <2>. HIDE DEF t
  <2>. QED  BY <1>1, <1>2, FunctionIsSequence
<1>4. \A k \in DOMAIN s : t[k] = IF s[k].source = EntrySource(e) THEN NoRow ELSE s[k]
  BY DEF CascadeSources
<1>. HIDE DEF t
<1>5. t = CascadeSources(s, e)
  BY DEF t
<1>. QED  BY <1>3, <1>4, <1>5

LEMMA DeleteForms ==
  ASSUME NEW d, NEW m, TablesHold(d, m), NEW e
  PROVE  LET d2 == DeleteEntity(d, e)
         IN  /\ Shaped(d2) /\ Cascaded(d, d2, e) /\ IsSequence(d2.ent) /\ IsSequence(d2.obs)
             /\ \A k \in Ids(d) : k # e /\ d.ent[k] # Gone =>
                   d2.ent[k] = [d.ent[k] EXCEPT !.sources = CascadeSources(d.ent[k].sources, e)]
             /\ d2.refs = {r \in d.refs : r.source # e /\ r.target # e}
             /\ DOMAIN d2.obs = DOMAIN d.obs
             /\ \A o \in DOMAIN d.obs :
                   d2.obs[o] = [d.obs[o] EXCEPT !.source = CascadeEvidence(d.obs[o].source, e)]
<1>. DEFINE d2 == DeleteEntity(d, e)
            NewRow(k) == [d.ent[k] EXCEPT !.sources = CascadeSources(d.ent[k].sources, e)]
            Obs(o) == [d.obs[o] EXCEPT !.source = CascadeEvidence(d.obs[o].source, e)]
<1>1. Shaped(d) /\ IsSequence(d.ent) /\ IsSequence(d.obs) /\ Len(d.ent) \in Nat /\ DOMAIN d.ent = Ids(d)
  BY IdsAre
<1>2. DOMAIN d.obs = 1 .. Len(d.obs) /\ Len(d.obs) \in Nat
  BY <1>1, SequenceFacts
<1>3. /\ d2.ent = [k \in Ids(d) |-> IF k = e \/ d.ent[k] = Gone THEN Gone ELSE NewRow(k)]
      /\ d2.refs = {r \in d.refs : r.source # e /\ r.target # e}
      /\ d2.obs = [o \in DOMAIN d.obs |-> Obs(o)]
      /\ Shaped(d2)
  BY DEF DeleteEntity, Shaped
<1>. HIDE DEF d2, Obs
<1>4. IsSequence(d2.ent) /\ Ids(d2) = Ids(d)
  <2>1. d2.ent = [i \in 1 .. Len(d.ent) |-> d2.ent[i]]
    BY <1>3 DEF Ids
  <2>2. IsSequence(d2.ent) /\ Len(d2.ent) = Len(d.ent)
    BY <2>1, <1>1, FunctionIsSequence
  <2>. QED  BY <2>2 DEF Ids
<1>5. IsSequence(d2.obs) /\ DOMAIN d2.obs = DOMAIN d.obs
  <2>1. d2.obs = [i \in 1 .. Len(d.obs) |-> d2.obs[i]]
    BY <1>2, <1>3
  <2>. QED  BY <2>1, <1>2, FunctionIsSequence
<1>6. ASSUME NEW k \in Ids(d), k # e, d.ent[k] # Gone
      PROVE  NewRow(k).type = d.ent[k].type /\ NewRow(k) # Gone
             /\ NewRow(k).sources = CascadeSources(d.ent[k].sources, e)
  <2>1. EntityHolds(d, d.ent[k], m)
    BY <1>6 DEF TablesHold
  <2>2. d.ent[k].type \in {"journal_entry", "person", "habit"}
        /\ d.ent[k] = [type |-> d.ent[k].type, data |-> d.ent[k].data, at |-> d.ent[k].at,
                       sources |-> d.ent[k].sources, revs |-> d.ent[k].revs]
    BY <2>1 DEF EntityHolds
  <2>3. NewRow(k).type = d.ent[k].type /\ NewRow(k).sources = CascadeSources(d.ent[k].sources, e)
    BY <2>2
  <2>. QED  BY <2>2, <2>3 DEF Gone
<1>. HIDE DEF Row
<1>7. \A k \in Ids(d) : k # e /\ d.ent[k] # Gone => d2.ent[k] = NewRow(k)
  BY <1>3
<1>8. Cascaded(d, d2, e)
  BY <1>3, <1>4, <1>6, <1>7 DEF Cascaded
<1>9. d2 = DeleteEntity(d, e)
  BY DEF d2
<1>10. \A o \in DOMAIN d.obs : d2.obs[o] = Obs(o)
  BY <1>3
<1>. QED  BY <1>3, <1>4, <1>5, <1>7, <1>8, <1>9, <1>10 DEF Row, Obs

LEMMA CascadedFacts ==
  ASSUME NEW d, NEW d2, NEW e, Cascaded(d, d2, e), NEW facts, FactsHold(d, facts),
         d.ent[e].type # "habit" \/ ~Mentions(facts, e)
  PROVE  FactsHold(d2, facts)
<1>1. ASSUME NEW r \in RelationsOf(facts.schema)
      PROVE  EntityIsType(d2, facts.values[r.field], r.target)
  <2>1. r.target = "habit" /\ EntityIsType(d, facts.values[r.field], r.target)
    BY RelationsAre DEF FactsHold
  <2>2. facts.values[r.field] # e
    BY <2>1 DEF EntityIsType, Mentions
  <2>. QED  BY <2>1, <2>2, TypesButOne
<1>. QED  BY <1>1 DEF FactsHold

LEMMA CascadedSource ==
  ASSUME NEW d, NEW d2, NEW e, Cascaded(d, d2, e), NEW m, NEW source, SourceHolds(d, source, m)
  PROVE  SourceHolds(d2, CascadeEvidence(source, e), m)
<1>1. CASE source = <<>>
  BY <1>1 DEF SourceHolds, CascadeEvidence
<1>2. ASSUME NEW k \in Ids(d), EntityIsType(d, k, "journal_entry"),
             source = <<SourceColumns(JournalEntry(k))>>
      PROVE  SourceHolds(d2, CascadeEvidence(source, e), m)
  <2>1. source # <<>> /\ source[1].entity = <<k>>
    BY <1>2 DEF SourceColumns, JournalEntry
  <2>2. CASE k = e
    BY <2>1, <2>2 DEF CascadeEvidence, SourceHolds
  <2>3. CASE k # e
    <3>1. CascadeEvidence(source, e) = source
      BY <2>1, <2>3 DEF CascadeEvidence
    <3>2. EntityIsType(d2, k, "journal_entry") /\ k \in Ids(d2)
      BY <1>2, <2>3, TypesButOne DEF Cascaded
    <3>. QED  BY <3>1, <3>2, <1>2 DEF SourceHolds
  <2>. QED  BY <2>2, <2>3
<1>3. ASSUME NEW message \in m, source = <<SourceColumns(Message(message))>>
      PROVE  SourceHolds(d2, CascadeEvidence(source, e), m)
  <2>1. source # <<>> /\ source[1].entity = <<>>
    BY <1>3 DEF SourceColumns, Message
  <2>2. CascadeEvidence(source, e) = source
    BY <2>1 DEF CascadeEvidence
  <2>. QED  BY <2>2, <1>3 DEF SourceHolds
<1>. QED  BY <1>1, <1>2, <1>3 DEF SourceHolds

LEMMA CascadedEntity ==
  ASSUME NEW d, NEW d2, NEW e, Cascaded(d, d2, e), NEW m, NEW row, EntityHolds(d, row, m),
         Single(row.sources)
  PROVE  LET left == [row EXCEPT !.sources = CascadeSources(row.sources, e)]
         IN  EntityHolds(d2, left, m) /\ Single(left.sources)
<1>. DEFINE sources == CascadeSources(row.sources, e)
            left == [row EXCEPT !.sources = sources]
<1>1. left = [type |-> row.type, data |-> row.data, at |-> row.at, sources |-> sources, revs |-> row.revs]
  <2>1. row = [type |-> row.type, data |-> row.data, at |-> row.at, sources |-> row.sources,
               revs |-> row.revs]
    BY DEF EntityHolds
  <2>2. PICK type, load, stamp, old, revs :
            row = [type |-> type, data |-> load, at |-> stamp, sources |-> old, revs |-> revs]
    BY <2>1
  <2>. HIDE DEF sources
  <2>. QED  BY <2>2
<1>2. IsSequence(row.sources) /\ \A s \in ToSet(row.sources) : SourceRowHolds(d, s, m)
  BY DEF EntityHolds
<1>3. /\ IsSequence(sources) /\ DOMAIN sources = DOMAIN row.sources
      /\ \A k \in DOMAIN sources :
            \/ sources[k] = row.sources[k] /\ row.sources[k].source # EntrySource(e)
            \/ sources[k] = NoRow
  BY <1>2, CascadeForms
<1>4. ASSUME NEW k \in DOMAIN sources PROVE SourceRowHolds(d2, sources[k], m)
  <2>1. CASE sources[k] = NoRow
    BY <2>1 DEF SourceRowHolds
  <2>2. CASE sources[k] = row.sources[k] /\ row.sources[k].source # EntrySource(e) /\ row.sources[k] # NoRow
    <3>1. SourceRowHolds(d, row.sources[k], m)
      BY <1>2, <1>3 DEF ToSet
    <3>2. \A i \in Ids(d) : EntityIsType(d, i, "journal_entry") /\ i # e =>
                               i \in Ids(d2) /\ EntityIsType(d2, i, "journal_entry")
      BY TypesButOne DEF Cascaded
    <3>. HIDE DEF sources
    <3>. QED  BY <2>2, <3>1, <3>2 DEF SourceRowHolds
  <2>. QED  BY <1>3, <2>1, <2>2
<1>5. /\ row.type \in {"journal_entry", "person", "habit"} /\ row.at \in Int
      /\ row.data = Data(row.data.name, row.data.day) /\ row.data.day \in Int
      /\ IsSequence(row.revs) /\ row.revs # <<>> /\ \A rev \in ToSet(row.revs) : rev.at \in Int
  BY DEF EntityHolds
<1>6. \A s \in ToSet(sources) : SourceRowHolds(d2, s, m)
  BY <1>4 DEF ToSet
<1>. HIDE DEF sources, left
<1>7. EntityHolds(d2, left, m)
  BY <1>1, <1>3, <1>5, <1>6 DEF EntityHolds
<1>8. Single(left.sources)
  <2>1. \A k \in MadeFrom(sources) : k \in MadeFrom(row.sources)
    BY <1>3 DEF MadeFrom, NoRow
  <2>. QED  BY <1>1, <2>1 DEF Single
<1>. QED  BY <1>7, <1>8 DEF left, sources

LEMMA DeleteEntityHolds ==
  ASSUME NEW d, NEW m, TablesHold(d, m), NEW e \in Ids(d),
         d.ent[e].type # "habit" \/ \A o \in DOMAIN d.obs : ~Mentions(d.obs[o].facts, e)
  PROVE  LET d2 == DeleteEntity(d, e)
         IN  TablesHold(d2, m) /\ Cascaded(d, d2, e) /\ Recorded(d, d2)
<1>. DEFINE d2 == DeleteEntity(d, e)
<1>. HIDE DEF d2
<1>1. /\ Shaped(d2) /\ Cascaded(d, d2, e) /\ IsSequence(d2.ent) /\ IsSequence(d2.obs)
      /\ \A k \in Ids(d) : k # e /\ d.ent[k] # Gone =>
            d2.ent[k] = [d.ent[k] EXCEPT !.sources = CascadeSources(d.ent[k].sources, e)]
      /\ d2.refs = {r \in d.refs : r.source # e /\ r.target # e}
      /\ DOMAIN d2.obs = DOMAIN d.obs
  BY DeleteForms DEF d2
<1>2. \A o \in DOMAIN d.obs :
         d2.obs[o] = [d.obs[o] EXCEPT !.source = CascadeEvidence(d.obs[o].source, e)]
  BY DeleteForms DEF d2
<1>3. ASSUME NEW k \in Ids(d2), d2.ent[k] # Gone
      PROVE  EntityHolds(d2, d2.ent[k], m) /\ \A i, j \in CreatedFrom(d2, k) : i = j
  <2>1. k \in Ids(d) /\ k # e /\ d.ent[k] # Gone
    BY <1>1, <1>3 DEF Cascaded
  <2>2. EntityHolds(d, d.ent[k], m) /\ Single(d.ent[k].sources)
    BY <2>1 DEF TablesHold, CreatedFrom, Single, MadeFrom
  <2>3. d2.ent[k] = [d.ent[k] EXCEPT !.sources = CascadeSources(d.ent[k].sources, e)]
    BY <1>1, <2>1
  <2>4. EntityHolds(d2, d2.ent[k], m) /\ Single(d2.ent[k].sources)
    <3>. DEFINE row == d.ent[k]
                left == [row EXCEPT !.sources = CascadeSources(row.sources, e)]
    <3>1. EntityHolds(d, row, m) /\ Single(row.sources) /\ d2.ent[k] = left
      BY <2>2, <2>3
    <3>. HIDE DEF row
    <3>2. EntityHolds(d2, left, m)
      BY <1>1, <3>1, CascadedEntity
    <3>3. Single(left.sources)
      BY <1>1, <3>1, CascadedEntity
    <3>. HIDE DEF left
    <3>. QED  BY <3>1, <3>2, <3>3
  <2>. QED  BY <2>4 DEF CreatedFrom, Single, MadeFrom
<1>4. ASSUME NEW r \in d2.refs PROVE RefHolds(d2, r)
  <2>1. RefHolds(d, r) /\ r.source # e /\ r.target # e
    BY <1>1 DEF TablesHold
  <2>. QED  BY <1>1, <2>1, TypesButOne DEF RefHolds
<1>5. ASSUME NEW o \in DOMAIN d.obs
      PROVE  ObservationHolds(d2, d2.obs[o], m) /\ d2.obs[o].facts = d.obs[o].facts
  <2>. DEFINE row == d.obs[o]
              left == d2.obs[o]
  <2>1. ObservationHolds(d, row, m)
    BY DEF TablesHold
  <2>2. left = [facts |-> row.facts, created |-> row.created, updated |-> row.updated,
                source |-> CascadeEvidence(row.source, e), revs |-> row.revs]
    <3>1. row = [facts |-> row.facts, created |-> row.created, updated |-> row.updated,
                 source |-> row.source, revs |-> row.revs]
      BY <2>1 DEF ObservationHolds
    <3>2. left = [row EXCEPT !.source = CascadeEvidence(row.source, e)]
      BY <1>2
    <3>3. PICK facts, created, updated, source, revs :
             row = [facts |-> facts, created |-> created, updated |-> updated,
                    source |-> source, revs |-> revs]
      BY <3>1
    <3>. HIDE DEF row, left
    <3>. QED  BY <3>2, <3>3
  <2>. HIDE DEF left
  <2>3. FactsHold(d, row.facts) /\ SourceHolds(d, row.source, m)
        /\ row.created \in Int /\ RevisionsHold(row.revs, row.facts)
    BY <2>1 DEF ObservationHolds
  <2>4. FactsHold(d2, row.facts)
    <3>1. d.ent[e].type # "habit" \/ ~Mentions(row.facts, e)
      OBVIOUS
    <3>. HIDE DEF row
    <3>. QED  BY <1>1, <2>3, <3>1, CascadedFacts
  <2>5. SourceHolds(d2, CascadeEvidence(row.source, e), m)
    <3>. HIDE DEF row
    <3>. QED  BY <1>1, <2>3, CascadedSource
  <2>6. ObservationHolds(d2, left, m) /\ left.facts = row.facts
    <3>. HIDE DEF row
    <3>. QED  BY <2>2, <2>3, <2>4, <2>5 DEF ObservationHolds
  <2>. QED  BY <2>6 DEF left
<1>6. TablesHold(d2, m)
  BY <1>1, <1>3, <1>4, <1>5 DEF TablesHold, Shaped
<1>7. Recorded(d, d2)
  BY <1>1, <1>5 DEF Recorded
<1>. QED  BY <1>1, <1>6, <1>7 DEF d2

(***************************************************************************)
(* Recording and correcting: what passed the checks holds once stored.     *)
(***************************************************************************)
LEMMA PreparedHolds ==
  ASSUME NEW d, NEW schema, NEW draft, IsDraft(draft), ValidFields(schema, draft),
         ~InvalidRelation(d, PrepareSnapshot(schema, draft).relations)
  PROVE  LET facts == Facts(PrepareSnapshot(schema, draft))
         IN  FactsHold(d, facts) /\ facts.schema = schema
<1>. DEFINE snapshot == PrepareSnapshot(schema, draft)
            facts == Facts(snapshot)
<1>1. facts = [schema |-> schema, occurred |-> draft.occurred, ended |-> draft.ended,
               values |-> RelationChecks(schema, draft.values).values]
      /\ snapshot.relations = RelationChecks(schema, draft.values).relations
  BY DEF Facts, PrepareSnapshot
<1>2. schema \in Schemas /\ draft.occurred \in Int
  BY DEF ValidFields, IsDraft
<1>3. ASSUME NEW r \in RelationsOf(schema)
      PROVE  EntityIsType(d, RelationChecks(schema, draft.values).values[r.field], r.target)
  <2>1. schema = "habit.checkin" /\ r.field = "habit_id" /\ r.target = "habit"
    BY RelationsAre
  <2>2. r.field \in DOMAIN draft.values
    BY <2>1 DEF ValidFields, RequiredField
  <2>3. RelationChecks(schema, draft.values).values[r.field] = NormalizeUuid(draft.values[r.field])
    BY <2>2 DEF RelationChecks
  <2>4. [entity |-> NormalizeUuid(draft.values[r.field]), target |-> r.target] \in snapshot.relations
    BY <1>1 DEF RelationChecks
  <2>. HIDE DEF snapshot
  <2>5. EntityIsType(d, NormalizeUuid(draft.values[r.field]), r.target)
    <3>. DEFINE pair == [entity |-> NormalizeUuid(draft.values[r.field]), target |-> r.target]
    <3>1. pair.entity = NormalizeUuid(draft.values[r.field]) /\ pair.target = r.target
      OBVIOUS
    <3>2. pair \in snapshot.relations
      BY <2>4
    <3>3. ~InvalidRelation(d, snapshot.relations)
      BY DEF snapshot
    <3>. HIDE DEF pair
    <3>. QED  BY <3>1, <3>2, <3>3 DEF InvalidRelation
  <2>. QED  BY <2>3, <2>5
<1>. HIDE DEF facts, snapshot
<1>4. FactsHold(d, facts) /\ facts.schema = schema
  BY <1>1, <1>2, <1>3 DEF FactsHold
<1>. QED  BY <1>4 DEF facts, snapshot

LEMMA EvidenceHolds ==
  ASSUME NEW d, NEW m, NEW payload, IsPayload(payload), NamesOneSource(payload.evidence),
         NEW source, source = SourceFromEvidence(payload.evidence)
  PROVE  \/ source = <<>>
         \/ \E id \in Int : source = <<JournalEntry(id)>>
         \/ \E id \in Int : source = <<Message(id)>>
<1>. DEFINE evidence == payload.evidence
<1>1. IsSequence(evidence) /\ \A e \in ToSet(evidence) :
         e.journal_entry_id \in Seq(Int) /\ e.message_id \in Seq(Int)
  BY DEF IsPayload
<1>2. CASE evidence = <<>>
  BY <1>2 DEF SourceFromEvidence
<1>3. CASE evidence # <<>>
  <2>1. 1 \in DOMAIN evidence
    <3>. HIDE DEF evidence
    <3>. QED  BY <1>1, <1>3, SequenceFacts
  <2>2. evidence[1].journal_entry_id \in Seq(Int) /\ evidence[1].message_id \in Seq(Int)
    BY <1>1, <2>1 DEF ToSet
  <2>3. Len(evidence[1].journal_entry_id) + Len(evidence[1].message_id) = 1
    BY <2>1 DEF NamesOneSource
  <2>4. CASE evidence[1].journal_entry_id # <<>>
    <3>1. evidence[1].journal_entry_id[1] \in Int
      BY <2>2, <2>4
    <3>2. source = <<JournalEntry(evidence[1].journal_entry_id[1])>>
      BY <1>3, <2>4 DEF SourceFromEvidence
    <3>. QED  BY <3>1, <3>2
  <2>5. CASE evidence[1].journal_entry_id = <<>>
    <3>1. Len(evidence[1].message_id) = 1
      BY <2>2, <2>3, <2>5
    <3>2. evidence[1].message_id[1] \in Int
      BY <2>2, <3>1
    <3>3. source = <<Message(evidence[1].message_id[1])>>
      BY <1>3, <2>5 DEF SourceFromEvidence
    <3>. QED  BY <3>2, <3>3
  <2>. QED  BY <2>4, <2>5
<1>. QED  BY <1>2, <1>3

\* What the transaction found to exist is what the columns name.
LEMMA ColumnsHold ==
  ASSUME NEW d, NEW m, NEW source, NEW id \in Int,
         source = JournalEntry(id) \/ source = Message(id),
         SourceExists(d, m, ValidatedSource(source))
  PROVE  SourceHolds(d, <<SourceColumns(ValidatedSource(source))>>, m)
<1>1. CASE source = JournalEntry(id)
  <2>1. ValidatedSource(source) = JournalEntry(NormalizeUuid(id))
    BY <1>1 DEF ValidatedSource, JournalEntry
  <2>2. EntityIsType(d, NormalizeUuid(id), "journal_entry") /\ NormalizeUuid(id) \in Ids(d)
    BY <2>1 DEF SourceExists, JournalEntry, EntityIsType
  <2>. QED  BY <2>1, <2>2 DEF SourceHolds
<1>2. CASE source = Message(id)
  <2>1. ValidatedSource(source) = Message(NormalizeUuid(id))
    BY <1>2 DEF ValidatedSource, Message
  <2>2. NormalizeUuid(id) \in m
    BY <2>1 DEF SourceExists, Message
  <2>. QED  BY <2>1, <2>2 DEF SourceHolds
<1>. QED  BY <1>1, <1>2

LEMMA PreparedSource ==
  ASSUME NEW d, NEW m, NEW payload, IsPayload(payload), NamesOneSource(payload.evidence),
         NEW insert,
         insert.source = LET source == SourceFromEvidence(payload.evidence)
                         IN  IF source = <<>> THEN <<>> ELSE <<ValidatedSource(source[1])>>,
         \A source \in ToSet(insert.source) : SourceExists(d, m, source)
  PROVE  SourceHolds(d, [k \in DOMAIN insert.source |-> SourceColumns(insert.source[k])], m)
<1>. DEFINE asked == SourceFromEvidence(payload.evidence)
            columns == [k \in DOMAIN insert.source |-> SourceColumns(insert.source[k])]
<1>1. CASE asked = <<>>
  <2>1. columns = <<>>
    BY <1>1
  <2>. QED  BY <2>1 DEF SourceHolds
<1>2. CASE asked # <<>>
  <2>1. PICK id \in Int : asked = <<JournalEntry(id)>> \/ asked = <<Message(id)>>
    BY <1>2, EvidenceHolds
  <2>2. PICK source : source = asked[1]
    OBVIOUS
  <2>3. source = JournalEntry(id) \/ source = Message(id)
    BY <2>1, <2>2
  <2>4. insert.source = <<ValidatedSource(source)>>
    BY <1>2, <2>2
  <2>5. SourceExists(d, m, ValidatedSource(source))
    BY <2>4 DEF ToSet
  <2>6. columns = <<SourceColumns(ValidatedSource(source))>>
    BY <2>4
  <2>. HIDE DEF columns
  <2>. QED  BY <2>3, <2>5, <2>6, ColumnsHold DEF columns
<1>. QED  BY <1>1, <1>2

LEMMA OneRevision ==
  \A rev : IsSequence(<<rev>>) /\ <<rev>> # <<>> /\ Len(<<rev>>) = 1 /\ <<rev>>[1] = rev /\ DOMAIN <<rev>> = {1}
BY DEF IsSequence, ToSet

\* Tables whose Observations alone changed.
LEMMA ObsChangeHolds ==
  ASSUME NEW d, NEW m, TablesHold(d, m), NEW obs, IsSequence(obs),
         NEW d2, d2 = [d EXCEPT !.obs = obs],
         \A o \in DOMAIN obs : \/ o \in DOMAIN d.obs /\ obs[o] = d.obs[o]
                               \/ ObservationHolds(d, obs[o], m)
  PROVE  TablesHold(d2, m) /\ Grown(d, d2) /\ d2.ent = d.ent /\ d2.refs = d.refs /\ d2.obs = obs
<1>1. Shaped(d) /\ IsSequence(d.ent)
  BY IdsAre
<1>2. d2 = [ent |-> d.ent, refs |-> d.refs, obs |-> obs]
  BY <1>1, ExceptForms
<1>3. Shaped(d2) /\ d2.ent = d.ent /\ d2.refs = d.refs /\ d2.obs = obs
  BY <1>2 DEF Shaped
<1>4. Grown(d, d2) /\ Ids(d2) = Ids(d)
  BY <1>3 DEF Grown, SameOrigin, Ids
<1>5. \A row : ObservationHolds(d, row, m) => ObservationHolds(d2, row, m)
  BY <1>4, GrownWider, ObservationsStay
<1>6. \A e \in Ids(d2) : e \in Ids(d) /\ d2.ent[e] = d.ent[e]
  BY <1>3, <1>4
<1>7. TablesHold(d2, m)
  BY <1>1, <1>3, <1>4, <1>5, <1>6, ChangeHolds
<1>. QED  BY <1>3, <1>4, <1>7

LEMMA InsertObservationsHolds ==
  ASSUME NEW d, NEW m, TablesHold(d, m), NEW load, IsPayload(load), ValidRecord(load),
         NEW inserts, inserts = PrepareObservations(load), BatchHolds(d, m, inserts),
         NEW proposal, NEW at \in Int
  PROVE  LET d2 == InsertObservations(d, inserts, proposal, at)
         IN  /\ TablesHold(d2, m) /\ Grown(d, d2) /\ Recorded(d, d2)
             /\ d2.ent = d.ent /\ d2.refs = d.refs
<1>. DEFINE rows == [k \in DOMAIN inserts |-> ObservationRow(inserts[k], proposal, at)]
            d2 == InsertObservations(d, inserts, proposal, at)
<1>1. IsSequence(load.observations) /\ IsSequence(d.obs)
  BY IdsAre DEF IsPayload
<1>2. Len(load.observations) \in Nat /\ DOMAIN load.observations = 1 .. Len(load.observations)
  BY <1>1, SequenceFacts
<1>3. DOMAIN inserts = 1 .. Len(load.observations)
  BY <1>2 DEF PrepareObservations
<1>4. IsSequence(rows) /\ DOMAIN rows = DOMAIN inserts
  <2>1. rows = [i \in 1 .. Len(load.observations) |-> rows[i]]
    BY <1>3
  <2>. HIDE DEF rows
  <2>. QED  BY <2>1, <1>2, <1>3, FunctionIsSequence
<1>5. ASSUME NEW k \in DOMAIN inserts PROVE ObservationHolds(d, rows[k], m)
  <2>. DEFINE record == load.observations[k]
              insert == inserts[k]
              row == ObservationRow(insert, proposal, at)
              facts == Facts(insert.snapshot)
              rev == Revision(insert.snapshot, proposal, at)
              columns == [i \in DOMAIN insert.source |-> SourceColumns(insert.source[i])]
  <2>1. k \in DOMAIN load.observations
    BY <1>2, <1>3
  <2>2. record \in ToSet(load.observations) /\ insert \in ToSet(inserts)
    BY <2>1 DEF ToSet
  <2>3. insert.snapshot = PrepareSnapshot(record.schema, record.draft)
        /\ insert.source = LET source == SourceFromEvidence(load.evidence)
                           IN  IF source = <<>> THEN <<>> ELSE <<ValidatedSource(source[1])>>
    BY <2>1 DEF PrepareObservations
  <2>4. ValidFields(record.schema, record.draft) /\ IsDraft(record.draft) /\ NamesOneSource(load.evidence)
    BY <2>2 DEF ValidRecord, IsPayload
  <2>5. ~InvalidRelation(d, insert.snapshot.relations)
        /\ \A source \in ToSet(insert.source) : SourceExists(d, m, source)
    BY <2>2 DEF BatchHolds
  <2>. HIDE DEF record, insert
  <2>6. FactsHold(d, facts)
    BY <2>3, <2>4, <2>5, PreparedHolds
  <2>7. SourceHolds(d, columns, m)
    BY <2>3, <2>4, <2>5, PreparedSource
  <2>8. row = [facts |-> facts, created |-> at, updated |-> at, source |-> columns, revs |-> <<rev>>]
        /\ rev.facts = facts
    BY DEF ObservationRow, Revision
  <2>. HIDE DEF facts, columns, rev
  <2>9. RevisionsHold(<<rev>>, facts)
    <3>1. IsSequence(<<rev>>) /\ <<rev>> # <<>> /\ Len(<<rev>>) = 1 /\ <<rev>>[1] = rev /\ DOMAIN <<rev>> = {1}
      BY OneRevision
    <3>. QED  BY <3>1, <2>8 DEF RevisionsHold
  <2>. HIDE DEF row
  <2>10. ObservationHolds(d, row, m)
    BY <2>6, <2>7, <2>8, <2>9 DEF ObservationHolds
  <2>11. rows[k] = row
    BY DEF row, insert
  <2>. QED  BY <2>10, <2>11
<1>. HIDE DEF rows
<1>6. /\ IsSequence(d.obs \o rows) /\ DOMAIN (d.obs \o rows) = 1 .. Len(d.obs) + Len(rows)
      /\ \A i \in DOMAIN d.obs : (d.obs \o rows)[i] = d.obs[i]
      /\ \A i \in DOMAIN rows : (d.obs \o rows)[Len(d.obs) + i] = rows[i]
  <2>1. IsSequence(d.obs \o rows) /\ DOMAIN (d.obs \o rows) = 1 .. Len(d.obs) + Len(rows)
    BY <1>1, <1>4, CatHolds
  <2>2. \A i \in DOMAIN d.obs : (d.obs \o rows)[i] = d.obs[i]
    BY <1>1, <1>4, CatHolds
  <2>3. \A i \in DOMAIN rows : (d.obs \o rows)[Len(d.obs) + i] = rows[i]
    BY <1>1, <1>4, CatRight, Zenon
  <2>. QED  BY <2>1, <2>2, <2>3
<1>7. Len(d.obs) \in Nat /\ DOMAIN d.obs = 1 .. Len(d.obs) /\ Len(rows) \in Nat /\ DOMAIN rows = 1 .. Len(rows)
  BY <1>1, <1>4, SequenceFacts
<1>8. ASSUME NEW o \in DOMAIN (d.obs \o rows)
      PROVE  \/ o \in DOMAIN d.obs /\ (d.obs \o rows)[o] = d.obs[o]
             \/ ObservationHolds(d, (d.obs \o rows)[o], m)
  <2>1. CASE o <= Len(d.obs)
    BY <2>1, <1>6, <1>7
  <2>2. CASE ~(o <= Len(d.obs))
    <3>1. o - Len(d.obs) \in DOMAIN rows /\ Len(d.obs) + (o - Len(d.obs)) = o
      BY <2>2, <1>6, <1>7
    <3>2. (d.obs \o rows)[o] = rows[o - Len(d.obs)]
      BY <3>1, <1>6
    <3>. QED  BY <3>1, <3>2, <1>4, <1>5
  <2>. QED  BY <2>1, <2>2
<1>9. d2 = [d EXCEPT !.obs = d.obs \o rows]
  BY DEF InsertObservations, rows
<1>. HIDE DEF d2
<1>10. TablesHold(d2, m) /\ Grown(d, d2) /\ d2.ent = d.ent /\ d2.refs = d.refs /\ d2.obs = d.obs \o rows
  <2>. DEFINE obs == d.obs \o rows
  <2>1. IsSequence(obs) /\ d2 = [d EXCEPT !.obs = obs]
    BY <1>6, <1>9
  <2>2. \A o \in DOMAIN obs : \/ o \in DOMAIN d.obs /\ obs[o] = d.obs[o]
                              \/ ObservationHolds(d, obs[o], m)
    BY <1>8
  <2>. HIDE DEF obs
  <2>3. TablesHold(d2, m) /\ Grown(d, d2) /\ d2.ent = d.ent /\ d2.refs = d.refs /\ d2.obs = obs
    BY <2>1, <2>2, ObsChangeHolds
  <2>. QED  BY <2>3 DEF obs
<1>11. Recorded(d, d2)
  BY <1>6, <1>7, <1>10 DEF Recorded
<1>. QED  BY <1>10, <1>11 DEF d2

LEMMA UpdateObservationHolds ==
  ASSUME NEW d, NEW m, TablesHold(d, m), NEW o \in DOMAIN d.obs,
         NEW draft, IsDraft(draft), NEW schema, schema = d.obs[o].facts.schema,
         ValidFields(schema, draft),
         NEW update, update = PrepareObservationUpdate(schema, draft), UpdateHolds(d, update),
         NEW at \in Int
  PROVE  LET d2 == UpdateObservation(d, o, update, at)
         IN  /\ TablesHold(d2, m) /\ Grown(d, d2) /\ Recorded(d, d2)
             /\ d2.ent = d.ent /\ d2.refs = d.refs
<1>. DEFINE old == d.obs[o]
            facts == Facts(update)
            rev == Revision(update, <<>>, at)
            row == [facts |-> facts, created |-> old.created, updated |-> at,
                    source |-> old.source, revs |-> Append(old.revs, rev)]
            d2 == UpdateObservation(d, o, update, at)
<1>1. ObservationHolds(d, old, m) /\ IsSequence(d.obs) /\ Shaped(d)
  BY IdsAre DEF TablesHold
<1>2. FactsHold(d, facts) /\ facts.schema = schema
  <2>1. update = PrepareSnapshot(schema, draft) /\ ~InvalidRelation(d, update.relations)
    BY DEF PrepareObservationUpdate, UpdateHolds
  <2>2. FactsHold(d, Facts(PrepareSnapshot(schema, draft)))
    BY <2>1, PreparedHolds
  <2>3. Facts(PrepareSnapshot(schema, draft)).schema = schema
    BY <2>1, PreparedHolds
  <2>. QED  BY <2>1, <2>2, <2>3
<1>3. facts = [facts EXCEPT !.schema = old.facts.schema]
  <2>1. facts = [schema |-> schema, occurred |-> update.occurred, ended |-> update.ended,
                 values |-> update.values]
    BY <1>2 DEF Facts
  <2>2. schema = old.facts.schema
    OBVIOUS
  <2>. HIDE DEF facts, old
  <2>. QED  BY <2>1, <2>2
<1>4. d2 = [d EXCEPT !.obs = [d.obs EXCEPT ![o] = row]]
  <2>1. old = [facts |-> old.facts, created |-> old.created, updated |-> old.updated,
               source |-> old.source, revs |-> old.revs]
    BY <1>1 DEF ObservationHolds
  <2>. DEFINE mid == [old EXCEPT !.facts = facts, !.updated = at]
              d1 == [d EXCEPT !.obs = [d.obs EXCEPT ![o] = mid]]
  <2>2. UpdateObservationRow(d, o, update, at)
            = [d EXCEPT !.obs[o].facts = facts, !.obs[o].updated = at]
    BY <1>3 DEF UpdateObservationRow
  <2>3. [d EXCEPT !.obs[o].facts = facts, !.obs[o].updated = at] = d1
    <3>1. PICK ent, refs, obs : d = [ent |-> ent, refs |-> refs, obs |-> obs]
      BY <1>1 DEF Shaped
    <3>. HIDE DEF facts
    <3>. QED  BY <3>1
  <2>4. d2 = InsertNextRevision(d1, o, update, <<>>, at)
    BY <2>2, <2>3 DEF UpdateObservation
  <2>5. mid = [facts |-> facts, created |-> old.created, updated |-> at,
               source |-> old.source, revs |-> old.revs]
    <3>1. PICK past, created, updated, source, revs :
             old = [facts |-> past, created |-> created, updated |-> updated,
                    source |-> source, revs |-> revs]
      BY <2>1
    <3>. DEFINE half == [old EXCEPT !.facts = facts]
    <3>. HIDE DEF old, facts
    <3>2. half = [facts |-> facts, created |-> created, updated |-> updated,
                  source |-> source, revs |-> revs]
      BY <3>1
    <3>3. mid = [half EXCEPT !.updated = at]
      OBVIOUS
    <3>. HIDE DEF half, mid
    <3>4. mid = [facts |-> facts, created |-> created, updated |-> at,
                 source |-> source, revs |-> revs]
      BY <3>2, <3>3
    <3>. QED  BY <3>1, <3>4
  <2>6. d1 = [ent |-> d.ent, refs |-> d.refs, obs |-> [d.obs EXCEPT ![o] = mid]]
    <3>. HIDE DEF mid
    <3>. QED  BY <1>1, ExceptForms
  <2>7. d1.obs[o] = mid /\ d1.obs = [d.obs EXCEPT ![o] = mid]
    <3>. HIDE DEF d1, mid
    <3>. QED  BY <2>6
  <2>8. d2 = [d1 EXCEPT !.obs = [d1.obs EXCEPT ![o] = [mid EXCEPT !.revs = Append(mid.revs, rev)]]]
    <3>1. [d1 EXCEPT !.obs[o].revs = Append(@, rev)]
             = [d1 EXCEPT !.obs = [d1.obs EXCEPT ![o] = [d1.obs[o] EXCEPT !.revs = Append(d1.obs[o].revs, rev)]]]
      <4>. HIDE DEF d1, rev, mid
      <4>1. PICK ent, refs, obs : d1 = [ent |-> ent, refs |-> refs, obs |-> obs]
        BY <2>6
      <4>. QED  BY <4>1
    <3>2. d2 = [d1 EXCEPT !.obs[o].revs = Append(@, rev)]
      <4>. HIDE DEF d1, d2
      <4>. QED  BY <2>4 DEF InsertNextRevision
    <3>. HIDE DEF d1, mid, rev, d2
    <3>. QED  BY <3>1, <3>2, <2>7
  <2>9. [mid EXCEPT !.revs = Append(mid.revs, rev)] = row
    <3>. DEFINE longer == Append(old.revs, rev)
    <3>1. mid.revs = old.revs
      <4>. HIDE DEF mid
      <4>. QED  BY <2>5
    <3>2. [mid EXCEPT !.revs = longer]
             = [facts |-> facts, created |-> old.created, updated |-> at,
                source |-> old.source, revs |-> longer]
      <4>. HIDE DEF mid, longer, old, facts
      <4>. QED  BY <2>5
    <3>. HIDE DEF mid
    <3>. QED  BY <3>1, <3>2
  <2>10. [d1 EXCEPT !.obs = [d1.obs EXCEPT ![o] = row]]
             = [ent |-> d.ent, refs |-> d.refs, obs |-> [[d.obs EXCEPT ![o] = mid] EXCEPT ![o] = row]]
    <3>. HIDE DEF d1, mid, row
    <3>. QED  BY <2>6, <2>7
  <2>11. [[d.obs EXCEPT ![o] = mid] EXCEPT ![o] = row] = [d.obs EXCEPT ![o] = row]
    <3>. HIDE DEF mid, row
    <3>. QED  OBVIOUS
  <2>12. [d EXCEPT !.obs = [d.obs EXCEPT ![o] = row]]
             = [ent |-> d.ent, refs |-> d.refs, obs |-> [d.obs EXCEPT ![o] = row]]
    <3>. HIDE DEF row
    <3>. QED  BY <1>1, ExceptForms
  <2>. HIDE DEF d1, mid, row, d2
  <2>. QED  BY <2>8, <2>9, <2>10, <2>11, <2>12
<1>5. ObservationHolds(d, row, m)
  <2>1. RevisionsHold(Append(old.revs, rev), facts)
    <3>1. IsSequence(old.revs) /\ old.revs # <<>> /\ old.revs[Len(old.revs)].facts = old.facts
          /\ \A seq \in DOMAIN old.revs :
                old.revs[seq].facts.schema = old.facts.schema /\ (seq > 1 => old.revs[seq].proposal = <<>>)
      BY <1>1 DEF ObservationHolds, RevisionsHold
    <3>2. rev.facts = facts /\ rev.proposal = <<>> /\ facts.schema = old.facts.schema
      BY <1>2 DEF Revision
    <3>. HIDE DEF old, rev, facts
    <3>3. Len(old.revs) \in Nat /\ DOMAIN old.revs = 1 .. Len(old.revs)
      BY <3>1, SequenceFacts
    <3>4. /\ IsSequence(Append(old.revs, rev)) /\ Append(old.revs, rev) # <<>>
          /\ Len(Append(old.revs, rev)) = Len(old.revs) + 1
          /\ DOMAIN Append(old.revs, rev) = 1 .. Len(old.revs) + 1
      BY <3>1, AppendHolds
    <3>5. /\ \A i \in DOMAIN old.revs : Append(old.revs, rev)[i] = old.revs[i]
          /\ Append(old.revs, rev)[Len(old.revs) + 1] = rev
      BY <3>1, AppendHolds
    <3>. QED  BY <3>1, <3>2, <3>3, <3>4, <3>5 DEF RevisionsHold
  <2>2. SourceHolds(d, old.source, m) /\ old.created \in Int
    BY <1>1 DEF ObservationHolds
  <2>. HIDE DEF old, rev, facts
  <2>. QED  BY <2>1, <2>2, <1>2 DEF ObservationHolds
<1>6. row.facts.schema = old.facts.schema
  BY <1>2
<1>. DEFINE obs == [d.obs EXCEPT ![o] = row]
<1>7. IsSequence(obs) /\ DOMAIN obs = DOMAIN d.obs /\ obs[o] = row
      /\ \A k \in DOMAIN d.obs : k # o => obs[k] = d.obs[k]
  <2>1. Len(d.obs) \in Nat /\ DOMAIN d.obs = 1 .. Len(d.obs)
    BY <1>1, SequenceFacts
  <2>2. obs = [i \in 1 .. Len(d.obs) |-> obs[i]]
    BY <2>1
  <2>3. IsSequence(obs)
    <3>. HIDE DEF obs
    <3>. QED  BY <2>1, <2>2, FunctionIsSequence
  <2>. HIDE DEF row
  <2>. QED  BY <2>3
<1>8. d2 = [d EXCEPT !.obs = obs]
  BY <1>4
<1>. HIDE DEF row, obs, d2
<1>9. \A k \in DOMAIN obs : \/ k \in DOMAIN d.obs /\ obs[k] = d.obs[k]
                            \/ ObservationHolds(d, obs[k], m)
  BY <1>5, <1>7
<1>10. TablesHold(d2, m) /\ Grown(d, d2) /\ d2.ent = d.ent /\ d2.refs = d.refs /\ d2.obs = obs
  BY <1>7, <1>8, <1>9, ObsChangeHolds
<1>11. Recorded(d, d2)
  BY <1>6, <1>7, <1>10 DEF Recorded
<1>. QED  BY <1>10, <1>11 DEF d2

(***************************************************************************)
(* A request that waits: what it may say.                                  *)
(***************************************************************************)
Ops == {"create", "rename", "move", "reference", "forget person", "forget entry", "forget habit",
        "capture", "record", "correct"}

Asked(d, messages, m) ==
    /\ m.op \in Ops
    /\ m.run \in {User} \cup messages
    /\ m.day \in Int /\ m.at \in Int
    /\ m.op = "create" /\ m.run = User => m.other = 0
    /\ m.op \in {"record", "correct"} => IsPayload(m.payload[1]) /\ ValidRecord(m.payload[1])
    /\ m.op = "correct" =>
          /\ m.target \in DOMAIN d.obs
          /\ m.payload[1].observations[1].schema = d.obs[m.target].facts.schema

LEMMA AskedStays ==
  ASSUME NEW d, NEW d2, Recorded(d, d2), NEW ms, NEW ms2, ms \subseteq ms2,
         NEW m, Asked(d, ms, m)
  PROVE  Asked(d2, ms2, m)
BY DEF Asked, Recorded

LEMMA FirstRecord ==
  ASSUME NEW load, IsPayload(load), ValidRecord(load)
  PROVE  LET record == load.observations[1]
         IN  IsDraft(record.draft) /\ ValidFields(record.schema, record.draft)
<1>1. IsSequence(load.observations) /\ load.observations # <<>>
  BY DEF IsPayload, ValidRecord
<1>2. 1 \in DOMAIN load.observations
  BY <1>1, SequenceFacts
<1>3. load.observations[1] \in ToSet(load.observations)
  BY <1>2 DEF ToSet
<1>. QED  BY <1>3 DEF IsPayload, ValidRecord

LEMMA TypeIsThere ==
  \A d, e : \A type \in {"journal_entry", "person", "habit"} :
     EntityIsType(d, e, type) => e \in Ids(d) /\ d.ent[e] # Gone /\ d.ent[e].type = type
BY DEF EntityIsType, Gone

LEMMA OldData ==
  ASSUME NEW d, NEW m, TablesHold(d, m), NEW e \in Ids(d), d.ent[e] # Gone
  PROVE  IsData(d.ent[e].data)
BY DEF TablesHold, EntityHolds, IsData

LEMMA UpdatedFromHolds ==
  ASSUME NEW d, NEW ms, TablesHold(d, ms), NEW m, m.run \in {User} \cup ms, m.at \in Int,
         m.target \in Ids(d), d.ent[m.target] # Gone
  PROVE  LET d2 == UpdatedFrom(d, m)
         IN  TablesHold(d2, ms) /\ Grown(d, d2) /\ d2.obs = d.obs
<1>1. CASE m.run = User
  BY <1>1, GrownNot DEF UpdatedFrom
<1>2. CASE m.run # User
  <2>. DEFINE row == SourceRow(MessageSource(m.run), "updated_from", m.at)
  <2>1. SourceRowHolds(d, row, ms) /\ row.relation = "updated_from"
    BY <1>2 DEF SourceRowHolds, SourceRow
  <2>2. UpdatedFrom(d, m) = InsertSource(d, m.target, row)
    BY <1>2 DEF UpdatedFrom
  <2>. HIDE DEF row
  <2>. QED  BY <2>1, <2>2, InsertSourceHolds
<1>. QED  BY <1>1, <1>2

LEMMA RecordedAlike == \A d, d2 : d2.obs = d.obs => Recorded(d, d2)
BY DEF Recorded

LEMMA RenameHolds ==
  ASSUME NEW d, NEW ms, TablesHold(d, ms), NEW m, m.run \in {User} \cup ms, m.at \in Int,
         m.target \in Ids(d), d.ent[m.target] # Gone, NEW data, IsData(data)
  PROVE  LET d2 == UpdatedFrom(UpdateEntity(d, m.target, data, m.at), m)
         IN  TablesHold(d2, ms) /\ Grown(d, d2) /\ d2.obs = d.obs
<1>. DEFINE d1 == UpdateEntity(d, m.target, data, m.at)
            d2 == UpdatedFrom(d1, m)
<1>1. TablesHold(d1, ms) /\ Grown(d, d1) /\ Ids(d1) = Ids(d) /\ d1.obs = d.obs
  BY UpdateEntityHolds
<1>. HIDE DEF d1
<1>2. m.target \in Ids(d1) /\ d1.ent[m.target] # Gone
  BY <1>1 DEF Grown
<1>3. TablesHold(d2, ms) /\ Grown(d1, d2) /\ d2.obs = d1.obs
  BY <1>1, <1>2, UpdatedFromHolds
<1>. HIDE DEF d2
<1>4. Grown(d, d2)
  BY <1>1, <1>3, GrownTwice
<1>. QED  BY <1>1, <1>3, <1>4 DEF d2, d1

LEMMA ReferenceHolds ==
  ASSUME NEW d, NEW ms, TablesHold(d, ms), NEW m, m.run \in {User} \cup ms, m.at \in Int,
         EntityIsType(d, m.target, "journal_entry"), EntityIsType(d, m.other, "person"), NEW label
  PROVE  LET d2 == UpdatedFrom(UpdateEntity(InsertEntityRef(d, m.target, m.other, label),
                                            m.target, d.ent[m.target].data, m.at), m)
         IN  TablesHold(d2, ms) /\ Grown(d, d2) /\ d2.obs = d.obs
<1>. DEFINE d1 == InsertEntityRef(d, m.target, m.other, label)
            data == d.ent[m.target].data
            d2 == UpdatedFrom(UpdateEntity(d1, m.target, data, m.at), m)
<1>1. TablesHold(d1, ms) /\ Grown(d, d1) /\ Ids(d1) = Ids(d) /\ d1.ent = d.ent /\ d1.obs = d.obs
  BY InsertEntityRefHolds
<1>2. m.target \in Ids(d) /\ d.ent[m.target] # Gone /\ IsData(data)
  BY TypeIsThere, OldData
<1>. HIDE DEF d1, data
<1>3. TablesHold(d2, ms) /\ Grown(d1, d2) /\ d2.obs = d1.obs
  BY <1>1, <1>2, RenameHolds
<1>. HIDE DEF d2
<1>4. Grown(d, d2)
  BY <1>1, <1>3, GrownTwice
<1>. QED  BY <1>1, <1>3, <1>4 DEF d2, d1, data

LEMMA SourcesHold ==
  ASSUME NEW d, NEW ms, NEW m, m.run \in {User} \cup ms, m.at \in Int,
         m.op = "create" /\ m.run # User => m.other = 0 \/ EntityIsType(d, m.other, "journal_entry")
  PROVE  /\ IsSequence(Sources(m)) /\ Single(Sources(m))
         /\ \A row \in ToSet(Sources(m)) : SourceRowHolds(d, row, ms)
<1>1. CASE m.run = User
  BY <1>1 DEF Sources, IsSequence, Single, MadeFrom, ToSet
<1>2. CASE m.run # User
  <2>. DEFINE row == SourceRow(SourceOf(m), "created_from", m.at)
  <2>1. SourceOf(m) = MessageSource(m.run)
        \/ \E e \in Ids(d) : EntityIsType(d, e, "journal_entry") /\ SourceOf(m) = EntrySource(e)
    BY <1>2 DEF SourceOf, EntityIsType
  <2>2. SourceRowHolds(d, row, ms)
    BY <1>2, <2>1 DEF SourceRowHolds, SourceRow
  <2>3. Sources(m) = <<row>>
    BY <1>2 DEF Sources
  <2>. HIDE DEF row
  <2>4. IsSequence(<<row>>) /\ DOMAIN <<row>> = {1} /\ <<row>>[1] = row
    BY OneRevision
  <2>. QED  BY <2>2, <2>3, <2>4 DEF Single, MadeFrom, ToSet
<1>. QED  BY <1>1, <1>2

LEMMA ResolvedHolds ==
  ASSUME NEW d, NEW name, ResolveDisposition(d, [name |-> name, hint |-> 0]).op # "ambiguous"
  PROVE  LET who == ResolveDisposition(d, [name |-> name, hint |-> 0])
         IN  \/ who.op = "create"
             \/ who.op # "create" /\ EntityIsType(d, CHOOSE e \in who.ids : TRUE, "person")
<1>. DEFINE node == [name |-> name, hint |-> 0]
            exact == ExactLabelMatches(d, name)
<1>1. ~EntityIsType(d, node.hint, "person")
  BY DEF EntityIsType, Ids
<1>2. ResolveDisposition(d, node) = ByLabel(d, name)
  BY <1>1 DEF ResolveDisposition
<1>3. CASE exact = {}
  BY <1>2, <1>3, FS_EmptySet DEF ByLabel, Create
<1>4. CASE exact # {} /\ Cardinality(exact) = 1
  <2>. DEFINE e == CHOOSE x \in exact : TRUE
  <2>1. ByLabel(d, name) = Reuse(e)
    BY <1>4 DEF ByLabel
  <2>2. e \in exact
    BY <1>4
  <2>3. EntityIsType(d, e, "person")
    BY <2>2 DEF ExactLabelMatches, Live
  <2>. HIDE DEF e
  <2>4. Reuse(e).op = "reuse" /\ Reuse(e).ids = {e}
    BY DEF Reuse
  <2>5. (CHOOSE x \in {e} : TRUE) = e
    OBVIOUS
  <2>. QED  BY <1>2, <2>1, <2>3, <2>4, <2>5
<1>5. CASE exact # {} /\ Cardinality(exact) # 1
  <2>1. ByLabel(d, name) = Ambiguous(exact)
    BY <1>5 DEF ByLabel
  <2>. QED  BY <1>2, <2>1 DEF Ambiguous
<1>. QED  BY <1>3, <1>4, <1>5

LEMMA EmptySources == \A d, ms : IsSequence(<<>>) /\ Single(<<>>) /\ \A row \in ToSet(<<>>) : SourceRowHolds(d, row, ms)
BY DEF IsSequence, Single, MadeFrom, ToSet

LEMMA MintedHolds ==
  ASSUME NEW d, NEW ms, TablesHold(d, ms), NEW name, NEW at \in Int
  PROVE  LET d2 == InsertEntity(d, "person", Data(name, 0), <<>>, at)
         IN  /\ TablesHold(d2, ms) /\ Grown(d, d2) /\ d2.obs = d.obs
             /\ EntityIsType(d2, Len(d2.ent), "person")
<1>. DEFINE data == Data(name, 0)
            none == <<>>
            d2 == InsertEntity(d, "person", data, none, at)
<1>1. IsData(data)
  BY DataForms
<1>2. IsSequence(none) /\ Single(none) /\ \A row \in ToSet(none) : SourceRowHolds(d, row, ms)
  BY EmptySources
<1>3. "person" \in {"journal_entry", "person", "habit"}
  OBVIOUS
<1>. HIDE DEF data, none
<1>4. /\ TablesHold(d2, ms) /\ Grown(d, d2) /\ d2.obs = d.obs
      /\ Len(d2.ent) = Len(d.ent) + 1 /\ EntityIsType(d2, Len(d.ent) + 1, "person")
  BY <1>1, <1>2, <1>3, InsertEntityHolds
<1>. HIDE DEF d2
<1>. QED  BY <1>4 DEF d2, data, none

Entered(d, m, who, label) ==
    InsertEntityRef(InsertEntity(d, "journal_entry", Data({}, m.day), Sources(m), m.at),
                    Len(d.ent) + 1, who, label)

LEMMA EnteredHolds ==
  ASSUME NEW d, NEW ms, TablesHold(d, ms), NEW m, m.run \in {User} \cup ms, m.at \in Int,
         m.day \in Int, m.op = "capture", NEW who, EntityIsType(d, who, "person"), NEW label
  PROVE  LET d2 == Entered(d, m, who, label)
         IN  TablesHold(d2, ms) /\ Grown(d, d2) /\ d2.obs = d.obs
<1>. DEFINE data == Data({}, m.day)
            from == Sources(m)
            d1 == InsertEntity(d, "journal_entry", data, from, m.at)
            d2 == InsertEntityRef(d1, Len(d.ent) + 1, who, label)
<1>1. IsData(data)
  BY DataForms
<1>2. IsSequence(from) /\ Single(from) /\ \A row \in ToSet(from) : SourceRowHolds(d, row, ms)
  BY SourcesHold
<1>3. "journal_entry" \in {"journal_entry", "person", "habit"}
  OBVIOUS
<1>. HIDE DEF data, from
<1>4. /\ TablesHold(d1, ms) /\ Grown(d, d1) /\ d1.obs = d.obs
      /\ EntityIsType(d1, Len(d.ent) + 1, "journal_entry")
  BY <1>1, <1>2, <1>3, InsertEntityHolds
<1>. HIDE DEF d1
<1>5. EntityIsType(d1, who, "person")
  BY <1>4, GrownWider, TypesStay
<1>6. TablesHold(d2, ms) /\ Grown(d1, d2) /\ d2.obs = d1.obs
  BY <1>4, <1>5, InsertEntityRefHolds
<1>. HIDE DEF d2
<1>7. Grown(d, d2)
  BY <1>4, <1>6, GrownTwice
<1>. QED  BY <1>4, <1>6, <1>7 DEF d2, d1, data, from, Entered

LEMMA CaptureHolds ==
  ASSUME NEW d, NEW ms, TablesHold(d, ms), NEW m, m.run \in {User} \cup ms, m.at \in Int,
         m.day \in Int, m.op = "capture",
         ResolveDisposition(d, [name |-> m.name, hint |-> 0]).op # "ambiguous"
  PROVE  LET d2 == Capture(d, m) IN TablesHold(d2, ms) /\ Grown(d, d2) /\ d2.obs = d.obs
<1>. DEFINE who == ResolveDisposition(d, [name |-> m.name, hint |-> 0])
            minted == IF who.op = "create" THEN InsertEntity(d, "person", Data(m.name, 0), <<>>, m.at) ELSE d
            person == IF who.op = "create" THEN Len(minted.ent) ELSE CHOOSE e \in who.ids : TRUE
            d2 == Entered(minted, m, person, m.name)
<1>1. TablesHold(minted, ms) /\ Grown(d, minted) /\ minted.obs = d.obs /\ EntityIsType(minted, person, "person")
  <2>1. CASE who.op = "create"
    <3>1. minted = InsertEntity(d, "person", Data(m.name, 0), <<>>, m.at) /\ person = Len(minted.ent)
      BY <2>1
    <3>. HIDE DEF minted, person, who
    <3>. QED  BY <3>1, MintedHolds
  <2>2. CASE who.op # "create"
    <3>1. minted = d /\ person = CHOOSE e \in who.ids : TRUE
      BY <2>2
    <3>2. EntityIsType(d, CHOOSE e \in who.ids : TRUE, "person")
      BY <2>2, ResolvedHolds
    <3>. HIDE DEF minted, person, who
    <3>. QED  BY <3>1, <3>2, GrownNot
  <2>. QED  BY <2>1, <2>2
<1>2. Capture(d, m) = d2
  BY DEF Capture, Entered
<1>. HIDE DEF who, minted, person
<1>3. TablesHold(d2, ms) /\ Grown(minted, d2) /\ d2.obs = minted.obs
  BY <1>1, EnteredHolds
<1>. HIDE DEF d2
<1>4. Grown(d, d2)
  BY <1>1, <1>3, GrownTwice
<1>. QED  BY <1>1, <1>2, <1>3, <1>4

(***************************************************************************)
(* A write: an Entity keeps its origin, or loses it with the entry it was  *)
(* captured from.                                                          *)
(***************************************************************************)
OriginKept(d, d2, e) ==
    LET before == d.ent[e].sources
        after == d2.ent[e].sources
    IN  /\ Single(after)
        /\ \/ SameOrigin(before, after)
           \/ /\ MadeFrom(after) = {}
              /\ \A k \in MadeFrom(before) :
                    /\ before[k].source.kind = "entry" /\ before[k].source.id \in Ids(d)
                    /\ d2.ent[before[k].source.id] = Gone

Written(d, d2) ==
    /\ Ids(d) \subseteq Ids(d2)
    /\ \A e \in Ids(d) : d.ent[e] = Gone => d2.ent[e] = Gone
    /\ \A e \in Ids(d) : d.ent[e] # Gone /\ d2.ent[e] # Gone => OriginKept(d, d2, e)

LEMMA SinglesHold ==
  ASSUME NEW d, NEW ms, TablesHold(d, ms)
  PROVE  \A e \in Ids(d) : d.ent[e] # Gone => Single(d.ent[e].sources) /\ IsSequence(d.ent[e].sources)
BY DEF TablesHold, EntityHolds, CreatedFrom, MadeFrom, Single

LEMMA GrownWritten ==
  ASSUME NEW d, NEW d2, NEW ms, TablesHold(d2, ms), Grown(d, d2)
  PROVE  Written(d, d2)
BY SinglesHold DEF Grown, Written, OriginKept

LEMMA CascadedOrigin ==
  ASSUME NEW s, IsSequence(s), Single(s), NEW e
  PROVE  LET t == CascadeSources(s, e)
         IN  /\ Single(t)
             /\ \/ SameOrigin(s, t)
                \/ MadeFrom(t) = {} /\ \A k \in MadeFrom(s) : s[k].source = EntrySource(e)
<1>. DEFINE t == CascadeSources(s, e)
<1>1. /\ DOMAIN t = DOMAIN s
      /\ \A k \in DOMAIN s : \/ t[k] = s[k] /\ s[k].source # EntrySource(e)
                             \/ t[k] = NoRow /\ s[k].source = EntrySource(e)
  BY CascadeForms
<1>. HIDE DEF t
<1>2. \A k \in MadeFrom(t) : k \in MadeFrom(s) /\ t[k] = s[k] /\ s[k].source # EntrySource(e)
  BY <1>1 DEF MadeFrom, NoRow
<1>3. \A k \in MadeFrom(s) : s[k].source = EntrySource(e) \/ k \in MadeFrom(t)
  BY <1>1 DEF MadeFrom
<1>4. Single(t)
  BY <1>2 DEF Single
<1>5. CASE \A k \in MadeFrom(s) : k \in MadeFrom(t)
  BY <1>2, <1>4, <1>5 DEF SameOrigin, t
<1>6. ASSUME NEW k \in MadeFrom(s), k \notin MadeFrom(t)
      PROVE  MadeFrom(t) = {} /\ \A j \in MadeFrom(s) : s[j].source = EntrySource(e)
  BY <1>2, <1>3, <1>6 DEF Single
<1>. QED  BY <1>4, <1>5, <1>6 DEF t

LEMMA ForgottenWritten ==
  ASSUME NEW d, NEW d1, NEW d2, NEW ms, TablesHold(d1, ms), Grown(d, d1), Ids(d1) = Ids(d),
         NEW e \in Ids(d), Cascaded(d1, d2, e)
  PROVE  Written(d, d2)
<1>1. Ids(d) \subseteq Ids(d2)
  BY DEF Cascaded
<1>2. \A k \in Ids(d) : d.ent[k] = Gone => d2.ent[k] = Gone
  BY DEF Cascaded, Grown
<1>3. ASSUME NEW k \in Ids(d), d.ent[k] # Gone, d2.ent[k] # Gone
      PROVE  OriginKept(d, d2, k)
  <2>. DEFINE before == d.ent[k].sources
              mid == d1.ent[k].sources
              after == d2.ent[k].sources
  <2>1. d1.ent[k] # Gone /\ SameOrigin(before, mid)
    BY <1>3 DEF Grown
  <2>2. k # e /\ after = CascadeSources(mid, e) /\ d2.ent[e] = Gone
    BY <1>3, <2>1 DEF Cascaded
  <2>3. Single(mid) /\ IsSequence(mid)
    BY <2>1, SinglesHold
  <2>. HIDE DEF before, mid, after
  <2>4. /\ Single(after)
        /\ \/ SameOrigin(mid, after)
           \/ MadeFrom(after) = {} /\ \A j \in MadeFrom(mid) : mid[j].source = EntrySource(e)
    BY <2>2, <2>3, CascadedOrigin
  <2>5. CASE SameOrigin(mid, after)
    BY <2>1, <2>4, <2>5 DEF SameOrigin, OriginKept, before, after
  <2>6. CASE MadeFrom(after) = {} /\ \A j \in MadeFrom(mid) : mid[j].source = EntrySource(e)
    <3>1. \A j \in MadeFrom(before) : before[j].source = EntrySource(e)
      BY <2>1, <2>6 DEF SameOrigin
    <3>2. EntrySource(e).kind = "entry" /\ EntrySource(e).id = e
      BY DEF EntrySource
    <3>3. \A j \in MadeFrom(before) : /\ before[j].source.kind = "entry" /\ before[j].source.id \in Ids(d)
                                     /\ d2.ent[before[j].source.id] = Gone
      BY <2>2, <3>1, <3>2
    <3>. QED  BY <2>4, <2>6, <3>3 DEF OriginKept, before, after
  <2>. QED  BY <2>4, <2>5, <2>6
<1>. QED  BY <1>1, <1>2, <1>3 DEF Written

LEMMA CreateHolds ==
  ASSUME NEW d, NEW ms, TablesHold(d, ms), NEW m, m.run \in {User} \cup ms, m.at \in Int,
         m.op = "create", m.other = 0 \/ EntityIsType(d, m.other, "journal_entry")
  PROVE  LET d2 == InsertEntity(d, "person", Data(m.name, 0), Sources(m), m.at)
         IN  TablesHold(d2, ms) /\ Grown(d, d2) /\ d2.obs = d.obs
<1>. DEFINE data == Data(m.name, 0)
            from == Sources(m)
            d2 == InsertEntity(d, "person", data, from, m.at)
<1>1. IsData(data)
  BY DataForms
<1>2. IsSequence(from) /\ Single(from) /\ \A row \in ToSet(from) : SourceRowHolds(d, row, ms)
  BY SourcesHold
<1>3. "person" \in {"journal_entry", "person", "habit"}
  OBVIOUS
<1>. HIDE DEF data, from
<1>4. TablesHold(d2, ms) /\ Grown(d, d2) /\ d2.obs = d.obs
  BY <1>1, <1>2, <1>3, InsertEntityHolds
<1>. HIDE DEF d2
<1>. QED  BY <1>4 DEF d2, data, from

LEMMA ForgetHolds ==
  ASSUME NEW d, NEW ms, TablesHold(d, ms), NEW e \in Ids(d),
         d.ent[e].type # "habit" \/ ~EntityReferencedByObservation(d, e)
  PROVE  LET d2 == DeleteEntity(d, e)
         IN  TablesHold(d2, ms) /\ Written(d, d2) /\ Recorded(d, d2)
<1>. DEFINE d2 == DeleteEntity(d, e)
<1>1. d.ent[e].type # "habit" \/ \A o \in DOMAIN d.obs : ~Mentions(d.obs[o].facts, e)
  BY DEF EntityReferencedByObservation
<1>2. TablesHold(d2, ms) /\ Cascaded(d, d2, e) /\ Recorded(d, d2)
  BY <1>1, DeleteEntityHolds
<1>. HIDE DEF d2
<1>3. Written(d, d2)
  BY <1>2, GrownNot, ForgottenWritten
<1>. QED  BY <1>2, <1>3 DEF d2

LEMMA ForgetPersonHolds ==
  ASSUME NEW d, NEW ms, TablesHold(d, ms), NEW e, EntityIsType(d, e, "person"), NEW at \in Int
  PROVE  LET d2 == DeleteEntity(Textualize(d, e, at), e)
         IN  TablesHold(d2, ms) /\ Written(d, d2) /\ Recorded(d, d2)
<1>. DEFINE d1 == Textualize(d, e, at)
            d2 == DeleteEntity(d1, e)
<1>1. TablesHold(d1, ms) /\ Grown(d, d1) /\ Ids(d1) = Ids(d) /\ d1.obs = d.obs
  BY TextualizeHolds
<1>. HIDE DEF d1
<1>2. e \in Ids(d) /\ EntityIsType(d1, e, "person")
  BY <1>1, GrownWider, TypesStay, TypeIsThere
<1>3. e \in Ids(d1) /\ d1.ent[e].type # "habit"
  BY <1>2, TypeIsThere
<1>4. TablesHold(d2, ms) /\ Cascaded(d1, d2, e) /\ Recorded(d1, d2)
  BY <1>1, <1>3, DeleteEntityHolds
<1>. HIDE DEF d2
<1>5. Written(d, d2)
  BY <1>1, <1>2, <1>4, ForgottenWritten
<1>6. Recorded(d, d2)
  BY <1>1, <1>4 DEF Recorded
<1>. QED  BY <1>4, <1>5, <1>6 DEF d2, d1

LEMMA ApplyHolds ==
  ASSUME NEW d, TablesHold(d, DOMAIN runs), NEW m, Asked(d, DOMAIN runs, m), Commits(d, m)
  PROVE  LET d2 == ApplyEntityMutation(d, m)
         IN  TablesHold(d2, DOMAIN runs) /\ Written(d, d2) /\ Recorded(d, d2)
<1>. DEFINE d2 == ApplyEntityMutation(d, m)
            ms == DOMAIN runs
            Good == TablesHold(d2, ms) /\ Written(d, d2) /\ Recorded(d, d2)
<1>. SUFFICES Good
  OBVIOUS
<1>1. m.run \in {User} \cup ms /\ m.at \in Int /\ m.day \in Int /\ m.op \in Ops
  BY DEF Asked
<1>2. ASSUME TablesHold(d2, ms), Grown(d, d2), d2.obs = d.obs PROVE Good
  BY <1>2, GrownWritten, RecordedAlike
<1>3. CASE m.op = "create"
  <2>1. d2 = InsertEntity(d, "person", Data(m.name, 0), Sources(m), m.at)
    BY <1>3 DEF ApplyEntityMutation
  <2>2. m.other = 0 \/ EntityIsType(d, m.other, "journal_entry")
    BY <1>3 DEF Commits, TargetHolds
  <2>. HIDE DEF d2, ms
  <2>3. TablesHold(d2, ms) /\ Grown(d, d2) /\ d2.obs = d.obs
    BY <1>1, <1>3, <2>1, <2>2, CreateHolds DEF ms
  <2>. QED  BY <2>3, <1>2
<1>4. CASE m.op \in {"rename", "move"}
  <2>. DEFINE data == IF m.op = "rename" THEN Data(m.name, 0) ELSE Data({}, m.day)
  <2>1. d2 = UpdatedFrom(UpdateEntity(d, m.target, data, m.at), m)
    BY <1>4 DEF ApplyEntityMutation
  <2>2. IsData(data)
    BY <1>1, <1>4, DataForms
  <2>3. EntityIsType(d, m.target, "person") \/ EntityIsType(d, m.target, "journal_entry")
    BY <1>4 DEF Commits
  <2>4. m.target \in Ids(d) /\ d.ent[m.target] # Gone
    BY <2>3, TypeIsThere
  <2>. HIDE DEF d2, data, ms
  <2>5. TablesHold(d2, ms) /\ Grown(d, d2) /\ d2.obs = d.obs
    BY <1>1, <2>1, <2>2, <2>4, RenameHolds DEF ms
  <2>. QED  BY <2>5, <1>2
<1>5. CASE m.op = "reference"
  <2>. DEFINE label == d.ent[m.other].data.name
  <2>1. d2 = UpdatedFrom(UpdateEntity(InsertEntityRef(d, m.target, m.other, label),
                                      m.target, d.ent[m.target].data, m.at), m)
    BY <1>5 DEF ApplyEntityMutation
  <2>2. EntityIsType(d, m.target, "journal_entry") /\ EntityIsType(d, m.other, "person")
    BY <1>5 DEF Commits, TargetHolds
  <2>. HIDE DEF d2, label, ms
  <2>3. TablesHold(d2, ms) /\ Grown(d, d2) /\ d2.obs = d.obs
    BY <1>1, <2>1, <2>2, ReferenceHolds DEF ms
  <2>. QED  BY <2>3, <1>2
<1>6. CASE m.op = "forget person"
  <2>1. d2 = DeleteEntity(Textualize(d, m.target, m.at), m.target)
    BY <1>6 DEF ApplyEntityMutation
  <2>2. EntityIsType(d, m.target, "person")
    BY <1>6 DEF Commits
  <2>. HIDE DEF d2
  <2>. QED  BY <1>1, <2>1, <2>2, ForgetPersonHolds
<1>7. CASE m.op \in {"forget entry", "forget habit"}
  <2>1. d2 = DeleteEntity(d, m.target)
    BY <1>7 DEF ApplyEntityMutation
  <2>2. \/ EntityIsType(d, m.target, "journal_entry")
        \/ EntityIsType(d, m.target, "habit") /\ ~EntityReferencedByObservation(d, m.target)
    BY <1>7 DEF Commits
  <2>3. m.target \in Ids(d)
        /\ (d.ent[m.target].type # "habit" \/ ~EntityReferencedByObservation(d, m.target))
    BY <2>2, TypeIsThere
  <2>. HIDE DEF d2
  <2>. QED  BY <2>1, <2>3, ForgetHolds
<1>8. CASE m.op = "capture"
  <2>1. d2 = Capture(d, m)
    BY <1>8 DEF ApplyEntityMutation
  <2>2. ResolveDisposition(d, [name |-> m.name, hint |-> 0]).op # "ambiguous"
    BY <1>8 DEF Commits
  <2>. HIDE DEF d2, ms
  <2>3. TablesHold(d2, ms) /\ Grown(d, d2) /\ d2.obs = d.obs
    BY <1>1, <1>8, <2>1, <2>2, CaptureHolds DEF ms
  <2>. QED  BY <2>3, <1>2
<1>9. CASE m.op = "record"
  <2>. DEFINE load == m.payload[1]
  <2>1. d2 = InsertObservations(d, Inserts(m), ByProposal(m), m.at)
    BY <1>9 DEF ApplyEntityMutation
  <2>2. BatchHolds(d, ms, Inserts(m))
    BY <1>9 DEF Commits
  <2>3. IsPayload(load) /\ ValidRecord(load) /\ Inserts(m) = PrepareObservations(load)
    BY <1>9 DEF Asked, Inserts
  <2>. HIDE DEF d2, ms, load
  <2>4. TablesHold(d2, ms) /\ Grown(d, d2) /\ Recorded(d, d2)
    BY <1>1, <2>1, <2>2, <2>3, InsertObservationsHolds DEF ms
  <2>. QED  BY <2>4, GrownWritten
<1>10. CASE m.op = "correct"
  <2>. DEFINE load == m.payload[1]
              record == load.observations[1]
  <2>1. d2 = UpdateObservation(d, m.target, Update(m), m.at)
    BY <1>10 DEF ApplyEntityMutation
  <2>2. UpdateHolds(d, Update(m))
    BY <1>10 DEF Commits
  <2>3. IsPayload(load) /\ ValidRecord(load) /\ m.target \in DOMAIN d.obs
        /\ record.schema = d.obs[m.target].facts.schema
        /\ Update(m) = PrepareObservationUpdate(record.schema, record.draft)
    BY <1>10 DEF Asked, Update
  <2>4. IsDraft(record.draft) /\ ValidFields(record.schema, record.draft)
    <3>. HIDE DEF load
    <3>. QED  BY <2>3, FirstRecord
  <2>. HIDE DEF d2, ms, record
  <2>5. TablesHold(d2, ms) /\ Grown(d, d2) /\ Recorded(d, d2)
    <3>. DEFINE update == Update(m)
    <3>. HIDE DEF update
    <3>. QED  BY <1>1, <2>1, <2>2, <2>3, <2>4, UpdateObservationHolds DEF ms, update
  <2>. QED  BY <2>5, GrownWritten
<1>11. m.op \in {"rename", "move"} \/ m.op \in {"forget entry", "forget habit"}
       \/ m.op \in {"create", "reference", "forget person", "capture", "record", "correct"}
  BY <1>1 DEF Ops
<1>. HIDE DEF Good
<1>. QED  BY <1>3, <1>4, <1>5, <1>6, <1>7, <1>8, <1>9, <1>10, <1>11

(***************************************************************************)
(* Rows of an answer.                                                     *)
(***************************************************************************)
LEMMA OrderedAre ==
  ASSUME NEW f, Columns(f)
  PROVE  IsSequence(OrderBy(f)) /\ ToSet(OrderBy(f)) = DOMAIN f
<1>1. OrderBy(f) \in Seq(DOMAIN f)
  BY OrderByHolds
<1>2. IsSequence(OrderBy(f))
  BY <1>1, SequenceWithin
<1>3. \A r \in DOMAIN f : \E k \in DOMAIN OrderBy(f) : OrderBy(f)[k] = r
  BY OrderByHolds
<1>4. \A k \in DOMAIN OrderBy(f) : OrderBy(f)[k] \in DOMAIN f
  BY <1>1
<1>. QED  BY <1>2, <1>3, <1>4 DEF ToSet

LEMMA FiniteIds ==
  ASSUME NEW d, NEW ms, TablesHold(d, ms), NEW ids, ids \subseteq Ids(d)
  PROVE  IsFiniteSet(ids) /\ \A e \in ids : e \in Int
<1>1. Len(d.ent) \in Nat
  BY IdsAre
<1>2. IsFiniteSet(1 .. Len(d.ent))
  BY <1>1, FS_Interval
<1>3. ids \subseteq 1 .. Len(d.ent)
  BY DEF Ids
<1>4. IsFiniteSet(ids)
  BY <1>2, <1>3, FS_Subset
<1>. QED  BY <1>1, <1>3, <1>4

LEMMA NewestFirstHolds ==
  ASSUME NEW d, NEW ms, TablesHold(d, ms), NEW ids,
         \A e \in ids : e \in Ids(d) /\ d.ent[e] # Gone
  PROVE  IsSequence(NewestFirst(d, ids)) /\ ToSet(NewestFirst(d, ids)) = ids
<1>. DEFINE f == [e \in ids |-> <<d.ent[e].at, e, 0>>]
<1>1. IsFiniteSet(ids) /\ \A e \in ids : e \in Int
  BY FiniteIds
<1>2. \A e \in ids : d.ent[e].at \in Int
  BY DEF TablesHold, EntityHolds
<1>3. Columns(f)
  BY <1>1, <1>2 DEF Columns, Triples
<1>4. NewestFirst(d, ids) = OrderBy(f) /\ DOMAIN f = ids
  BY DEF NewestFirst
<1>. HIDE DEF f
<1>. QED  BY <1>3, <1>4, OrderedAre

LEMMA LiveAre ==
  \A d : \A type \in {"journal_entry", "person", "habit"} :
     \A e \in Live(d, type) : e \in Ids(d) /\ d.ent[e] # Gone
BY TypeIsThere DEF Live

LEMMA ListHolds ==
  ASSUME NEW d, NEW ms, TablesHold(d, ms), NEW type \in {"journal_entry", "person", "habit"}
  PROVE  IsSequence(ListByType(d, type)) /\ ToSet(ListByType(d, type)) = Live(d, type)
BY LiveAre, NewestFirstHolds DEF ListByType

IsRow(row) == row = [id |-> row.id, data |-> row.data, source |-> row.source, refs |-> row.refs]
IdsShown(rows) == {rows[k].id : k \in DOMAIN rows}

\* What a row says of where its Entity came from is so, or the Entity is gone.
Sourced(d, row) ==
    /\ IsRow(row) /\ row.id \in Ids(d)
    /\ \/ row.source = NoSource
       \/ d.ent[row.id] = Gone
       \/ \E j \in CreatedFrom(d, row.id) : d.ent[row.id].sources[j].source = row.source
       \/ row.source.kind = "entry" /\ row.source.id \in Ids(d) /\ d.ent[row.source.id] = Gone

LEMMA SourcedStays ==
  ASSUME NEW d, NEW d2, Written(d, d2), NEW row, Sourced(d, row)
  PROVE  Sourced(d2, row)
<1>1. row.id \in Ids(d) /\ row.id \in Ids(d2) /\ IsRow(row)
  BY DEF Sourced, Written
<1>2. CASE row.source = NoSource
  BY <1>1, <1>2 DEF Sourced
<1>3. CASE d.ent[row.id] = Gone
  BY <1>1, <1>3 DEF Sourced, Written
<1>4. CASE row.source.kind = "entry" /\ row.source.id \in Ids(d) /\ d.ent[row.source.id] = Gone
  BY <1>1, <1>4 DEF Sourced, Written
<1>5. ASSUME NEW j \in CreatedFrom(d, row.id), d.ent[row.id].sources[j].source = row.source,
             d.ent[row.id] # Gone, d2.ent[row.id] # Gone
      PROVE  Sourced(d2, row)
  <2>. DEFINE before == d.ent[row.id].sources
              after == d2.ent[row.id].sources
  <2>1. j \in MadeFrom(before) /\ before[j].source = row.source
    BY <1>5 DEF CreatedFrom, MadeFrom
  <2>2. \/ SameOrigin(before, after)
        \/ \A k \in MadeFrom(before) : /\ before[k].source.kind = "entry" /\ before[k].source.id \in Ids(d)
                                      /\ d2.ent[before[k].source.id] = Gone
    BY <1>1, <1>5 DEF Written, OriginKept
  <2>3. CASE SameOrigin(before, after)
    <3>1. j \in MadeFrom(after) /\ after[j].source = row.source
      BY <2>1, <2>3 DEF SameOrigin
    <3>2. j \in CreatedFrom(d2, row.id) /\ d2.ent[row.id].sources[j].source = row.source
      BY <3>1 DEF CreatedFrom, MadeFrom
    <3>. QED  BY <1>1, <3>2 DEF Sourced
  <2>4. CASE \A k \in MadeFrom(before) : /\ before[k].source.kind = "entry" /\ before[k].source.id \in Ids(d)
                                        /\ d2.ent[before[k].source.id] = Gone
    <3>1. row.source.kind = "entry" /\ row.source.id \in Ids(d) /\ d2.ent[row.source.id] = Gone
      BY <2>1, <2>4
    <3>2. row.source.id \in Ids(d2)
      BY <3>1 DEF Written
    <3>. QED  BY <1>1, <3>1, <3>2 DEF Sourced
  <2>. QED  BY <2>2, <2>3, <2>4
<1>6. CASE d2.ent[row.id] = Gone
  BY <1>1, <1>6 DEF Sourced
<1>. QED  BY <1>2, <1>3, <1>4, <1>5, <1>6 DEF Sourced

LEMMA WireForms ==
  \A d, e, data : /\ EntityRowToWire(e, data).id = e /\ EntityRowToWire(e, data).data = data
                  /\ e \in Ids(d) => Sourced(d, EntityRowToWire(e, data))
BY DEF EntityRowToWire, Sourced, IsRow

\* Rows made of a sequence of ids.
Wired(ids, load) == [k \in DOMAIN ids |-> EntityRowToWire(ids[k], load[k])]

LEMMA WiredHolds ==
  ASSUME NEW d, NEW ids, IsSequence(ids), ToSet(ids) \subseteq Ids(d), NEW load
  PROVE  /\ IsSequence(Wired(ids, load)) /\ IdsShown(Wired(ids, load)) = ToSet(ids)
         /\ DOMAIN Wired(ids, load) = DOMAIN ids
         /\ \A k \in DOMAIN ids : /\ Sourced(d, Wired(ids, load)[k])
                                  /\ Wired(ids, load)[k].id = ids[k]
                                  /\ Wired(ids, load)[k].data = load[k]
<1>. DEFINE rows == Wired(ids, load)
<1>1. Len(ids) \in Nat /\ DOMAIN ids = 1 .. Len(ids)
  BY SequenceFacts
<1>2. DOMAIN rows = DOMAIN ids /\ \A k \in DOMAIN ids : rows[k] = EntityRowToWire(ids[k], load[k])
  BY DEF Wired
<1>3. rows = [i \in 1 .. Len(ids) |-> rows[i]]
  BY <1>1 DEF Wired
<1>. HIDE DEF rows
<1>4. IsSequence(rows)
  BY <1>1, <1>3, FunctionIsSequence
<1>5. \A k \in DOMAIN ids : ids[k] \in Ids(d)
  BY DEF ToSet
<1>6. \A k \in DOMAIN ids : Sourced(d, rows[k]) /\ rows[k].id = ids[k] /\ rows[k].data = load[k]
  BY <1>2, <1>5, WireForms
<1>7. IdsShown(rows) = ToSet(ids)
  BY <1>2, <1>6 DEF IdsShown, ToSet
<1>. QED  BY <1>2, <1>4, <1>6, <1>7 DEF rows

LEMMA RowsOfHolds ==
  ASSUME NEW d, NEW ids, IsSequence(ids), ToSet(ids) \subseteq Ids(d)
  PROVE  /\ IsSequence(RowsOf(d, ids)) /\ IdsShown(RowsOf(d, ids)) = ToSet(ids)
         /\ DOMAIN RowsOf(d, ids) = DOMAIN ids
         /\ \A k \in DOMAIN ids : /\ Sourced(d, RowsOf(d, ids)[k])
                                  /\ RowsOf(d, ids)[k].id = ids[k]
                                  /\ RowsOf(d, ids)[k].data = d.ent[ids[k]].data
<1>. DEFINE load == [k \in DOMAIN ids |-> d.ent[ids[k]].data]
<1>1. RowsOf(d, ids) = Wired(ids, load)
  BY DEF RowsOf, Wired
<1>2. \A k \in DOMAIN ids : load[k] = d.ent[ids[k]].data
  OBVIOUS
<1>. HIDE DEF load
<1>3. /\ IsSequence(Wired(ids, load)) /\ IdsShown(Wired(ids, load)) = ToSet(ids)
      /\ DOMAIN Wired(ids, load) = DOMAIN ids
  BY WiredHolds
<1>4. \A k \in DOMAIN ids : /\ Sourced(d, Wired(ids, load)[k])
                            /\ Wired(ids, load)[k].id = ids[k]
                            /\ Wired(ids, load)[k].data = load[k]
  BY WiredHolds
<1>. QED  BY <1>1, <1>2, <1>3, <1>4

LEMMA PrefixForms ==
  ASSUME NEW S, NEW s \in Seq(S), NEW n \in Nat, n <= Len(s)
  PROVE  /\ SubSeq(s, 1, n) \in Seq(S) /\ Len(SubSeq(s, 1, n)) = n
         /\ \A k \in 1 .. n : SubSeq(s, 1, n)[k] = s[k]
OBVIOUS

LEMMA ShorterWithin == \A a, b \in Nat : a <= b => 1 .. a \subseteq 1 .. b
OBVIOUS

LEMMA AtMostHolds ==
  ASSUME NEW s, IsSequence(s), NEW n \in Nat
  PROVE  /\ IsSequence(AtMost(n, s))
         /\ DOMAIN AtMost(n, s) \subseteq DOMAIN s
         /\ \A k \in DOMAIN AtMost(n, s) : AtMost(n, s)[k] = s[k]
         /\ Len(AtMost(n, s)) = n \/ DOMAIN AtMost(n, s) = DOMAIN s
<1>. DEFINE S == ToSet(s)
            l == IF Len(s) < n THEN Len(s) ELSE n
            t == SubSeq(s, 1, l)
<1>1. s \in Seq(S) /\ Len(s) \in Nat /\ DOMAIN s = 1 .. Len(s)
  BY SequenceFacts DEF IsSequence
<1>2. l \in Nat /\ l <= Len(s) /\ (l = n \/ l = Len(s))
  BY <1>1
<1>. HIDE DEF S, l
<1>3. t \in Seq(S) /\ Len(t) = l /\ \A k \in 1 .. l : t[k] = s[k]
  BY <1>1, <1>2, PrefixForms
<1>4. IsSequence(t) /\ DOMAIN t = 1 .. l
  <2>. HIDE DEF t
  <2>1. IsSequence(t)
    BY <1>3, SequenceWithin
  <2>. QED  BY <2>1, <1>3, SequenceFacts
<1>5. AtMost(n, s) = t
  BY DEF AtMost, l
<1>. HIDE DEF t
<1>6. DOMAIN t \subseteq DOMAIN s /\ (Len(t) = n \/ DOMAIN t = DOMAIN s)
  <2>1. 1 .. l \subseteq 1 .. Len(s)
    BY <1>1, <1>2, ShorterWithin
  <2>2. Len(t) = n \/ 1 .. l = 1 .. Len(s)
    BY <1>2, <1>3
  <2>. QED  BY <2>1, <2>2, <1>1, <1>4, Zenon
<1>7. \A k \in DOMAIN t : t[k] = s[k]
  BY <1>3, <1>4
<1>. QED  BY <1>4, <1>5, <1>6, <1>7

Matching(rows, word) == {k \in DOMAIN rows : Matches(rows[k].data, word)}

LEMMA MatchingRowsHold ==
  ASSUME NEW r, IsSequence(r.rows)
  PROVE  /\ IsSequence(MatchingRows(r))
         /\ \A k \in DOMAIN MatchingRows(r) :
               \E j \in Matching(r.rows, r.arg.word) : MatchingRows(r)[k] = r.rows[j]
         /\ \A j \in Matching(r.rows, r.arg.word) :
               \E k \in DOMAIN MatchingRows(r) : MatchingRows(r)[k] = r.rows[j]
<1>. DEFINE matching == Matching(r.rows, r.arg.word)
            f == [k \in matching |-> <<-k, 0, 0>>]
            order == OrderBy(f)
            rows == [k \in DOMAIN order |-> r.rows[order[k]]]
<1>1. Len(r.rows) \in Nat /\ DOMAIN r.rows = 1 .. Len(r.rows)
  BY SequenceFacts
<1>2. matching \subseteq 1 .. Len(r.rows)
  BY <1>1 DEF Matching
<1>3. IsFiniteSet(matching)
  <2>1. IsFiniteSet(1 .. Len(r.rows))
    BY <1>1, FS_Interval
  <2>. HIDE DEF matching
  <2>. QED  BY <1>2, <2>1, FS_Subset
<1>4. Columns(f) /\ DOMAIN f = matching
  <2>1. \A k \in matching : k \in Int
    <3>. HIDE DEF matching
    <3>. QED  BY <1>1, <1>2
  <2>. HIDE DEF matching
  <2>. QED  BY <1>3, <2>1 DEF Columns, Triples
<1>5. IsSequence(order) /\ ToSet(order) = matching
  <2>. HIDE DEF f, matching
  <2>. QED  BY <1>4, OrderedAre
<1>6. MatchingRows(r) = rows
  BY DEF MatchingRows, Matching
<1>. HIDE DEF order, matching
<1>7. Len(order) \in Nat /\ DOMAIN order = 1 .. Len(order)
  BY <1>5, SequenceFacts
<1>8. DOMAIN rows = DOMAIN order /\ \A k \in DOMAIN order : rows[k] = r.rows[order[k]]
  OBVIOUS
<1>9. rows = [i \in 1 .. Len(order) |-> rows[i]]
  BY <1>7
<1>. HIDE DEF rows
<1>10. IsSequence(rows)
  BY <1>7, <1>9, FunctionIsSequence
<1>11. \A k \in DOMAIN rows : \E j \in matching : rows[k] = r.rows[j]
  BY <1>5, <1>8 DEF ToSet
<1>12. \A j \in matching : \E k \in DOMAIN rows : rows[k] = r.rows[j]
  BY <1>5, <1>8 DEF ToSet
<1>. QED  BY <1>6, <1>10, <1>11, <1>12 DEF matching

(***************************************************************************)
(* The read under way.                                                     *)
(***************************************************************************)
ReadForm(r) ==
    r = [kind |-> r.kind, arg |-> r.arg, todo |-> r.todo, rows |-> r.rows,
         first |-> r.first, kept |-> r.kept, clean |-> r.clean, got |-> r.got]

TodoHolds(r) ==
    \/ r.todo = <<>>
    \/ r.kind = "list" /\ r.todo \in {<<"provenance", "refs">>, <<"refs">>, <<"provenance">>}
    \/ r.kind = "search" /\ r.todo = <<"provenance">>
    \/ /\ r.kind = "backlinks"
       /\ r.todo \in {<<"entries", "refs", "provenance">>, <<"refs", "provenance">>, <<"provenance">>}
    \/ r.kind = "thread" /\ r.todo = <<"refs">>
    \/ r.kind = "plan" /\ r.todo = <<"label">>
    \/ r.kind = "review" /\ r.todo = <<"data">>
    \/ r.kind = "rescan" /\ r.todo = <<"start">>

\* The rows a read has against those that qualified when it began, and since.
Qualified(d, r) ==
    /\ r.kept \subseteq r.first
    /\ r.kind \in {"list", "thread"} => IdsShown(r.rows) = r.first
    /\ r.kind = "search" /\ r.todo # <<>> =>
          r.first = {r.rows[k].id : k \in Matching(r.rows, r.arg.word)}
    /\ r.kind = "search" /\ r.todo = <<>> =>
          /\ IdsShown(r.rows) \subseteq r.first
          /\ r.first \subseteq IdsShown(r.rows) \/ Len(r.rows) = SearchLimit
    /\ r.kind = "backlinks" => r.kept \subseteq Live(d, "journal_entry")
    /\ r.kind = "backlinks" /\ r.todo # <<"entries", "refs", "provenance">> =>
          r.kept \subseteq IdsShown(r.rows) /\ IdsShown(r.rows) \subseteq r.first

\* A plan nobody wrote after is what deciding would do.
Planned(d, r) ==
    r.kind = "plan" /\ r.clean =>
        /\ r.todo = <<>> => r.got[1] = ResolveDisposition(d, r.arg)
        /\ r.todo # <<>> => ~EntityIsType(d, r.arg.hint, "person")

Rescanned(r) == r.kind = "rescan" /\ r.todo # <<>> => r.got[1] \in ToSet(FirstRuns)

ReadHolds(d, r) ==
    /\ ReadForm(r) /\ TodoHolds(r)
    /\ IsSequence(r.rows) /\ \A k \in DOMAIN r.rows : Sourced(d, r.rows[k])
    /\ Qualified(d, r) /\ Planned(d, r) /\ Rescanned(r)

\* Another's write: the rows shown are as true as they were.
LEMMA ReadWritten ==
  ASSUME NEW d, NEW d2, Written(d, d2) \/ d2 = d, NEW r, ReadHolds(d, r), NEW left,
         NEW r2, ReadForm(r2), r2.kind = r.kind, r2.arg = r.arg, r2.todo = r.todo, r2.rows = r.rows,
         r2.first = r.first, r2.got = r.got, r2.kept = r.kept \cap left,
         r.kind = "backlinks" => left \subseteq Live(d2, "journal_entry"),
         r2.clean => r.clean /\ d2 = d
  PROVE  ReadHolds(d2, r2)
<1>1. \A k \in DOMAIN r2.rows : Sourced(d2, r2.rows[k])
  BY SourcedStays DEF ReadHolds
<1>2. Qualified(d2, r2)
  BY DEF ReadHolds, Qualified
<1>3. Planned(d2, r2)
  BY DEF ReadHolds, Planned
<1>. QED  BY <1>1, <1>2, <1>3 DEF ReadHolds, TodoHolds, Rescanned

LEMMA NextTodo ==
  ASSUME NEW r, TodoHolds(r), r.todo # <<>>, NEW r2, r2.kind = r.kind, r2.todo = Tail(r.todo)
  PROVE  /\ TodoHolds(r2) /\ (Len(r.todo) = 1 <=> r2.todo = <<>>)
         /\ r2.todo # <<"entries", "refs", "provenance">>
         /\ r.kind = "search" => Len(r.todo) = 1
<1>1. \A a : Tail(<<a>>) = <<>> /\ Len(<<a>>) = 1
  OBVIOUS
<1>2. \A a, b : Tail(<<a, b>>) = <<b>> /\ Len(<<a, b>>) = 2 /\ <<b>> # <<>>
  OBVIOUS
<1>3. \A a, b, c : Tail(<<a, b, c>>) = <<b, c>> /\ Len(<<a, b, c>>) = 3 /\ <<b, c>> # <<>>
  OBVIOUS
<1>4. \A a, b, c : <<a, b, c>> # <<>> /\ <<b, c>> # <<a, b, c>> /\ <<c>> # <<a, b, c>>
  OBVIOUS
<1>5. CASE r.todo \in {<<"provenance">>, <<"refs">>, <<"label">>, <<"data">>, <<"start">>}
  <2>1. r2.todo = <<>> /\ Len(r.todo) = 1
    BY <1>1, <1>5
  <2>. QED  BY <1>4, <2>1 DEF TodoHolds
<1>6. CASE r.todo = <<"provenance", "refs">> /\ r.kind = "list"
  <2>1. r2.todo = <<"refs">> /\ Len(r.todo) = 2 /\ r2.todo # <<>>
    BY <1>2, <1>6
  <2>. QED  BY <1>4, <1>6, <2>1 DEF TodoHolds
<1>7. CASE r.todo = <<"refs", "provenance">> /\ r.kind = "backlinks"
  <2>1. r2.todo = <<"provenance">> /\ Len(r.todo) = 2 /\ r2.todo # <<>>
    BY <1>2, <1>7
  <2>. QED  BY <1>4, <1>7, <2>1 DEF TodoHolds
<1>8. CASE r.todo = <<"entries", "refs", "provenance">> /\ r.kind = "backlinks"
  <2>1. r2.todo = <<"refs", "provenance">> /\ Len(r.todo) = 3 /\ r2.todo # <<>>
    BY <1>3, <1>8
  <2>. QED  BY <1>4, <1>8, <2>1 DEF TodoHolds
<1>. QED  BY <1>5, <1>6, <1>7, <1>8 DEF TodoHolds

Continued(r, rows, got) ==
    [r EXCEPT !.todo = Tail(@), !.got = got,
              !.rows = IF Len(r.todo) = 1 THEN Finished([r EXCEPT !.rows = rows]) ELSE rows]

Fields == {"kind", "arg", "todo", "rows", "first", "kept", "clean", "got"}

LEMMA FormFields == \A r : ReadForm(r) <=> r = [f \in Fields |-> r[f]]
<1>1. \A r : ReadForm(r) => r = [f \in Fields |-> r[f]]
  BY DEF ReadForm, Fields
<1>2. \A r : r = [f \in Fields |-> r[f]] => ReadForm(r)
  BY DEF ReadForm, Fields
<1>. QED  BY <1>1, <1>2

With(r, field, x) == [r EXCEPT ![field] = x]

LEMMA FieldForms ==
  ASSUME NEW r, ReadForm(r), NEW x, NEW field \in Fields
  PROVE  /\ ReadForm(With(r, field, x)) /\ With(r, field, x)[field] = x
         /\ \A other \in Fields : other # field => With(r, field, x)[other] = r[other]
<1>1. r = [f \in Fields |-> r[f]] /\ DOMAIN r = Fields
  BY FormFields
<1>. QED  BY <1>1, FormFields DEF With

LEMMA FieldsOf ==
  \A r : /\ r.kind = r["kind"] /\ r.arg = r["arg"] /\ r.todo = r["todo"] /\ r.rows = r["rows"]
         /\ r.first = r["first"] /\ r.kept = r["kept"] /\ r.clean = r["clean"] /\ r.got = r["got"]
OBVIOUS

LEMMA WithForms ==
  ASSUME NEW r, ReadForm(r), NEW x
  PROVE  /\ \A field \in Fields : ReadForm(With(r, field, x))
         /\ With(r, "todo", x).todo = x /\ With(r, "got", x).got = x /\ With(r, "rows", x).rows = x
         /\ With(r, "kept", x).kept = x /\ With(r, "clean", x).clean = x
         /\ \A field \in Fields \ {"kind"} : With(r, field, x).kind = r.kind
         /\ \A field \in Fields \ {"arg"} : With(r, field, x).arg = r.arg
         /\ \A field \in Fields \ {"todo"} : With(r, field, x).todo = r.todo
         /\ \A field \in Fields \ {"rows"} : With(r, field, x).rows = r.rows
         /\ \A field \in Fields \ {"first"} : With(r, field, x).first = r.first
         /\ \A field \in Fields \ {"kept"} : With(r, field, x).kept = r.kept
         /\ \A field \in Fields \ {"clean"} : With(r, field, x).clean = r.clean
         /\ \A field \in Fields \ {"got"} : With(r, field, x).got = r.got
BY FieldForms DEF Fields

Ending(r, rows) == IF Len(r.todo) = 1 THEN Finished([r EXCEPT !.rows = rows]) ELSE rows

LEMMA ContinuedForms ==
  ASSUME NEW r, ReadForm(r), NEW rows, NEW got
  PROVE  /\ ReadForm(Continued(r, rows, got))
         /\ Continued(r, rows, got).kind = r.kind /\ Continued(r, rows, got).arg = r.arg
         /\ Continued(r, rows, got).first = r.first /\ Continued(r, rows, got).kept = r.kept
         /\ Continued(r, rows, got).clean = r.clean
         /\ Continued(r, rows, got).todo = Tail(r.todo) /\ Continued(r, rows, got).got = got
         /\ Continued(r, rows, got).rows = Ending(r, rows)
<1>. DEFINE last == Ending(r, rows)
            r2 == Continued(r, rows, got)
<1>. DEFINE a == With(r, "todo", Tail(r.todo))
            b == With(a, "got", got)
            c == With(b, "rows", last)
<1>1. r2 = c
  <2>. HIDE DEF last
  <2>. QED  BY DEF Continued, With, last, Ending
<1>. HIDE DEF last
<1>2. /\ ReadForm(a) /\ a.kind = r.kind /\ a.arg = r.arg /\ a.first = r.first /\ a.kept = r.kept
      /\ a.clean = r.clean /\ a.todo = Tail(r.todo)
  BY WithForms DEF Fields
<1>. HIDE DEF a
<1>3. /\ ReadForm(b) /\ b.kind = a.kind /\ b.arg = a.arg /\ b.first = a.first /\ b.kept = a.kept
      /\ b.clean = a.clean /\ b.todo = a.todo /\ b.got = got
  BY <1>2, WithForms DEF Fields
<1>. HIDE DEF b
<1>4. /\ ReadForm(c) /\ c.kind = b.kind /\ c.arg = b.arg /\ c.first = b.first /\ c.kept = b.kept
      /\ c.clean = b.clean /\ c.todo = b.todo /\ c.got = b.got /\ c.rows = last
  BY <1>3, WithForms DEF Fields
<1>. HIDE DEF r2, c
<1>. QED  BY <1>1, <1>2, <1>3, <1>4 DEF r2, last

LEMMA SameButRows ==
  ASSUME NEW r, ReadForm(r), NEW rows
  PROVE  [r EXCEPT !.rows = rows].kind = r.kind /\ [r EXCEPT !.rows = rows].arg = r.arg
         /\ [r EXCEPT !.rows = rows].rows = rows
<1>1. [r EXCEPT !.rows = rows] = With(r, "rows", rows)
  BY DEF With
<1>. QED  BY <1>1, WithForms DEF Fields

LEMMA FinishedElse ==
  ASSUME NEW r, ReadForm(r), r.kind # "search", NEW rows, NEW got
  PROVE  Continued(r, rows, got).rows = rows
<1>1. Finished([r EXCEPT !.rows = rows]) = rows
  BY SameButRows DEF Finished
<1>. QED  BY <1>1, ContinuedForms DEF Ending

Searched(rows, word, last) ==
    /\ IsSequence(last)
    /\ \A k \in DOMAIN last : \E j \in Matching(rows, word) : last[k] = rows[j]
    /\ \/ Len(last) = SearchLimit
       \/ \A j \in Matching(rows, word) : \E k \in DOMAIN last : last[k] = rows[j]

\* A search ends with the rows that match, as many as the limit allows.
LEMMA FinishedSearch ==
  ASSUME NEW r, ReadForm(r), r.kind = "search", Len(r.todo) = 1, NEW rows, IsSequence(rows), NEW got
  PROVE  Searched(rows, r.arg.word, Continued(r, rows, got).rows)
<1>. DEFINE whole == [r EXCEPT !.rows = rows]
            all == MatchingRows(whole)
            last == AtMost(SearchLimit, all)
<1>1. whole.kind = "search" /\ whole.arg = r.arg /\ whole.rows = rows
  BY SameButRows
<1>. HIDE DEF whole
<1>2. /\ IsSequence(all)
      /\ \A k \in DOMAIN all : \E j \in Matching(rows, r.arg.word) : all[k] = rows[j]
      /\ \A j \in Matching(rows, r.arg.word) : \E k \in DOMAIN all : all[k] = rows[j]
  BY <1>1, MatchingRowsHold
<1>3. Continued(r, rows, got).rows = last
  <2>1. Continued(r, rows, got).rows = Finished(whole)
    BY ContinuedForms DEF whole, Ending
  <2>. QED  BY <1>1, <2>1 DEF Finished
<1>. HIDE DEF all
<1>4. SearchLimit \in Nat
  BY LibraryAssumption
<1>5. /\ IsSequence(last) /\ DOMAIN last \subseteq DOMAIN all
      /\ \A k \in DOMAIN last : last[k] = all[k]
      /\ Len(last) = SearchLimit \/ DOMAIN last = DOMAIN all
  BY <1>2, <1>4, AtMostHolds
<1>. HIDE DEF last
<1>6. \A k \in DOMAIN last : \E j \in Matching(rows, r.arg.word) : last[k] = rows[j]
  BY <1>2, <1>5
<1>7. \/ Len(last) = SearchLimit
      \/ \A j \in Matching(rows, r.arg.word) : \E k \in DOMAIN last : last[k] = rows[j]
  BY <1>2, <1>5
<1>. QED  BY <1>3, <1>5, <1>6, <1>7 DEF Searched

\* A statement that adds to the rows, and takes none.
LEMMA AttachHolds ==
  ASSUME NEW d, NEW r, ReadHolds(d, r), r.todo # <<>>,
         r.todo # <<"entries", "refs", "provenance">>, r.kind \notin {"plan", "rescan"},
         NEW rows, IsSequence(rows), DOMAIN rows = DOMAIN r.rows,
         \A k \in DOMAIN rows : /\ rows[k].id = r.rows[k].id /\ rows[k].data = r.rows[k].data
                                /\ Sourced(d, rows[k])
  PROVE  ReadHolds(d, Continued(r, rows, <<>>))
<1>. DEFINE none == <<>>
            r2 == Continued(r, rows, none)
<1>0. ReadForm(r) /\ TodoHolds(r)
  BY DEF ReadHolds
<1>. HIDE DEF none
<1>1. /\ ReadForm(r2) /\ r2.kind = r.kind /\ r2.arg = r.arg /\ r2.first = r.first
      /\ r2.kept = r.kept /\ r2.clean = r.clean /\ r2.todo = Tail(r.todo)
  BY <1>0, ContinuedForms
<1>2. r.kind # "search" => r2.rows = rows
  BY <1>0, FinishedElse
<1>3. r.kind = "search" /\ Len(r.todo) = 1 => Searched(rows, r.arg.word, r2.rows)
  BY <1>0, FinishedSearch
<1>. HIDE DEF r2
<1>4. /\ TodoHolds(r2) /\ (Len(r.todo) = 1 <=> r2.todo = <<>>)
      /\ r2.todo # <<"entries", "refs", "provenance">>
      /\ r.kind = "search" => Len(r.todo) = 1
  BY <1>0, <1>1, NextTodo
<1>5. IdsShown(rows) = IdsShown(r.rows)
  BY DEF IdsShown
<1>6. Matching(rows, r.arg.word) = Matching(r.rows, r.arg.word)
  BY DEF Matching, Matches
<1>7. IsSequence(r2.rows) /\ \A k \in DOMAIN r2.rows : Sourced(d, r2.rows[k])
  BY <1>2, <1>3, <1>4 DEF Matching, Searched
<1>8. Qualified(d, r2)
  <2>1. CASE r.kind # "search"
    BY <1>1, <1>2, <1>4, <1>5, <2>1 DEF ReadHolds, Qualified
  <2>2. CASE r.kind = "search"
    <3>1. r.first = {r.rows[k].id : k \in Matching(r.rows, r.arg.word)} /\ r2.todo = <<>>
      BY <1>4, <2>2 DEF ReadHolds, Qualified
    <3>2. r.first = {rows[k].id : k \in Matching(rows, r.arg.word)}
      BY <1>6, <3>1 DEF Matching
    <3>3. IdsShown(r2.rows) \subseteq r.first
      BY <1>3, <1>4, <2>2, <3>2 DEF IdsShown, Searched
    <3>4. r.first \subseteq IdsShown(r2.rows) \/ Len(r2.rows) = SearchLimit
      BY <1>3, <1>4, <2>2, <3>2 DEF IdsShown, Searched
    <3>. QED  BY <1>1, <2>2, <3>1, <3>3, <3>4 DEF ReadHolds, Qualified
  <2>. QED  BY <2>1, <2>2
<1>9. Planned(d, r2) /\ Rescanned(r2)
  BY <1>1 DEF Planned, Rescanned
<1>10. ReadHolds(d, r2)
  BY <1>1, <1>4, <1>7, <1>8, <1>9 DEF ReadHolds
<1>. QED  BY <1>10 DEF r2, none

LEMMA FirstOf ==
  ASSUME NEW f, Columns(f), NEW x \in DOMAIN f
  PROVE  OrderBy(f)[1] \in DOMAIN f
<1>1. IsSequence(OrderBy(f)) /\ ToSet(OrderBy(f)) = DOMAIN f
  BY OrderedAre
<1>2. OrderBy(f) # <<>>
  BY <1>1 DEF ToSet
<1>3. 1 \in DOMAIN OrderBy(f)
  BY <1>1, <1>2, SequenceFacts
<1>. QED  BY <1>1, <1>3 DEF ToSet

LEMMA FinitePart ==
  ASSUME NEW s, IsSequence(s), NEW part, part \subseteq DOMAIN s
  PROVE  IsFiniteSet(part) /\ \A k \in part : k \in Int
<1>1. Len(s) \in Nat /\ DOMAIN s = 1 .. Len(s)
  BY SequenceFacts
<1>2. IsFiniteSet(1 .. Len(s))
  BY <1>1, FS_Interval
<1>3. IsFiniteSet(part)
  BY <1>1, <1>2, FS_Subset
<1>. QED  BY <1>1, <1>3

LEMMA ProvenanceHolds ==
  ASSUME NEW d, NEW ms, TablesHold(d, ms), NEW e \in Ids(d)
  PROVE  \/ ProvenanceForEntities(d, e) = NoSource
         \/ \E j \in CreatedFrom(d, e) : d.ent[e].sources[j].source = ProvenanceForEntities(d, e)
<1>. DEFINE part == CreatedFrom(d, e)
            rows == d.ent[e].sources
            f == [k \in part |-> <<-rows[k].at, -k, 0>>]
<1>1. CASE d.ent[e] = Gone \/ part = {}
  BY <1>1 DEF ProvenanceForEntities
<1>2. CASE ~(d.ent[e] = Gone \/ part = {})
  <2>1. EntityHolds(d, d.ent[e], ms)
    BY <1>2 DEF TablesHold
  <2>2. IsSequence(rows) /\ \A row \in ToSet(rows) : SourceRowHolds(d, row, ms)
    BY <2>1 DEF EntityHolds
  <2>3. part \subseteq DOMAIN rows
    BY DEF CreatedFrom
  <2>4. IsFiniteSet(part) /\ \A k \in part : k \in Int
    <3>. HIDE DEF part, rows
    <3>. QED  BY <2>2, <2>3, FinitePart
  <2>5. \A k \in part : rows[k].at \in Int
    BY <2>2 DEF CreatedFrom, SourceRowHolds, ToSet, NoRow
  <2>6. Columns(f) /\ DOMAIN f = part
    <3>. HIDE DEF part, rows
    <3>. QED  BY <2>4, <2>5 DEF Columns, Triples
  <2>7. ProvenanceForEntities(d, e) = rows[OrderBy(f)[1]].source
    BY <1>2 DEF ProvenanceForEntities
  <2>. HIDE DEF f
  <2>8. OrderBy(f)[1] \in part
    BY <1>2, <2>6, FirstOf
  <2>. QED  BY <2>7, <2>8
<1>. QED  BY <1>1, <1>2

LEMMA LatestSeqHolds ==
  ASSUME NEW d, NEW ms, TablesHold(d, ms), NEW e \in Ids(d), d.ent[e] # Gone
  PROVE  LatestSeq(d, e) \in Int /\ d.ent[e].revs[LatestSeq(d, e)].at \in Int
<1>. DEFINE revs == d.ent[e].revs
            f == [seq \in DOMAIN revs |-> <<revs[seq].at, seq, 0>>]
<1>1. IsSequence(revs) /\ revs # <<>> /\ \A rev \in ToSet(revs) : rev.at \in Int
  BY DEF TablesHold, EntityHolds
<1>2. LatestSeq(d, e) = OrderBy(f)[1]
  BY DEF LatestSeq
<1>. HIDE DEF revs
<1>3. IsFiniteSet(DOMAIN revs) /\ \A k \in DOMAIN revs : k \in Int
  BY <1>1, FinitePart
<1>4. \A seq \in DOMAIN revs : revs[seq].at \in Int
  BY <1>1 DEF ToSet
<1>5. Columns(f) /\ DOMAIN f = DOMAIN revs
  BY <1>3, <1>4 DEF Columns, Triples
<1>6. 1 \in DOMAIN revs
  BY <1>1, SequenceFacts
<1>. HIDE DEF f
<1>7. OrderBy(f)[1] \in DOMAIN revs
  BY <1>5, <1>6, FirstOf
<1>. QED  BY <1>2, <1>3, <1>4, <1>7 DEF revs

LEMMA LatestRevisedHolds ==
  ASSUME NEW d, NEW ms, TablesHold(d, ms), NEW ids,
         \A e \in ids : e \in Ids(d) /\ d.ent[e] # Gone
  PROVE  IsSequence(LatestRevisedFirst(d, ids)) /\ ToSet(LatestRevisedFirst(d, ids)) = ids
<1>. DEFINE f == [e \in ids |-> <<d.ent[e].revs[LatestSeq(d, e)].at, LatestSeq(d, e), e>>]
<1>1. IsFiniteSet(ids) /\ \A e \in ids : e \in Int
  BY FiniteIds
<1>2. \A e \in ids : LatestSeq(d, e) \in Int /\ d.ent[e].revs[LatestSeq(d, e)].at \in Int
  BY LatestSeqHolds
<1>3. Columns(f)
  BY <1>1, <1>2 DEF Columns, Triples
<1>4. LatestRevisedFirst(d, ids) = OrderBy(f) /\ DOMAIN f = ids
  BY DEF LatestRevisedFirst
<1>. HIDE DEF f
<1>. QED  BY <1>3, <1>4, OrderedAre

LEMMA MentionedHolds ==
  ASSUME NEW d, NEW ms, TablesHold(d, ms), NEW ids,
         \A e \in ids : e \in Ids(d) /\ d.ent[e] # Gone
  PROVE  LET order == OrderBy([e \in ids |-> <<d.ent[e].data.day, -e, 0>>])
         IN  IsSequence(order) /\ ToSet(order) = ids
<1>. DEFINE f == [e \in ids |-> <<d.ent[e].data.day, -e, 0>>]
<1>1. IsFiniteSet(ids) /\ \A e \in ids : e \in Int
  BY FiniteIds
<1>2. \A e \in ids : d.ent[e].data.day \in Int
  BY DEF TablesHold, EntityHolds
<1>3. Columns(f)
  BY <1>1, <1>2 DEF Columns, Triples
<1>4. DOMAIN f = ids
  OBVIOUS
<1>. HIDE DEF f
<1>5. IsSequence(OrderBy(f)) /\ ToSet(OrderBy(f)) = ids
  BY <1>3, <1>4, OrderedAre
<1>. QED  BY <1>5 DEF f

(***************************************************************************)
(* What holds in every state.                                              *)
(***************************************************************************)
LibraryInv ==
    /\ TablesHold(lib, DOMAIN runs)
    /\ IsSequence(runs) /\ \A k \in DOMAIN runs : runs[k] \in ToSet(FirstRuns)
    /\ call = [w \in Writers |-> call[w]]
    /\ \A w \in Writers : call[w] = NoRequest \/ Asked(lib, DOMAIN runs, call[w])
    /\ clock \in 0 .. MaxTime /\ writes \in 0 .. MaxWrites
    /\ ReadHolds(lib, read)

LEMMA EmptyRows == \A d : IsSequence(<<>>) /\ (\A k \in DOMAIN <<>> : Sourced(d, <<>>[k])) /\ IdsShown(<<>>) = {}
BY DEF IsSequence, ToSet, IdsShown

LEMMA NoReadHolds == \A d : ReadHolds(d, NoRead)
<1>. TAKE d
<1>1. /\ NoRead.kind = "none" /\ NoRead.todo = <<>> /\ NoRead.rows = <<>> /\ NoRead.kept = {}
      /\ ReadForm(NoRead)
  BY DEF NoRead, ReadForm
<1>2. TodoHolds(NoRead)
  BY <1>1 DEF TodoHolds
<1>3. Qualified(d, NoRead)
  BY <1>1 DEF Qualified
<1>4. Planned(d, NoRead) /\ Rescanned(NoRead)
  BY <1>1 DEF Planned, Rescanned
<1>. QED  BY <1>1, <1>2, <1>3, <1>4, EmptyRows DEF ReadHolds

LEMMA LibraryStarts == InitLibrary => LibraryInv
<1>. SUFFICES ASSUME InitLibrary PROVE LibraryInv
  OBVIOUS
<1>1. TablesHold(lib, DOMAIN runs) /\ IsSequence(runs) /\ \A k \in DOMAIN runs : runs[k] \in ToSet(FirstRuns)
  BY LibraryAssumption DEF InitLibrary, ToSet
<1>2. call = [w \in Writers |-> call[w]] /\ \A w \in Writers : call[w] = NoRequest
  BY DEF InitLibrary
<1>3. clock \in 0 .. MaxTime /\ writes \in 0 .. MaxWrites
  BY LibraryAssumption DEF InitLibrary
<1>4. ReadHolds(lib, read)
  BY NoReadHolds DEF InitLibrary
<1>. QED  BY <1>1, <1>2, <1>3, <1>4 DEF LibraryInv

(***************************************************************************)
(* Reads that begin.                                                       *)
(***************************************************************************)
Untouched == UNCHANGED <<lib, runs, call, clock, writes>>

LEMMA BegunForms ==
  ASSUME NEW kind, NEW arg, NEW todo, NEW rows, NEW got, Begin(kind, arg, todo, rows, got)
  PROVE  /\ ReadForm(read') /\ read'.kind = kind /\ read'.arg = arg /\ read'.todo = todo
         /\ read'.rows = rows /\ read'.first = Subject(lib, kind, arg)
         /\ read'.kept = Subject(lib, kind, arg) /\ read'.got = got /\ Untouched
BY DEF Begin, ReadForm, Untouched

LEMMA UntouchedInv ==
  ASSUME LibraryInv, Untouched, ReadHolds(lib, read')
  PROVE  LibraryInv'
BY DEF LibraryInv, Untouched

LEMMA ListStep ==
  ASSUME LibraryInv, HandleList
  PROVE  LibraryInv'
<1>1. PICK type \in {"journal_entry", "person"} :
         Begin("list", [type |-> type],
               IF type = "journal_entry" THEN <<"provenance", "refs">> ELSE <<"provenance">>,
               RowsOf(lib, ListByType(lib, type)), <<>>)
  BY DEF HandleList
<1>. DEFINE arg == [type |-> type]
            todo == IF type = "journal_entry" THEN <<"provenance", "refs">> ELSE <<"provenance">>
            rows == RowsOf(lib, ListByType(lib, type))
            live == Live(lib, type)
<1>2. Subject(lib, "list", arg) = live
  BY DEF Subject
<1>3. /\ IsSequence(rows) /\ IdsShown(rows) = live
      /\ \A k \in DOMAIN rows : Sourced(lib, rows[k])
  <2>. DEFINE ids == ListByType(lib, type)
  <2>1. IsSequence(ids) /\ ToSet(ids) = live
    BY ListHolds DEF LibraryInv
  <2>2. ToSet(ids) \subseteq Ids(lib)
    BY <2>1, LiveAre
  <2>. HIDE DEF ids, live
  <2>3. IsSequence(RowsOf(lib, ids)) /\ IdsShown(RowsOf(lib, ids)) = ToSet(ids)
        /\ DOMAIN RowsOf(lib, ids) = DOMAIN ids
    BY <2>1, <2>2, RowsOfHolds
  <2>4. \A k \in DOMAIN ids : Sourced(lib, RowsOf(lib, ids)[k])
    BY <2>1, <2>2, RowsOfHolds
  <2>. QED  BY <2>1, <2>3, <2>4 DEF ids
<1>4. todo \in {<<"provenance", "refs">>, <<"provenance">>} /\ Begin("list", arg, todo, rows, <<>>)
  BY <1>1
<1>. HIDE DEF arg, todo, rows, live
<1>5. /\ ReadForm(read') /\ read'.kind = "list" /\ read'.todo = todo /\ read'.rows = rows
      /\ read'.first = live /\ read'.kept = live /\ Untouched
  BY <1>2, <1>4, BegunForms
<1>6. TodoHolds(read')
  BY <1>4, <1>5 DEF TodoHolds
<1>7. Qualified(lib, read')
  BY <1>3, <1>5 DEF Qualified
<1>8. Planned(lib, read') /\ Rescanned(read')
  BY <1>5 DEF Planned, Rescanned
<1>. QED  BY <1>3, <1>5, <1>6, <1>7, <1>8, UntouchedInv DEF ReadHolds

LEMMA SearchStep ==
  ASSUME LibraryInv, SearchEntities
  PROVE  LibraryInv'
<1>1. PICK word : Begin("search", [word |-> word], <<"provenance">>,
                        RowsOf(lib, ListByType(lib, "person")), <<>>)
  BY DEF SearchEntities
<1>. DEFINE arg == [word |-> word]
            ids == ListByType(lib, "person")
            rows == RowsOf(lib, ids)
            found == {e \in Live(lib, "person") : Matches(lib.ent[e].data, word)}
<1>2. Subject(lib, "search", arg) = found /\ arg.word = word
  BY DEF Subject
<1>3. IsSequence(ids) /\ ToSet(ids) = Live(lib, "person")
  BY ListHolds DEF LibraryInv
<1>4. ToSet(ids) \subseteq Ids(lib)
  BY <1>3, LiveAre
<1>5. Begin("search", arg, <<"provenance">>, rows, <<>>)
  BY <1>1
<1>. HIDE DEF ids
<1>6. IsSequence(rows) /\ DOMAIN rows = DOMAIN ids
  BY <1>3, <1>4, RowsOfHolds
<1>7. \A k \in DOMAIN ids : Sourced(lib, rows[k]) /\ rows[k].id = ids[k]
                            /\ rows[k].data = lib.ent[ids[k]].data
  BY <1>3, <1>4, RowsOfHolds
<1>. HIDE DEF arg, rows
<1>8. found = {rows[k].id : k \in Matching(rows, word)}
  <2>1. \A k \in Matching(rows, word) : rows[k].id \in found
    BY <1>3, <1>6, <1>7 DEF Matching, ToSet
  <2>2. ASSUME NEW e \in found PROVE \E k \in Matching(rows, word) : rows[k].id = e
    <3>1. PICK k \in DOMAIN ids : ids[k] = e
      BY <1>3 DEF ToSet
    <3>2. k \in Matching(rows, word) /\ rows[k].id = e
      BY <3>1, <1>6, <1>7 DEF Matching
    <3>. QED  BY <3>2
  <2>. HIDE DEF found
  <2>. QED  BY <2>1, <2>2
<1>. HIDE DEF found
<1>9. /\ ReadForm(read') /\ read'.kind = "search" /\ read'.todo = <<"provenance">> /\ read'.rows = rows
      /\ read'.first = found /\ read'.kept = found /\ read'.arg = arg /\ Untouched
  BY <1>2, <1>5, BegunForms
<1>10. TodoHolds(read') /\ read'.todo # <<>>
  BY <1>9 DEF TodoHolds
<1>11. Qualified(lib, read')
  BY <1>2, <1>8, <1>9, <1>10 DEF Qualified
<1>12. Planned(lib, read') /\ Rescanned(read')
  BY <1>9 DEF Planned, Rescanned
<1>. QED  BY <1>6, <1>7, <1>9, <1>10, <1>11, <1>12, UntouchedInv DEF ReadHolds

LEMMA BacklinksStep ==
  ASSUME LibraryInv, HandleBacklinks
  PROVE  LibraryInv'
<1>1. PICK e : Begin("backlinks", [id |-> e], <<"entries", "refs", "provenance">>, <<>>, <<>>)
  BY DEF HandleBacklinks
<1>. DEFINE arg == [id |-> e]
            todo == <<"entries", "refs", "provenance">>
            none == <<>>
            found == JournalEntryRefsTargeting(lib, e)
<1>2. Subject(lib, "backlinks", arg) = found
  BY DEF Subject
<1>3. found \subseteq Live(lib, "journal_entry")
  BY DEF JournalEntryRefsTargeting, Live, EntityIsType
<1>4. Begin("backlinks", arg, todo, none, none)
  BY <1>1
<1>. HIDE DEF arg, todo, none, found
<1>5. /\ ReadForm(read') /\ read'.kind = "backlinks" /\ read'.todo = todo /\ read'.rows = none
      /\ read'.first = found /\ read'.kept = found /\ Untouched
  BY <1>2, <1>4, BegunForms
<1>6. TodoHolds(read')
  BY <1>5 DEF TodoHolds, todo
<1>7. Qualified(lib, read')
  BY <1>3, <1>5 DEF Qualified, todo
<1>8. Planned(lib, read') /\ Rescanned(read')
  BY <1>5 DEF Planned, Rescanned
<1>. QED  BY <1>5, <1>6, <1>7, <1>8, EmptyRows, UntouchedInv DEF ReadHolds, none

LEMMA ThreadStep ==
  ASSUME LibraryInv, ReadCurrentThreadJournalEntries
  PROVE  LibraryInv'
<1>1. PICK asker :
         LET entries == LatestRevisedFirst(lib, CurrentThreadJournalEntries(lib, asker))
         IN  Begin("thread", [id |-> asker], <<"refs">>,
                   [k \in DOMAIN entries |-> EntityRowToWire(entries[k], LatestRevision(lib, entries[k]))], <<>>)
  BY DEF ReadCurrentThreadJournalEntries
<1>. DEFINE arg == [id |-> asker]
            found == CurrentThreadJournalEntries(lib, asker)
            ids == LatestRevisedFirst(lib, found)
            load == [k \in DOMAIN ids |-> LatestRevision(lib, ids[k])]
            rows == Wired(ids, load)
<1>2. Subject(lib, "thread", arg) = found
  BY DEF Subject
<1>3. \A e \in found : e \in Ids(lib) /\ lib.ent[e] # Gone
  BY LiveAre DEF CurrentThreadJournalEntries
<1>4. Begin("thread", arg, <<"refs">>, rows, <<>>)
  <2>1. rows = [k \in DOMAIN ids |-> EntityRowToWire(ids[k], LatestRevision(lib, ids[k]))]
    <3>. HIDE DEF ids
    <3>. QED  BY DEF Wired
  <2>. QED  BY <1>1, <2>1
<1>5. IsSequence(ids) /\ ToSet(ids) = found
  <2>. HIDE DEF found
  <2>. QED  BY <1>3, LatestRevisedHolds DEF LibraryInv
<1>6. ToSet(ids) \subseteq Ids(lib)
  BY <1>3, <1>5
<1>. HIDE DEF ids, found, load
<1>7. IsSequence(rows) /\ IdsShown(rows) = found /\ DOMAIN rows = DOMAIN ids
  BY <1>5, <1>6, WiredHolds
<1>8. \A k \in DOMAIN ids : Sourced(lib, rows[k])
  BY <1>5, <1>6, WiredHolds
<1>. HIDE DEF rows, arg
<1>9. /\ ReadForm(read') /\ read'.kind = "thread" /\ read'.todo = <<"refs">> /\ read'.rows = rows
      /\ read'.first = found /\ read'.kept = found /\ Untouched
  BY <1>2, <1>4, BegunForms
<1>10. TodoHolds(read')
  BY <1>9 DEF TodoHolds
<1>11. Qualified(lib, read')
  BY <1>7, <1>9 DEF Qualified
<1>12. Planned(lib, read') /\ Rescanned(read')
  BY <1>9 DEF Planned, Rescanned
<1>. QED  BY <1>7, <1>8, <1>9, <1>10, <1>11, <1>12, UntouchedInv DEF ReadHolds

\* A read without rows: a plan, a review or a re-scan.
LEMMA BareBegun ==
  ASSUME LibraryInv, NEW kind \in {"plan", "review", "rescan"}, NEW arg, NEW todo, NEW got,
         Begin(kind, arg, todo, <<>>, got), TodoHolds(read'), Planned(lib, read'), Rescanned(read')
  PROVE  LibraryInv'
<1>1. Subject(lib, kind, arg) = {}
  BY DEF Subject
<1>. DEFINE none == <<>>
<1>2. Begin(kind, arg, todo, none, got)
  OBVIOUS
<1>. HIDE DEF none
<1>3. /\ ReadForm(read') /\ read'.kind = kind /\ read'.rows = none
      /\ read'.first = {} /\ read'.kept = {} /\ Untouched
  BY <1>1, <1>2, BegunForms
<1>4. Qualified(lib, read')
  BY <1>3 DEF Qualified
<1>5. IsSequence(none) /\ \A k \in DOMAIN none : Sourced(lib, none[k])
  BY EmptyRows DEF none
<1>. QED  BY <1>3, <1>4, <1>5, UntouchedInv DEF ReadHolds

LEMMA PlanStep ==
  ASSUME LibraryInv, ResolvedPlan
  PROVE  LibraryInv'
<1>1. PICK name, hint :
         IF EntityIsType(lib, hint, "person")
           THEN Begin("plan", [name |-> name, hint |-> hint], <<>>, <<>>, <<Reuse(hint)>>)
           ELSE Begin("plan", [name |-> name, hint |-> hint], <<"label">>, <<>>, <<>>)
  BY DEF ResolvedPlan
<1>. DEFINE node == [name |-> name, hint |-> hint]
<1>2. node.hint = hint
  OBVIOUS
<1>. HIDE DEF node
<1>3. CASE EntityIsType(lib, hint, "person")
  <2>. DEFINE none == <<>>
              got == <<Reuse(hint)>>
  <2>1. Begin("plan", node, none, <<>>, got)
    BY <1>1, <1>3 DEF node
  <2>2. got[1] = ResolveDisposition(lib, node)
    BY <1>2, <1>3 DEF ResolveDisposition
  <2>. HIDE DEF got
  <2>3. read'.kind = "plan" /\ read'.todo = <<>> /\ read'.got = got /\ read'.arg = node
    BY <2>1, BegunForms
  <2>4. TodoHolds(read') /\ Planned(lib, read') /\ Rescanned(read')
    BY <2>2, <2>3 DEF TodoHolds, Planned, Rescanned
  <2>. HIDE DEF none
  <2>. QED  BY <2>1, <2>4, BareBegun
<1>4. CASE ~EntityIsType(lib, hint, "person")
  <2>. DEFINE todo == <<"label">>
              none == <<>>
  <2>1. Begin("plan", node, todo, <<>>, none)
    BY <1>1, <1>4 DEF node
  <2>2. todo # <<>>
    OBVIOUS
  <2>. HIDE DEF none
  <2>3. read'.kind = "plan" /\ read'.todo = todo /\ read'.arg = node
    BY <2>1, BegunForms
  <2>4. TodoHolds(read') /\ Planned(lib, read') /\ Rescanned(read')
    BY <1>2, <1>4, <2>2, <2>3 DEF TodoHolds, Planned, Rescanned
  <2>. HIDE DEF todo
  <2>. QED  BY <2>1, <2>4, BareBegun
<1>. QED  BY <1>3, <1>4

LEMMA ReviewStep ==
  ASSUME LibraryInv, ReviewContext
  PROVE  LibraryInv'
<1>1. PICK asker, type, e :
         Begin("review", [id |-> e, type |-> type],
               IF type = "person" \/ JournalEntryTargetIsValid(lib, asker, e)
                 THEN <<"data">> ELSE <<>>, <<>>, <<>>)
  BY DEF ReviewContext
<1>. DEFINE arg == [id |-> e, type |-> type]
            todo == IF type = "person" \/ JournalEntryTargetIsValid(lib, asker, e)
                      THEN <<"data">> ELSE <<>>
            none == <<>>
<1>2. Begin("review", arg, todo, <<>>, none) /\ todo \in {<<"data">>, <<>>}
  BY <1>1
<1>. HIDE DEF arg, todo, none
<1>3. read'.kind = "review" /\ read'.todo = todo
  BY <1>2, BegunForms
<1>4. TodoHolds(read') /\ Planned(lib, read') /\ Rescanned(read')
  BY <1>2, <1>3 DEF TodoHolds, Planned, Rescanned
<1>. QED  BY <1>2, <1>4, BareBegun

LEMMA OriginThreads ==
  ASSUME LibraryInv, NEW e \in Ids(lib), NEW thread \in JournalEntryOriginThreads(lib, e)
  PROVE  thread \in ToSet(FirstRuns)
<1>1. EntityIsType(lib, e, "journal_entry")
      /\ \E message \in OriginMessages(lib, e) : thread = runs[message]
  BY DEF JournalEntryOriginThreads
<1>2. PICK message \in OriginMessages(lib, e) : thread = runs[message]
  BY <1>1
<1>3. PICK k \in CreatedFrom(lib, e) : /\ lib.ent[e].sources[k].source.kind = "message"
                                       /\ lib.ent[e].sources[k].source.id = message
  BY <1>2 DEF OriginMessages
<1>. DEFINE row == lib.ent[e].sources[k]
<1>4. EntityHolds(lib, lib.ent[e], DOMAIN runs)
  BY <1>1, TypeIsThere DEF LibraryInv, TablesHold
<1>5. SourceRowHolds(lib, row, DOMAIN runs) /\ row.relation = "created_from"
  BY <1>4 DEF EntityHolds, CreatedFrom, ToSet
<1>6. row # NoRow
  BY <1>5 DEF NoRow
<1>7. \/ \E n \in DOMAIN runs : row.source = MessageSource(n)
      \/ \E n \in Ids(lib) : row.source = EntrySource(n)
  <2>. HIDE DEF row
  <2>. QED  BY <1>5, <1>6 DEF SourceRowHolds
<1>8. row.source.kind = "message" /\ row.source.id = message
  BY <1>3
<1>. HIDE DEF row
<1>9. message \in DOMAIN runs
  <2>1. \A n : MessageSource(n).id = n /\ EntrySource(n).kind # "message"
    BY DEF MessageSource, EntrySource
  <2>. QED  BY <1>7, <1>8, <2>1
<1>. QED  BY <1>2, <1>9 DEF LibraryInv

LEMMA RescanStep ==
  ASSUME LibraryInv, Rescan
  PROVE  LibraryInv'
<1>1. PICK e, thread :
         /\ e \in Ids(lib) /\ thread \in JournalEntryOriginThreads(lib, e)
         /\ Begin("rescan", [id |-> e], <<"start">>, <<>>, <<thread>>)
  BY DEF Rescan
<1>. DEFINE arg == [id |-> e]
            todo == <<"start">>
            got == <<thread>>
<1>2. Begin("rescan", arg, todo, <<>>, got)
  BY <1>1
<1>3. got[1] \in ToSet(FirstRuns)
  BY <1>1, OriginThreads
<1>. HIDE DEF arg, got
<1>4. read'.kind = "rescan" /\ read'.todo = todo /\ read'.got = got
  BY <1>2, BegunForms
<1>5. TodoHolds(read') /\ Planned(lib, read') /\ Rescanned(read')
  BY <1>3, <1>4 DEF TodoHolds, Planned, Rescanned
<1>. HIDE DEF todo
<1>. QED  BY <1>2, <1>5, BareBegun

(***************************************************************************)
(* Reads that go on.                                                       *)
(***************************************************************************)
LEMMA ContinueIs ==
  ASSUME NEW rows, NEW got, Continue(rows, got)
  PROVE  read' = Continued(read, rows, got) /\ UNCHANGED <<lib, call, clock, writes>>
BY DEF Continue, Continued

LEMMA WentOn ==
  ASSUME LibraryInv, UNCHANGED <<lib, runs, call, clock, writes>>, ReadHolds(lib, read')
  PROVE  LibraryInv'
BY UntouchedInv DEF Untouched

LEMMA AsksWhat ==
  ASSUME NEW r, TodoHolds(r), r.todo # <<>>
  PROVE  /\ Head(r.todo) = "provenance" \/ Head(r.todo) = "refs" =>
               r.todo # <<"entries", "refs", "provenance">> /\ r.kind \in {"list", "search", "backlinks", "thread"}
         /\ Head(r.todo) = "entries" =>
               r.todo = <<"entries", "refs", "provenance">> /\ r.kind = "backlinks"
         /\ Head(r.todo) = "label" => r.todo = <<"label">> /\ r.kind = "plan"
         /\ Head(r.todo) = "data" => r.todo = <<"data">> /\ r.kind = "review"
         /\ Head(r.todo) = "start" => r.todo = <<"start">> /\ r.kind = "rescan"
<1>1. \A a : Head(<<a>>) = a
  OBVIOUS
<1>2. \A a, b : Head(<<a, b>>) = a
  OBVIOUS
<1>3. \A a, b, c : Head(<<a, b, c>>) = a
  OBVIOUS
<1>. QED  BY <1>1, <1>2, <1>3 DEF TodoHolds

LEMMA RowFields ==
  ASSUME NEW row, IsRow(row), NEW x
  PROVE  /\ LET new == [row EXCEPT !.source = x]
            IN  IsRow(new) /\ new.id = row.id /\ new.data = row.data /\ new.source = x
         /\ LET new == [row EXCEPT !.refs = x]
            IN  IsRow(new) /\ new.id = row.id /\ new.data = row.data /\ new.source = row.source
<1>1. PICK id, data, source, refs : row = [id |-> id, data |-> data, source |-> source, refs |-> refs]
  BY DEF IsRow
<1>2. [row EXCEPT !.source = x] = [id |-> id, data |-> data, source |-> x, refs |-> refs]
  BY <1>1
<1>3. [row EXCEPT !.refs = x] = [id |-> id, data |-> data, source |-> source, refs |-> x]
  BY <1>1
<1>. QED  BY <1>1, <1>2, <1>3 DEF IsRow

\* The rows with another source, or other references.
SourcedAs(row, x) == [row EXCEPT !.source = x]
WithRefs(row, x) == [row EXCEPT !.refs = x]

LEMMA RowsKept ==
  ASSUME NEW row, IsRow(row), NEW x
  PROVE  /\ IsRow(SourcedAs(row, x)) /\ SourcedAs(row, x).id = row.id
         /\ SourcedAs(row, x).data = row.data /\ SourcedAs(row, x).source = x
         /\ IsRow(WithRefs(row, x)) /\ WithRefs(row, x).id = row.id
         /\ WithRefs(row, x).data = row.data /\ WithRefs(row, x).source = row.source
BY RowFields DEF SourcedAs, WithRefs

LEMMA SourcedRow ==
  ASSUME NEW d, NEW ms, TablesHold(d, ms), NEW row, Sourced(d, row)
  PROVE  /\ Sourced(d, SourcedAs(row, ProvenanceForEntities(d, row.id)))
         /\ \A x : Sourced(d, WithRefs(row, x))
<1>1. IsRow(row) /\ row.id \in Ids(d)
  BY DEF Sourced
<1>2. Sourced(d, SourcedAs(row, ProvenanceForEntities(d, row.id)))
  <2>. DEFINE x == ProvenanceForEntities(d, row.id)
  <2>1. x = NoSource \/ \E j \in CreatedFrom(d, row.id) : d.ent[row.id].sources[j].source = x
    BY <1>1, ProvenanceHolds
  <2>. HIDE DEF x
  <2>2. /\ IsRow(SourcedAs(row, x)) /\ SourcedAs(row, x).id = row.id
        /\ SourcedAs(row, x).source = x
    BY <1>1, RowsKept
  <2>3. Sourced(d, SourcedAs(row, x))
    BY <1>1, <2>1, <2>2 DEF Sourced
  <2>. QED  BY <2>3 DEF x
<1>3. \A x : Sourced(d, WithRefs(row, x))
  BY <1>1, RowsKept DEF Sourced
<1>. QED  BY <1>2, <1>3

LEMMA RowsReplaced ==
  ASSUME NEW s, IsSequence(s), NEW t, t = [k \in DOMAIN s |-> t[k]]
  PROVE  IsSequence(t) /\ DOMAIN t = DOMAIN s
<1>1. Len(s) \in Nat /\ DOMAIN s = 1 .. Len(s)
  BY SequenceFacts
<1>2. t = [i \in 1 .. Len(s) |-> t[i]]
  BY <1>1
<1>. QED  BY <1>1, <1>2, FunctionIsSequence

LEMMA ProvenanceStep ==
  ASSUME LibraryInv, AttachProvenance
  PROVE  LibraryInv'
<1>. DEFINE rows == [k \in DOMAIN read.rows |->
                       SourcedAs(read.rows[k], ProvenanceForEntities(lib, read.rows[k].id))]
            none == <<>>
<1>1. read.todo # <<>> /\ Head(read.todo) = "provenance" /\ UNCHANGED runs
      /\ Continue(rows, none)
  BY DEF AttachProvenance, Asks, SourcedAs
<1>2. ReadHolds(lib, read) /\ TablesHold(lib, DOMAIN runs)
  BY DEF LibraryInv
<1>3. IsSequence(rows) /\ DOMAIN rows = DOMAIN read.rows
  <2>1. rows = [k \in DOMAIN read.rows |-> rows[k]]
    OBVIOUS
  <2>. HIDE DEF rows
  <2>. QED  BY <2>1, <1>2, RowsReplaced DEF ReadHolds
<1>4. ASSUME NEW k \in DOMAIN rows
      PROVE  /\ rows[k].id = read.rows[k].id /\ rows[k].data = read.rows[k].data
             /\ Sourced(lib, rows[k])
  <2>1. Sourced(lib, read.rows[k]) /\ IsRow(read.rows[k])
    BY <1>2, <1>3 DEF ReadHolds, Sourced
  <2>2. rows[k] = SourcedAs(read.rows[k], ProvenanceForEntities(lib, read.rows[k].id))
    BY <1>3
  <2>. HIDE DEF rows
  <2>. QED  BY <1>2, <2>1, <2>2, RowsKept, SourcedRow
<1>5. read.todo # <<"entries", "refs", "provenance">> /\ read.kind \notin {"plan", "rescan"}
  BY <1>1, <1>2, AsksWhat DEF ReadHolds
<1>6. read' = Continued(read, rows, none) /\ UNCHANGED <<lib, call, clock, writes>>
  <2>. HIDE DEF rows, none
  <2>. QED  BY <1>1, ContinueIs
<1>7. ReadHolds(lib, Continued(read, rows, none))
  <2>. HIDE DEF rows
  <2>. QED  BY <1>1, <1>2, <1>3, <1>4, <1>5, AttachHolds
<1>. HIDE DEF rows, none
<1>. QED  BY <1>1, <1>6, <1>7, WentOn

LEMMA RefsStep ==
  ASSUME LibraryInv, AttachJournalEntryRefs
  PROVE  LibraryInv'
<1>. DEFINE rows == [k \in DOMAIN read.rows |->
                       WithRefs(read.rows[k], EntityRefsForSources(lib, {read.rows[k].id}))]
            none == <<>>
<1>1. read.todo # <<>> /\ Head(read.todo) = "refs" /\ UNCHANGED runs
      /\ Continue(rows, none)
  BY DEF AttachJournalEntryRefs, Asks, WithRefs
<1>2. ReadHolds(lib, read) /\ TablesHold(lib, DOMAIN runs)
  BY DEF LibraryInv
<1>3. IsSequence(rows) /\ DOMAIN rows = DOMAIN read.rows
  <2>1. rows = [k \in DOMAIN read.rows |-> rows[k]]
    OBVIOUS
  <2>. HIDE DEF rows
  <2>. QED  BY <2>1, <1>2, RowsReplaced DEF ReadHolds
<1>4. ASSUME NEW k \in DOMAIN rows
      PROVE  /\ rows[k].id = read.rows[k].id /\ rows[k].data = read.rows[k].data
             /\ Sourced(lib, rows[k])
  <2>1. Sourced(lib, read.rows[k]) /\ IsRow(read.rows[k])
    BY <1>2, <1>3 DEF ReadHolds, Sourced
  <2>2. rows[k] = WithRefs(read.rows[k], EntityRefsForSources(lib, {read.rows[k].id}))
    BY <1>3
  <2>. HIDE DEF rows
  <2>. QED  BY <1>2, <2>1, <2>2, RowsKept, SourcedRow
<1>5. read.todo # <<"entries", "refs", "provenance">> /\ read.kind \notin {"plan", "rescan"}
  BY <1>1, <1>2, AsksWhat DEF ReadHolds
<1>6. read' = Continued(read, rows, none) /\ UNCHANGED <<lib, call, clock, writes>>
  <2>. HIDE DEF rows, none
  <2>. QED  BY <1>1, ContinueIs
<1>7. ReadHolds(lib, Continued(read, rows, none))
  <2>. HIDE DEF rows
  <2>. QED  BY <1>1, <1>2, <1>3, <1>4, <1>5, AttachHolds
<1>. HIDE DEF rows, none
<1>. QED  BY <1>1, <1>6, <1>7, WentOn

LEMMA EntriesStep ==
  ASSUME LibraryInv, MentionedInJournalEntries
  PROVE  LibraryInv'
<1>. DEFINE found == JournalEntriesByIds(lib, read.first)
            order == OrderBy([e \in found |-> <<lib.ent[e].data.day, -e, 0>>])
            rows == RowsOf(lib, order)
            none == <<>>
<1>1. read.todo # <<>> /\ Head(read.todo) = "entries" /\ UNCHANGED runs /\ Continue(rows, none)
  BY DEF MentionedInJournalEntries, Asks
<1>2. ReadHolds(lib, read) /\ TablesHold(lib, DOMAIN runs)
  BY DEF LibraryInv
<1>3. read.todo = <<"entries", "refs", "provenance">> /\ read.kind = "backlinks"
  BY <1>1, <1>2, AsksWhat DEF ReadHolds
<1>4. \A e \in found : e \in Ids(lib) /\ lib.ent[e] # Gone
  BY LiveAre DEF JournalEntriesByIds
<1>5. found \subseteq read.first /\ read.kept \subseteq found /\ read.kept \subseteq read.first
  BY <1>2, <1>3 DEF ReadHolds, Qualified, JournalEntriesByIds
<1>. HIDE DEF found
<1>6. IsSequence(order) /\ ToSet(order) = found /\ ToSet(order) \subseteq Ids(lib)
  BY <1>2, <1>4, MentionedHolds
<1>. HIDE DEF order
<1>7. IsSequence(rows) /\ IdsShown(rows) = found /\ DOMAIN rows = DOMAIN order
  BY <1>6, RowsOfHolds
<1>8. \A k \in DOMAIN order : Sourced(lib, rows[k])
  BY <1>6, RowsOfHolds
<1>. DEFINE r2 == Continued(read, rows, none)
<1>. HIDE DEF rows, none
<1>9. read' = r2 /\ UNCHANGED <<lib, call, clock, writes>>
  BY <1>1, ContinueIs
<1>10. /\ ReadForm(r2) /\ r2.kind = read.kind /\ r2.first = read.first
       /\ r2.kept = read.kept /\ r2.todo = Tail(read.todo)
  BY <1>2, ContinuedForms DEF ReadHolds
<1>11. r2.rows = rows
  BY <1>2, <1>3, FinishedElse DEF ReadHolds
<1>. HIDE DEF r2
<1>12. TodoHolds(r2)
  BY <1>1, <1>2, <1>10, NextTodo DEF ReadHolds
<1>13. Qualified(lib, r2)
  BY <1>2, <1>3, <1>5, <1>7, <1>10, <1>11 DEF ReadHolds, Qualified
<1>14. Planned(lib, r2) /\ Rescanned(r2)
  BY <1>3, <1>10 DEF Planned, Rescanned
<1>15. ReadHolds(lib, r2)
  BY <1>7, <1>8, <1>10, <1>11, <1>12, <1>13, <1>14 DEF ReadHolds
<1>. QED  BY <1>1, <1>9, <1>15, WentOn

\* A read without rows goes on.
LEMMA BareContinued ==
  ASSUME NEW d, NEW r, ReadHolds(d, r), r.todo # <<>>, r.kind \in {"plan", "review", "rescan"},
         NEW none, none = <<>>, NEW got,
         Planned(d, Continued(r, none, got)), Rescanned(Continued(r, none, got))
  PROVE  ReadHolds(d, Continued(r, none, got))
<1>. DEFINE r2 == Continued(r, none, got)
<1>1. ReadForm(r) /\ TodoHolds(r)
  BY DEF ReadHolds
<1>2. /\ ReadForm(r2) /\ r2.kind = r.kind /\ r2.first = r.first
      /\ r2.kept = r.kept /\ r2.todo = Tail(r.todo)
  BY <1>1, ContinuedForms
<1>3. r2.rows = none
  BY <1>1, FinishedElse
<1>. HIDE DEF r2
<1>4. TodoHolds(r2)
  BY <1>1, <1>2, NextTodo
<1>5. Qualified(d, r2)
  BY <1>2 DEF ReadHolds, Qualified
<1>6. IsSequence(none) /\ \A k \in DOMAIN none : Sourced(d, none[k])
  BY EmptyRows
<1>7. Planned(d, r2) /\ Rescanned(r2)
  BY DEF r2
<1>8. ReadHolds(d, r2)
  BY <1>2, <1>3, <1>4, <1>5, <1>6, <1>7 DEF ReadHolds
<1>. QED  BY <1>8 DEF r2

LEMMA LabelStep ==
  ASSUME LibraryInv, ResolvePlanDisposition
  PROVE  LibraryInv'
<1>. DEFINE got == <<ByLabel(lib, read.arg.name)>>
            none == <<>>
            r2 == Continued(read, none, got)
<1>1. read.todo # <<>> /\ Head(read.todo) = "label" /\ UNCHANGED runs /\ Continue(none, got)
  BY DEF ResolvePlanDisposition, Asks
<1>2. ReadHolds(lib, read)
  BY DEF LibraryInv
<1>3. read.kind = "plan"
  BY <1>1, <1>2, AsksWhat DEF ReadHolds
<1>4. got[1] = ByLabel(lib, read.arg.name) /\ none = <<>>
  OBVIOUS
<1>. HIDE DEF got, none
<1>5. read' = r2 /\ UNCHANGED <<lib, call, clock, writes>>
  BY <1>1, ContinueIs
<1>6. r2.kind = read.kind /\ r2.arg = read.arg /\ r2.clean = read.clean /\ r2.got = got
  BY <1>2, ContinuedForms DEF ReadHolds
<1>7. read.clean => ~EntityIsType(lib, read.arg.hint, "person")
  BY <1>1, <1>2, <1>3 DEF ReadHolds, Planned
<1>8. read.clean => got[1] = ResolveDisposition(lib, read.arg)
  BY <1>4, <1>7 DEF ResolveDisposition
<1>9. r2.todo = <<>>
  <2>1. read.todo = <<"label">>
    BY <1>1, <1>2, AsksWhat DEF ReadHolds
  <2>2. Tail(<<"label">>) = <<>>
    OBVIOUS
  <2>3. r2.todo = Tail(read.todo)
    BY <1>2, ContinuedForms DEF ReadHolds
  <2>. HIDE DEF r2
  <2>. QED  BY <2>1, <2>2, <2>3
<1>. HIDE DEF r2
<1>10. Planned(lib, r2) /\ Rescanned(r2)
  BY <1>3, <1>6, <1>8, <1>9 DEF Planned, Rescanned
<1>11. ReadHolds(lib, r2)
  BY <1>1, <1>2, <1>3, <1>4, <1>10, BareContinued DEF r2
<1>. QED  BY <1>1, <1>5, <1>11, WentOn

LEMMA DataStep ==
  ASSUME LibraryInv, CurrentEntityReviewData
  PROVE  LibraryInv'
<1>. DEFINE got == CurrentEntityData(lib, read.arg.id, read.arg.type)
            none == <<>>
            r2 == Continued(read, none, got)
<1>1. read.todo # <<>> /\ Head(read.todo) = "data" /\ UNCHANGED runs /\ Continue(none, got)
  BY DEF CurrentEntityReviewData, Asks
<1>2. ReadHolds(lib, read) /\ none = <<>>
  BY DEF LibraryInv
<1>3. read.kind = "review"
  BY <1>1, <1>2, AsksWhat DEF ReadHolds
<1>. HIDE DEF got, none
<1>4. read' = r2 /\ UNCHANGED <<lib, call, clock, writes>>
  BY <1>1, ContinueIs
<1>5. r2.kind = read.kind
  BY <1>2, ContinuedForms DEF ReadHolds
<1>. HIDE DEF r2
<1>6. Planned(lib, r2) /\ Rescanned(r2)
  BY <1>3, <1>5 DEF Planned, Rescanned
<1>7. ReadHolds(lib, r2)
  BY <1>1, <1>2, <1>3, <1>6, BareContinued DEF r2
<1>. QED  BY <1>1, <1>4, <1>7, WentOn

LEMMA RecordedNot == \A d : Recorded(d, d)
BY DEF Recorded

LEMMA WiderNot == \A d : Wider(d, d)
BY DEF Wider

LEMMA TablesStay ==
  ASSUME NEW d, NEW ms, NEW ms2, ms \subseteq ms2, TablesHold(d, ms)
  PROVE  TablesHold(d, ms2)
<1>1. \A row : EntityHolds(d, row, ms) => EntityHolds(d, row, ms2)
  BY WiderNot, EntitiesStay
<1>2. \A row : ObservationHolds(d, row, ms) => ObservationHolds(d, row, ms2)
  BY WiderNot, ObservationsStay
<1>. QED  BY <1>1, <1>2 DEF TablesHold

LEMMA StartStep ==
  ASSUME LibraryInv, StartRescan
  PROVE  LibraryInv'
<1>. DEFINE got == <<read.got[1], Len(runs) + 1>>
            none == <<>>
            r2 == Continued(read, none, got)
            thread == read.got[1]
<1>1. read.todo # <<>> /\ Head(read.todo) = "start" /\ runs' = Append(runs, thread) /\ Continue(none, got)
  BY DEF StartRescan, Asks
<1>2. ReadHolds(lib, read) /\ none = <<>> /\ IsSequence(runs)
  BY DEF LibraryInv
<1>3. read.kind = "rescan" /\ read.todo = <<"start">>
  BY <1>1, <1>2, AsksWhat DEF ReadHolds
<1>4. thread \in ToSet(FirstRuns)
  BY <1>1, <1>2, <1>3 DEF ReadHolds, Rescanned
<1>. HIDE DEF got, none, thread
<1>5. read' = r2 /\ UNCHANGED <<lib, call, clock, writes>>
  BY <1>1, ContinueIs
<1>6. r2.kind = read.kind /\ r2.todo = Tail(read.todo)
  BY <1>2, ContinuedForms DEF ReadHolds
<1>. HIDE DEF r2
<1>7. Planned(lib, r2) /\ Rescanned(r2)
  <2>1. Tail(<<"start">>) = <<>>
    OBVIOUS
  <2>2. r2.todo = <<>>
    BY <1>3, <1>6, <2>1
  <2>. QED  BY <1>3, <1>6, <2>2 DEF Planned, Rescanned
<1>8. ReadHolds(lib, r2)
  BY <1>1, <1>2, <1>3, <1>7, BareContinued DEF r2
<1>9. Len(runs) \in Nat /\ DOMAIN runs = 1 .. Len(runs)
  BY <1>2, SequenceFacts
<1>10. /\ IsSequence(runs') /\ DOMAIN runs' = 1 .. Len(runs) + 1
       /\ \A i \in DOMAIN runs : runs'[i] = runs[i]
       /\ runs'[Len(runs) + 1] = thread
  BY <1>1, <1>2, AppendHolds
<1>11. DOMAIN runs \subseteq DOMAIN runs' /\ \A k \in DOMAIN runs' : runs'[k] \in ToSet(FirstRuns)
  BY <1>4, <1>9, <1>10 DEF LibraryInv
<1>12. TablesHold(lib, DOMAIN runs')
  BY <1>11, TablesStay DEF LibraryInv
<1>13. \A w \in Writers : call[w] = NoRequest \/ Asked(lib, DOMAIN runs', call[w])
  BY <1>11, RecordedNot, AskedStays DEF LibraryInv
<1>. QED  BY <1>5, <1>8, <1>10, <1>11, <1>12, <1>13 DEF LibraryInv

(***************************************************************************)
(* Writes, and time.                                                       *)
(***************************************************************************)
Narrowed(r, kept, clean) == [r EXCEPT !.kept = kept, !.clean = clean]

LEMMA ReadFields ==
  ASSUME NEW r, ReadForm(r), NEW kept, NEW clean
  PROVE  /\ ReadForm(Narrowed(r, kept, clean))
         /\ Narrowed(r, kept, clean).kind = r.kind /\ Narrowed(r, kept, clean).arg = r.arg
         /\ Narrowed(r, kept, clean).todo = r.todo /\ Narrowed(r, kept, clean).rows = r.rows
         /\ Narrowed(r, kept, clean).first = r.first /\ Narrowed(r, kept, clean).got = r.got
         /\ Narrowed(r, kept, clean).kept = kept /\ Narrowed(r, kept, clean).clean = clean
<1>. DEFINE a == With(r, "kept", kept)
            b == With(a, "clean", clean)
<1>1. Narrowed(r, kept, clean) = b
  BY DEF With, Narrowed
<1>2. /\ ReadForm(a) /\ a.kind = r.kind /\ a.arg = r.arg /\ a.todo = r.todo
      /\ a.rows = r.rows /\ a.first = r.first /\ a.got = r.got /\ a.kept = kept
  BY WithForms DEF Fields
<1>. HIDE DEF a
<1>3. /\ ReadForm(b) /\ b.kind = a.kind /\ b.arg = a.arg /\ b.todo = a.todo
      /\ b.rows = a.rows /\ b.first = a.first /\ b.got = a.got /\ b.kept = a.kept /\ b.clean = clean
  BY <1>2, WithForms DEF Fields
<1>. HIDE DEF b
<1>. QED  BY <1>1, <1>2, <1>3

LEMMA ApplyStep ==
  ASSUME LibraryInv, NEW w \in Writers, Apply(w)
  PROVE  LibraryInv'
<1>. DEFINE ms == DOMAIN runs
            left == Subject(lib', read.kind, read.arg)
            kept == read.kept \cap left
            clean == read.clean /\ lib' = lib
<1>1. Asked(lib, ms, call[w])
  BY DEF LibraryInv, Apply
<1>2. /\ TablesHold(lib', ms) /\ Recorded(lib, lib')
      /\ Written(lib, lib') \/ lib' = lib
  <2>1. CASE Commits(lib, call[w])
    <3>1. lib' = ApplyEntityMutation(lib, call[w])
      BY <2>1 DEF Apply
    <3>2. TablesHold(lib, ms)
      BY DEF LibraryInv
    <3>. QED  BY <1>1, <2>1, <3>1, <3>2, ApplyHolds
  <2>2. CASE ~Commits(lib, call[w])
    BY <2>2, RecordedNot DEF Apply, LibraryInv
  <2>. QED  BY <2>1, <2>2
<1>3. ReadHolds(lib, read) /\ ReadForm(read)
  BY DEF LibraryInv, ReadHolds
<1>4. read' = Narrowed(read, kept, clean)
  BY DEF Apply, Narrowed
<1>5. read.kind = "backlinks" => left \subseteq Live(lib', "journal_entry")
  BY DEF Subject, JournalEntryRefsTargeting, Live, EntityIsType
<1>6. clean => read.clean /\ lib' = lib
  OBVIOUS
<1>7. /\ ReadForm(read') /\ read'.kind = read.kind /\ read'.arg = read.arg /\ read'.todo = read.todo
      /\ read'.rows = read.rows /\ read'.first = read.first /\ read'.got = read.got
      /\ read'.kept = kept /\ read'.clean = clean
  <2>. HIDE DEF kept, clean
  <2>. QED  BY <1>3, <1>4, ReadFields
<1>8. ReadHolds(lib', read')
  <2>1. read'.clean => read.clean /\ lib' = lib
    <3>1. read'.clean = (read.clean /\ lib' = lib)
      BY <1>7
    <3>. QED  BY <3>1
  <2>2. read'.kept = read.kept \cap left
    BY <1>7
  <2>. HIDE DEF left, kept, clean
  <2>. QED  BY <1>2, <1>3, <1>5, <1>7, <2>1, <2>2, ReadWritten
<1>9. UNCHANGED <<runs, clock, writes>> /\ call' = [call EXCEPT ![w] = NoRequest]
  BY DEF Apply
<1>10. call' = [v \in Writers |-> call'[v]]
  BY <1>9 DEF LibraryInv
<1>11. ASSUME NEW v \in Writers
       PROVE  call'[v] = NoRequest \/ Asked(lib', ms, call'[v])
  <2>1. CASE v = w
    BY <1>9, <2>1 DEF LibraryInv
  <2>2. CASE v # w
    <3>1. call'[v] = call[v]
      BY <1>9, <2>2 DEF LibraryInv
    <3>2. call[v] = NoRequest \/ Asked(lib, ms, call[v])
      BY DEF LibraryInv
    <3>. QED  BY <1>2, <3>1, <3>2, AskedStays
  <2>. QED  BY <2>1, <2>2
<1>. QED  BY <1>2, <1>8, <1>9, <1>10, <1>11 DEF LibraryInv

LEMMA RequestForms ==
  \A op, asker, target, name, day, other :
     LET m == Request(op, asker, target, name, day, other)
     IN  /\ m.op = op /\ m.run = asker /\ m.target = target /\ m.day = day
         /\ m.other = other /\ m.at = clock
BY DEF Request

LEMMA RecordForms ==
  \A asker, payload :
     LET m == Record(asker, payload)
     IN  m.op = "record" /\ m.run = asker /\ m.day = 0 /\ m.at = clock /\ m.payload[1] = payload
BY DEF Request, Record

Corrected(o, draft) ==
    Payload(<<RecordDraft(lib.obs[o].facts.schema, draft.occurred, draft.ended, draft.values)>>, <<>>)

LEMMA CorrectForms ==
  \A o, draft :
     LET m == Correct(o, draft)
     IN  /\ m.op = "correct" /\ m.run = User /\ m.target = o /\ m.day = 0 /\ m.at = clock
         /\ m.payload[1] = Corrected(o, draft)
BY DEF Request, Correct, Corrected

LEMMA CorrectedHolds ==
  ASSUME NEW o, NEW draft, IsDraft(draft)
  PROVE  IsPayload(Corrected(o, draft)) /\ Corrected(o, draft).observations[1].schema = lib.obs[o].facts.schema
<1>. DEFINE schema == lib.obs[o].facts.schema
            record == RecordDraft(schema, draft.occurred, draft.ended, draft.values)
            records == <<record>>
            none == <<>>
<1>1. draft = UpdateDraft(draft.occurred, draft.ended, draft.values)
  BY DEF IsDraft
<1>2. record = [schema |-> record.schema, draft |-> record.draft] /\ record.draft = draft /\ record.schema = schema
  BY <1>1 DEF RecordDraft
<1>3. Corrected(o, draft) = Payload(records, none)
  BY DEF Corrected
<1>. HIDE DEF record, schema
<1>4. IsSequence(records) /\ DOMAIN records = {1} /\ records[1] = record
  BY OneRevision
<1>5. IsSequence(none) /\ ToSet(none) = {}
  BY DEF IsSequence, ToSet
<1>. HIDE DEF records, none
<1>6. ToSet(records) = {record}
  BY <1>4 DEF ToSet
<1>7. Payload(records, none).observations = records /\ Payload(records, none).evidence = none
  BY DEF Payload
<1>8. IsPayload(Payload(records, none))
  BY <1>2, <1>4, <1>5, <1>6, <1>7 DEF IsPayload
<1>. QED  BY <1>2, <1>3, <1>4, <1>7, <1>8 DEF schema

PlainOps == Ops \ {"record", "correct"}

LEMMA PlainAsked ==
  ASSUME LibraryInv, NEW op \in PlainOps, NEW asker \in {User} \cup DOMAIN runs,
         NEW target, NEW name, NEW day \in Int, NEW other,
         op = "create" /\ asker = User => other = 0
  PROVE  Asked(lib, DOMAIN runs, Request(op, asker, target, name, day, other))
<1>. DEFINE m == Request(op, asker, target, name, day, other)
<1>1. m.op = op /\ m.run = asker /\ m.day = day /\ m.other = other /\ m.at = clock
  BY DEF Request
<1>2. clock \in Int
  BY LibraryAssumption DEF LibraryInv
<1>3. op \in Ops /\ op # "record" /\ op # "correct"
  BY DEF PlainOps
<1>. HIDE DEF m
<1>4. Asked(lib, DOMAIN runs, m)
  BY <1>1, <1>2, <1>3 DEF Asked
<1>. QED  BY <1>4 DEF m

LEMMA PlainOpsAre ==
  {"create", "rename", "move", "reference", "forget person", "forget entry", "forget habit", "capture"}
      \subseteq PlainOps
BY DEF PlainOps, Ops

\* A request sent may be made.
LEMMA SendStep ==
  ASSUME LibraryInv, NEW w \in Writers, NEW m, Asked(lib, DOMAIN runs, m), Send(w, m),
         UNCHANGED <<lib, runs, read, clock>>, writes' = writes + 1, writes < MaxWrites
  PROVE  LibraryInv'
<1>1. call' = [call EXCEPT ![w] = m]
  BY DEF Send
<1>2. call' = [v \in Writers |-> call'[v]]
  BY <1>1 DEF LibraryInv
<1>3. \A v \in Writers : call'[v] = NoRequest \/ Asked(lib, DOMAIN runs, call'[v])
  BY <1>1 DEF LibraryInv
<1>4. writes' \in 0 .. MaxWrites
  BY LibraryAssumption DEF LibraryInv
<1>. QED  BY <1>2, <1>3, <1>4 DEF LibraryInv

LEMMA RecordAsked ==
  ASSUME LibraryInv, NEW r \in {User} \cup DOMAIN runs, NEW payload \in Batches,
         TargetHolds(lib, Record(r, payload))
  PROVE  Asked(lib, DOMAIN runs, Record(r, payload))
<1>. DEFINE m == Record(r, payload)
<1>1. m.op = "record" /\ m.run = r /\ m.day = 0 /\ m.at = clock /\ m.payload[1] = payload
  BY RecordForms
<1>. HIDE DEF m
<1>2. IsPayload(payload) /\ clock \in Int
  BY LibraryAssumption DEF LibraryInv
<1>3. ValidRecord(m.payload[1])
  BY <1>1 DEF TargetHolds, m
<1>4. Asked(lib, DOMAIN runs, m)
  BY <1>1, <1>2, <1>3 DEF Asked, Ops
<1>. QED  BY <1>4 DEF m

LEMMA CorrectAsked ==
  ASSUME LibraryInv, NEW o \in DOMAIN lib.obs, NEW draft \in Corrections,
         TargetHolds(lib, Correct(o, draft))
  PROVE  Asked(lib, DOMAIN runs, Correct(o, draft))
<1>. DEFINE m == Correct(o, draft)
<1>1. /\ m.op = "correct" /\ m.run = User /\ m.target = o /\ m.day = 0 /\ m.at = clock
      /\ m.payload[1] = Corrected(o, draft)
  BY CorrectForms
<1>. HIDE DEF m
<1>2. IsDraft(draft) /\ clock \in Int
  BY LibraryAssumption DEF LibraryInv
<1>3. /\ IsPayload(m.payload[1])
      /\ m.payload[1].observations[1].schema = lib.obs[m.target].facts.schema
  BY <1>1, <1>2, CorrectedHolds
<1>4. ValidRecord(m.payload[1])
  BY <1>1 DEF TargetHolds, m
<1>5. Asked(lib, DOMAIN runs, m)
  BY <1>1, <1>2, <1>3, <1>4 DEF Asked, Ops
<1>. QED  BY <1>5 DEF m

LEMMA AskStep ==
  ASSUME LibraryInv, NEW w \in Writers, Ask(w)
  PROVE  LibraryInv'
<1>. DEFINE who == {User} \cup DOMAIN runs
            people == Live(lib, "person")
            entries == Live(lib, "journal_entry")
<1>1. (\A day \in Days : day \in Int) /\ 0 \in Int
  BY LibraryAssumption
<1>2. \A r \in DOMAIN runs : r # User
  BY SequenceFacts DEF LibraryInv, User
<1>3. UNCHANGED <<lib, runs, read, clock>> /\ writes' = writes + 1 /\ writes < MaxWrites
  BY DEF Ask
<1>4. ASSUME NEW op \in PlainOps, NEW asker \in who, NEW target, NEW name, NEW day \in Int, NEW other,
             op = "create" /\ asker = User => other = 0,
             Send(w, Request(op, asker, target, name, day, other))
      PROVE  LibraryInv'
  BY <1>3, <1>4, PlainAsked, SendStep
<1>5. ASSUME NEW r \in who, NEW payload \in Batches, Send(w, Record(r, payload))
      PROVE  LibraryInv'
  <2>1. Asked(lib, DOMAIN runs, Record(r, payload))
    BY <1>5, RecordAsked DEF Send
  <2>. QED  BY <1>3, <1>5, <2>1, SendStep
<1>6. ASSUME NEW o \in DOMAIN lib.obs, NEW draft \in Corrections, Send(w, Correct(o, draft))
      PROVE  LibraryInv'
  <2>1. Asked(lib, DOMAIN runs, Correct(o, draft))
    BY <1>6, CorrectAsked DEF Send
  <2>. QED  BY <1>3, <1>6, <2>1, SendStep
<1>7. ASSUME NEW r \in DOMAIN runs, NEW n, NEW j, Send(w, Request("create", r, 0, n, 0, j))
      PROVE  LibraryInv'
  BY <1>1, <1>2, <1>4, <1>7, PlainOpsAre
<1>8. ASSUME NEW n, Send(w, Request("create", User, 0, n, 0, 0))
      PROVE  LibraryInv'
  BY <1>1, <1>4, <1>8, PlainOpsAre
<1>9. ASSUME NEW op \in {"rename", "move", "reference", "forget person", "forget entry", "forget habit", "capture"},
             NEW asker \in who, NEW target, NEW name, NEW day \in Int, NEW other,
             Send(w, Request(op, asker, target, name, day, other))
      PROVE  LibraryInv'
  <2>1. op \in PlainOps /\ op # "create"
    BY PlainOpsAre
  <2>. QED  BY <1>4, <1>9, <2>1
<1>10. ASSUME NEW r \in who, NEW p, NEW n, Send(w, Request("rename", r, p, n, 0, 0)) PROVE LibraryInv'
  BY <1>1, <1>9, <1>10
<1>11. ASSUME NEW r \in who, NEW e, NEW day \in Days, Send(w, Request("move", r, e, {}, day, 0)) PROVE LibraryInv'
  BY <1>1, <1>9, <1>11
<1>12. ASSUME NEW r \in who, NEW e, NEW p, Send(w, Request("reference", r, e, {}, 0, p)) PROVE LibraryInv'
  BY <1>1, <1>9, <1>12
<1>13. ASSUME NEW r \in who, NEW p, Send(w, Request("forget person", r, p, {}, 0, 0)) PROVE LibraryInv'
  BY <1>1, <1>9, <1>13
<1>14. ASSUME NEW r \in who, NEW e, Send(w, Request("forget entry", r, e, {}, 0, 0)) PROVE LibraryInv'
  BY <1>1, <1>9, <1>14
<1>15. ASSUME NEW h, Send(w, Request("forget habit", User, h, {}, 0, 0)) PROVE LibraryInv'
  BY <1>1, <1>9, <1>15
<1>16. ASSUME NEW r \in DOMAIN runs, NEW n, NEW day \in Days, Send(w, Request("capture", r, 0, n, day, 0))
       PROVE  LibraryInv'
  BY <1>1, <1>9, <1>16
<1>. QED  BY <1>5, <1>6, <1>7, <1>8, <1>10, <1>11, <1>12, <1>13, <1>14, <1>15, <1>16 DEF Ask

LEMMA TickStep ==
  ASSUME LibraryInv, Tick
  PROVE  LibraryInv'
<1>1. clock' \in 0 .. MaxTime
  BY LibraryAssumption DEF LibraryInv, Tick
<1>2. UNCHANGED <<lib, runs, call, read, writes>>
  BY DEF Tick
<1>. QED  BY <1>1, <1>2 DEF LibraryInv

LEMMA LibraryStays ==
  ASSUME LibraryInv, UNCHANGED libraryVars
  PROVE  LibraryInv'
BY DEF LibraryInv, libraryVars

LEMMA LibraryInvariance == LibraryInv /\ [NextLibrary]_libraryVars => LibraryInv'
<1>. SUFFICES ASSUME LibraryInv, [NextLibrary]_libraryVars PROVE LibraryInv'
  OBVIOUS
<1>. USE DEF NextLibrary
<1>1. CASE UNCHANGED libraryVars
  BY <1>1, LibraryStays
<1>2. ASSUME NEW w \in Writers, Ask(w) PROVE LibraryInv'
  BY <1>2, AskStep
<1>3. ASSUME NEW w \in Writers, Apply(w) PROVE LibraryInv'
  BY <1>3, ApplyStep
<1>4. CASE HandleList
  BY <1>4, ListStep
<1>5. CASE SearchEntities
  BY <1>5, SearchStep
<1>6. CASE HandleBacklinks
  BY <1>6, BacklinksStep
<1>7. CASE ReadCurrentThreadJournalEntries
  BY <1>7, ThreadStep
<1>8. CASE ResolvedPlan
  BY <1>8, PlanStep
<1>9. CASE ReviewContext
  BY <1>9, ReviewStep
<1>10. CASE Rescan
  BY <1>10, RescanStep
<1>11. CASE MentionedInJournalEntries
  BY <1>11, EntriesStep
<1>12. CASE AttachProvenance
  BY <1>12, ProvenanceStep
<1>13. CASE AttachJournalEntryRefs
  BY <1>13, RefsStep
<1>14. CASE ResolvePlanDisposition
  BY <1>14, LabelStep
<1>15. CASE CurrentEntityReviewData
  BY <1>15, DataStep
<1>16. CASE StartRescan
  BY <1>16, StartStep
<1>17. CASE Tick
  BY <1>17, TickStep
<1>. QED  BY <1>1, <1>2, <1>3, <1>4, <1>5, <1>6, <1>7, <1>8, <1>9, <1>10, <1>11, <1>12,
             <1>13, <1>14, <1>15, <1>16, <1>17

LEMMA LibraryHolds == SpecLibrary => []LibraryInv
<1>. QED  BY LibraryStarts, LibraryInvariance, PTL DEF SpecLibrary

(***************************************************************************)
(* What follows from it.                                                   *)
(***************************************************************************)
LEMMA SourcesResolve ==
  ASSUME LibraryInv, NEW row, SourceRowHolds(lib, row, DOMAIN runs), row # NoRow
  PROVE  /\ row.relation \in {"created_from", "updated_from"}
         /\ row.source.kind \in {"message", "entry"}
         /\ row.source.kind = "message" => row.source.id \in DOMAIN runs
         /\ row.source.kind = "entry" => EntityIsType(lib, row.source.id, "journal_entry")
<1>1. \A x : MessageSource(x).kind = "message" /\ MessageSource(x).id = x
  BY DEF MessageSource
<1>2. \A x : EntrySource(x).kind = "entry" /\ EntrySource(x).id = x
  BY DEF EntrySource
<1>. QED  BY <1>1, <1>2 DEF SourceRowHolds

LEMMA EvidenceResolves ==
  ASSUME LibraryInv, NEW source, SourceHolds(lib, source, DOMAIN runs), NEW columns \in ToSet(source)
  PROVE  /\ \A e \in ToSet(columns.entity) : EntityIsType(lib, e, "journal_entry")
         /\ ToSet(columns.message) \subseteq DOMAIN runs
         /\ \/ columns.relation = "created_from" /\ columns.entity # <<>> /\ columns.message = <<>>
            \/ columns.relation = "evidenced_by" /\ columns.entity = <<>> /\ columns.message # <<>>
<1>1. \A x : ToSet(<<x>>) = {x} /\ <<x>> # <<>>
  BY OneRevision DEF ToSet
<1>2. ToSet(<<>>) = {}
  BY DEF ToSet
<1>3. CASE \E e \in Ids(lib) : EntityIsType(lib, e, "journal_entry") /\ source = <<SourceColumns(JournalEntry(e))>>
  <2>1. PICK e \in Ids(lib) : EntityIsType(lib, e, "journal_entry") /\ source = <<SourceColumns(JournalEntry(e))>>
    BY <1>3
  <2>2. columns = SourceColumns(JournalEntry(e))
    BY <1>1, <2>1
  <2>3. columns.entity = <<e>> /\ columns.message = <<>> /\ columns.relation = "created_from"
    BY <2>2 DEF SourceColumns, JournalEntry, Relation
  <2>. QED  BY <1>1, <1>2, <2>1, <2>3
<1>4. CASE \E message \in DOMAIN runs : source = <<SourceColumns(Message(message))>>
  <2>1. PICK message \in DOMAIN runs : source = <<SourceColumns(Message(message))>>
    BY <1>4
  <2>2. columns = SourceColumns(Message(message))
    BY <1>1, <2>1
  <2>3. columns.entity = <<>> /\ columns.message = <<message>> /\ columns.relation = "evidenced_by"
    BY <2>2 DEF SourceColumns, Message, Relation
  <2>. QED  BY <1>1, <1>2, <2>1, <2>3
<1>. QED  BY <1>2, <1>3, <1>4 DEF SourceHolds

LEMMA RowsDoResolve == LibraryInv => RowsResolve
<1>. SUFFICES ASSUME LibraryInv PROVE RowsResolve
  OBVIOUS
<1>1. ASSUME NEW e \in Ids(lib), lib.ent[e] # Gone
      PROVE  /\ lib.ent[e].type \in {"journal_entry", "person", "habit"}
             /\ lib.ent[e].revs # <<>>
             /\ \A row \in ToSet(lib.ent[e].sources) : SourceRowHolds(lib, row, DOMAIN runs)
  BY <1>1 DEF LibraryInv, TablesHold, EntityHolds
<1>2. \A r \in lib.refs : EntityIsType(lib, r.source, "journal_entry") /\ EntityIsType(lib, r.target, "person")
  BY DEF LibraryInv, TablesHold, RefHolds
<1>3. \A o \in DOMAIN lib.obs : SourceHolds(lib, lib.obs[o].source, DOMAIN runs)
  BY DEF LibraryInv, TablesHold, ObservationHolds
<1>4. \A k \in DOMAIN runs : runs[k] \in ToSet(FirstRuns)
  BY DEF LibraryInv
<1>5. clock \in 0..MaxTime /\ writes \in 0..MaxWrites
  BY DEF LibraryInv
<1>. QED  BY <1>1, <1>2, <1>3, <1>4, <1>5, SourcesResolve, EvidenceResolves DEF RowsResolve

LEMMA AnswersAreFaithful == LibraryInv => AnswersFaithful
<1>. SUFFICES ASSUME LibraryInv, read.todo = <<>>, read.kind \in {"list", "search", "backlinks", "thread"}
              PROVE  /\ IdsShown(read.rows) \subseteq read.first
                     /\ read.kept \subseteq IdsShown(read.rows)
                        \/ (read.kind = "search" /\ Len(read.rows) = SearchLimit)
  BY DEF AnswersFaithful, IdsShown
<1>1. Qualified(lib, read)
  BY DEF LibraryInv, ReadHolds
<1>2. <<>> # <<"entries", "refs", "provenance">>
  OBVIOUS
<1>. QED  BY <1>1, <1>2 DEF Qualified

LEMMA OriginsAreShown == LibraryInv => ShownOrigin
BY DEF LibraryInv, ReadHolds, Sourced, ShownOrigin

LEMMA PlansAreKept == LibraryInv => PlanIsKept
BY DEF LibraryInv, ReadHolds, Planned, PlanIsKept

\* Reads that others' writes interleave with show what qualified and whence it
\* came, and a plan is what deciding does.
THEOREM ReadsStayFaithful == SpecLibrary => []ReadsAreFaithful
<1>1. LibraryInv => ReadsAreFaithful
  BY AnswersAreFaithful, OriginsAreShown, PlansAreKept DEF ReadsAreFaithful
<1>. QED  BY <1>1, LibraryHolds, PTL

\* A write is what changes the tables.
LEMMA OnlyWritten ==
  ASSUME LibraryInv, [NextLibrary]_libraryVars
  PROVE  Written(lib, lib') \/ lib' = lib
<1>1. ASSUME NEW w \in Writers, Apply(w)
      PROVE  Written(lib, lib') \/ lib' = lib
  <2>1. CASE Commits(lib, call[w])
    <3>1. lib' = ApplyEntityMutation(lib, call[w]) /\ Asked(lib, DOMAIN runs, call[w])
      BY <1>1, <2>1 DEF Apply, LibraryInv
    <3>2. TablesHold(lib, DOMAIN runs)
      BY DEF LibraryInv
    <3>. QED  BY <2>1, <3>1, <3>2, ApplyHolds
  <2>2. CASE ~Commits(lib, call[w])
    BY <1>1, <2>2 DEF Apply
  <2>. QED  BY <2>1, <2>2
<1>2. ASSUME NEW rows, NEW got, Continue(rows, got)
      PROVE  lib' = lib
  BY <1>2 DEF Continue
<1>3. ASSUME NEW kind, NEW arg, NEW todo, NEW rows, NEW got, Begin(kind, arg, todo, rows, got)
      PROVE  lib' = lib
  BY <1>3 DEF Begin
<1>4. CASE UNCHANGED libraryVars
  BY <1>4 DEF libraryVars
<1>5. ASSUME NEW w \in Writers, Ask(w) PROVE lib' = lib
  BY <1>5 DEF Ask
<1>6. CASE Tick
  BY <1>6 DEF Tick
<1>7. CASE \/ HandleList \/ SearchEntities \/ HandleBacklinks \/ ReadCurrentThreadJournalEntries
           \/ ResolvedPlan \/ ReviewContext \/ Rescan
  BY <1>3, <1>7 DEF HandleList, SearchEntities, HandleBacklinks, ReadCurrentThreadJournalEntries,
                    ResolvedPlan, ReviewContext, Rescan
<1>8. CASE \/ MentionedInJournalEntries \/ AttachProvenance \/ AttachJournalEntryRefs
           \/ ResolvePlanDisposition \/ CurrentEntityReviewData \/ StartRescan
  BY <1>2, <1>8 DEF MentionedInJournalEntries, AttachProvenance, AttachJournalEntryRefs,
                    ResolvePlanDisposition, CurrentEntityReviewData, StartRescan
<1>. QED  BY <1>1, <1>4, <1>5, <1>6, <1>7, <1>8 DEF NextLibrary

OriginOf(d, d2, e) ==
    LET before == d.ent[e].sources
        after == d2.ent[e].sources
    IN  /\ \A j, k \in CreatedFrom(d2, e) : j = k
        /\ \/ /\ CreatedFrom(d2, e) = CreatedFrom(d, e)
              /\ \A k \in CreatedFrom(d, e) : after[k] = before[k]
           \/ /\ CreatedFrom(d2, e) = {}
              /\ \A k \in CreatedFrom(d, e) :
                    before[k].source.kind = "entry" /\ d2.ent[before[k].source.id] = Gone

LEMMA KeptIs ==
  ASSUME NEW d, NEW d2, NEW e, OriginKept(d, d2, e)
  PROVE  OriginOf(d, d2, e)
<1>1. CreatedFrom(d, e) = MadeFrom(d.ent[e].sources) /\ CreatedFrom(d2, e) = MadeFrom(d2.ent[e].sources)
  BY DEF CreatedFrom, MadeFrom
<1>. QED  BY <1>1 DEF OriginOf, OriginKept, Single, SameOrigin

LEMMA NotWrittenIs ==
  ASSUME NEW d, NEW m, TablesHold(d, m), NEW e \in Ids(d), d.ent[e] # Gone
  PROVE  OriginOf(d, d, e)
BY DEF OriginOf, TablesHold

LEMMA OriginStep ==
  ASSUME LibraryInv, [NextLibrary]_libraryVars
  PROVE  \A e \in Ids(lib) : lib'.ent[e] # Gone /\ lib.ent[e] # Gone => OriginOf(lib, lib', e)
<1>1. CASE lib' = lib
  BY <1>1, NotWrittenIs DEF LibraryInv
<1>2. CASE Written(lib, lib')
  BY <1>2, KeptIs DEF Written
<1>. QED  BY <1>1, <1>2, OnlyWritten

\* Where an Entity came from never changes, except that it is lost with the
\* entry it was captured from.
THEOREM OriginsStay == SpecLibrary => OriginStays
<1>1. LibraryInv /\ [NextLibrary]_libraryVars =>
        [\A e \in Ids(lib) : lib'.ent[e] # Gone /\ lib.ent[e] # Gone =>
          LET before == lib.ent[e].sources
              after == lib'.ent[e].sources
          IN  /\ \A j, k \in CreatedFrom(lib', e) : j = k
              /\ \/ /\ CreatedFrom(lib', e) = CreatedFrom(lib, e)
                    /\ \A k \in CreatedFrom(lib, e) : after[k] = before[k]
                 \/ /\ CreatedFrom(lib', e) = {}
                    /\ \A k \in CreatedFrom(lib, e) :
                          before[k].source.kind = "entry" /\ lib'.ent[before[k].source.id] = Gone]_lib
  BY OriginStep DEF OriginOf
<1>. QED  BY <1>1, LibraryHolds, PTL DEF SpecLibrary, OriginStays

LEMMA SpelledAlike ==
  /\ \A n \in Int : n >= 1 => NormalizeUuid(n) = n /\ IsUuid(n)
  /\ \A n \in Int : n >= 1 => \A spelling \in {1, -1} :
        NormalizeUuid(spelling * n) = n
BY DEF NormalizeUuid, IsUuid

LEMMA IdsAreUuids ==
  ASSUME NEW d, NEW ms, TablesHold(d, ms)
  PROVE  \A e \in Ids(d) : e \in Int /\ e >= 1
BY IdsAre DEF Ids

LEMMA RelationIs ==
  \A facts, keys, e : RelatedTo(facts, keys, e) <=>
     /\ keys = {} \/ "habit.checkin" \in keys
     /\ facts.schema = "habit.checkin" /\ facts.values["habit_id"] = e
BY DEF RelatedTo, Relations

RelatedParams(keys, id) == QueryParams(keys, <<>>, <<>>, <<>>, <<>>, <<id>>, <<>>)

LEMMA RelatedParamsAre ==
  \A keys, id :
    LET params == RelatedParams(keys, id)
    IN  /\ params.schema_keys = keys /\ params.from = <<>> /\ params.to = <<>>
        /\ SourceFromQueryParams(params) = <<>> /\ params.related_entity_id = <<id>>
BY DEF RelatedParams, QueryParams, SourceFromQueryParams

LEMMA NothingIn == ToSet(<<>>) = {} /\ \A x : ToSet(<<x>>) = {x}
BY OneRevision DEF ToSet

LEMMA SelectedRelated ==
  ASSUME NEW d, NEW keys, NEW id
  PROVE  Selected(d, RelatedParams(keys, id)) =
            {o \in DOMAIN d.obs :
                /\ keys = {} \/ d.obs[o].facts.schema \in keys
                /\ RelatedTo(d.obs[o].facts, keys, NormalizeUuid(id))}
<1>. DEFINE params == RelatedParams(keys, id)
<1>1. /\ params.schema_keys = keys /\ params.from = <<>> /\ params.to = <<>>
      /\ SourceFromQueryParams(params) = <<>> /\ params.related_entity_id = <<id>>
  BY RelatedParamsAre
<1>2. ToSet(params.from) = {} /\ ToSet(params.to) = {} /\ ToSet(SourceFromQueryParams(params)) = {}
      /\ ToSet(params.related_entity_id) = {id}
  BY <1>1, NothingIn
<1>. HIDE DEF params
<1>3. Selected(d, params) =
            {o \in DOMAIN d.obs :
                /\ keys = {} \/ d.obs[o].facts.schema \in keys
                /\ RelatedTo(d.obs[o].facts, keys, NormalizeUuid(id))}
  BY <1>1, <1>2 DEF Selected
<1>. QED  BY <1>3 DEF params

LEMMA CheckinHolds ==
  ASSUME NEW d, NEW facts, FactsHold(d, facts), facts.schema = "habit.checkin"
  PROVE  EntityIsType(d, facts.values["habit_id"], "habit")
<1>. DEFINE r == [schema |-> "habit.checkin", field |-> "habit_id", target |-> "habit"]
<1>1. r \in RelationsOf(facts.schema)
  BY RelationsAre
<1>2. r.field = "habit_id" /\ r.target = "habit"
  OBVIOUS
<1>. HIDE DEF r
<1>3. EntityIsType(d, facts.values[r.field], r.target)
  BY <1>1 DEF FactsHold
<1>. QED  BY <1>2, <1>3

LEMMA CheckinsDoResolve ==
  ASSUME LibraryInv, NEW o \in DOMAIN lib.obs, lib.obs[o].facts.schema = "habit.checkin"
  PROVE  LET habit == lib.obs[o].facts.values["habit_id"]
         IN  EntityIsType(lib, habit, "habit") /\ NormalizeUuid(habit) = habit
<1>1. FactsHold(lib, lib.obs[o].facts) /\ TablesHold(lib, DOMAIN runs)
  BY DEF LibraryInv, TablesHold, ObservationHolds
<1>2. EntityIsType(lib, lib.obs[o].facts.values["habit_id"], "habit")
  BY <1>1, CheckinHolds
<1>3. lib.obs[o].facts.values["habit_id"] \in Ids(lib)
  BY <1>2 DEF EntityIsType
<1>. QED  BY <1>1, <1>2, <1>3, IdsAreUuids, SpelledAlike

LEMMA CheckinsDoFind == LibraryInv => CheckinsAreFound
<1>. SUFFICES ASSUME LibraryInv, NEW habit \in Ids(lib), NEW spelling \in {1, -1},
                     NEW keys \in SUBSET {"habit.checkin", "bodyweight"}
              PROVE  Selected(lib, RelatedParams(keys, spelling * habit))
                       = {o \in DOMAIN lib.obs :
                           /\ lib.obs[o].facts.schema = "habit.checkin"
                           /\ NormalizeUuid(lib.obs[o].facts.values["habit_id"]) = habit
                           /\ EntityIsType(lib, habit, "habit")
                           /\ keys = {} \/ "habit.checkin" \in keys}
  BY DEF CheckinsAreFound, RelatedParams
<1>1. NormalizeUuid(spelling * habit) = habit
  BY IdsAreUuids, SpelledAlike DEF LibraryInv
<1>2. Selected(lib, RelatedParams(keys, spelling * habit)) =
            {o \in DOMAIN lib.obs :
                /\ keys = {} \/ lib.obs[o].facts.schema \in keys
                /\ RelatedTo(lib.obs[o].facts, keys, habit)}
  BY <1>1, SelectedRelated
<1>. QED  BY <1>2, RelationIs, CheckinsDoResolve

EveryParams == QueryParams({}, <<>>, <<>>, <<>>, <<>>, <<>>, <<>>)

LEMMA EveryParamsAre ==
  /\ EveryParams.schema_keys = {} /\ EveryParams.from = <<>> /\ EveryParams.to = <<>>
  /\ EveryParams.source_entity_id = <<>> /\ EveryParams.limit = <<>>
  /\ SourceFromQueryParams(EveryParams) = <<>> /\ EveryParams.related_entity_id = <<>>
BY DEF EveryParams, QueryParams, SourceFromQueryParams

LEMMA EveryIsValid == ValidQuery(EveryParams)
BY EveryParamsAre, NothingIn DEF ValidQuery

LEMMA EveryIsSelected == \A d : Selected(d, EveryParams) = DOMAIN d.obs
BY EveryParamsAre, NothingIn DEF Selected

LEMMA EveryRow ==
  ASSUME NEW d, NEW ms, TablesHold(d, ms)
  PROVE  /\ IsSequence(QueryObservations(d, EveryParams))
         /\ ToSet(QueryObservations(d, EveryParams)) = DOMAIN d.obs
<1>. DEFINE f == [o \in Selected(d, EveryParams) |-> <<d.obs[o].facts.occurred, d.obs[o].created, o>>]
<1>1. DOMAIN f = DOMAIN d.obs /\ f = [o \in DOMAIN d.obs |-> <<d.obs[o].facts.occurred, d.obs[o].created, o>>]
  BY EveryIsSelected
<1>2. QueryObservations(d, EveryParams) = OrderBy(f)
  BY EveryParamsAre DEF QueryObservations
<1>3. IsSequence(d.obs)
  BY DEF TablesHold
<1>4. IsFiniteSet(DOMAIN d.obs) /\ \A o \in DOMAIN d.obs : o \in Int
  BY <1>3, FinitePart
<1>5. \A o \in DOMAIN d.obs : d.obs[o].facts.occurred \in Int /\ d.obs[o].created \in Int
  BY DEF TablesHold, ObservationHolds, FactsHold
<1>. HIDE DEF f
<1>6. Columns(f)
  BY <1>1, <1>4, <1>5 DEF Columns, Triples
<1>. QED  BY <1>1, <1>2, <1>6, OrderedAre

\* A query for everything has its rows, and no error.
Rowed(d, rows) == [k \in DOMAIN rows |-> ObservationToWire(rows[k], ObservationFromRow(d.obs[rows[k]]))]

LEMMA EveryAnswer ==
  ASSUME LibraryInv
  PROVE  HandleQuery(lib, EveryParams) = [observations |-> Rowed(lib, QueryObservations(lib, EveryParams))]
<1>1. \A o \in ToSet(QueryObservations(lib, EveryParams)) : o \in DOMAIN lib.obs
  BY EveryRow DEF LibraryInv
<1>2. \A o \in DOMAIN lib.obs : SourceHolds(lib, lib.obs[o].source, DOMAIN runs)
  BY DEF LibraryInv, TablesHold, ObservationHolds
<1>3. \A o \in DOMAIN lib.obs : Decodable(lib.obs[o])
  BY <1>2, EvidenceResolves DEF Decodable
<1>. QED  BY <1>1, <1>3, EveryIsValid DEF HandleQuery, Rowed

Versions(d, o) == [k \in DOMAIN d.obs[o].revs |-> RevisionToWire(k, d.obs[o].revs[k])]

LEMMA HistoryIs ==
  ASSUME LibraryInv, NEW o \in DOMAIN lib.obs
  PROVE  HandleGetHistory(lib, o).revisions = Versions(lib, o)
<1>1. IsSequence(lib.obs)
  BY DEF LibraryInv, TablesHold
<1>2. o \in Int /\ o >= 1
  BY <1>1, SequenceFacts
<1>3. NormalizeUuid(o) = o /\ IsUuid(o)
  BY <1>2, SpelledAlike
<1>. QED  BY <1>3 DEF HandleGetHistory, ObservationRevisions, Versions

Kept(facts, history) ==
    /\ history # <<>> /\ Last(history).facts = facts
    /\ \A version \in ToSet(history) :
          /\ version.facts.schema = facts.schema
          /\ version.seq > 1 => version.proposal = <<>>

LEMMA VersionsHold ==
  ASSUME NEW revs, NEW facts, RevisionsHold(revs, facts),
         NEW history, history = [k \in DOMAIN revs |-> RevisionToWire(k, revs[k])]
  PROVE  Kept(facts, history)
<1>1. IsSequence(revs) /\ revs # <<>> /\ revs[Len(revs)].facts = facts
  BY DEF RevisionsHold
<1>2. Len(revs) \in Nat /\ DOMAIN revs = 1 .. Len(revs) /\ Len(revs) \in DOMAIN revs
  BY <1>1, SequenceFacts
<1>3. IsSequence(history) /\ Len(history) = Len(revs) /\ DOMAIN history = 1 .. Len(revs)
  BY <1>2, FunctionIsSequence
<1>4. history # <<>>
  BY <1>2, <1>3
<1>5. \A k \in DOMAIN revs : /\ history[k].facts = revs[k].facts
                             /\ history[k].seq = k
                             /\ history[k].proposal = revs[k].proposal
  BY DEF RevisionToWire
<1>6. Last(history) = history[Len(revs)]
  BY <1>3 DEF Last
<1>7. Last(history).facts = facts
  BY <1>1, <1>2, <1>5, <1>6
<1>8. ASSUME NEW k \in DOMAIN revs
      PROVE  /\ history[k].facts.schema = facts.schema
             /\ history[k].seq > 1 => history[k].proposal = <<>>
  BY <1>5 DEF RevisionsHold
<1>. QED  BY <1>2, <1>3, <1>4, <1>7, <1>8 DEF ToSet, Kept

LEMMA WrittenDoRead == LibraryInv => WrittenIsReadable
<1>. SUFFICES ASSUME LibraryInv PROVE WrittenIsReadable
  OBVIOUS
<1>. DEFINE reply == HandleQuery(lib, EveryParams)
            rows == QueryObservations(lib, EveryParams)
            shown == Rowed(lib, rows)
<1>1. reply = [observations |-> shown]
  BY EveryAnswer
<1>2. \A k \in DOMAIN rows : rows[k] \in DOMAIN lib.obs
  BY EveryRow DEF LibraryInv, ToSet
<1>3. DOMAIN shown = DOMAIN rows
      /\ \A k \in DOMAIN rows : shown[k].id = rows[k] /\ shown[k].facts = lib.obs[rows[k]].facts
  BY DEF Rowed, ObservationToWire, ObservationFromRow
<1>. HIDE DEF reply, rows, shown
<1>4. "error" \notin DOMAIN reply /\ reply.observations = shown
  BY <1>1
<1>5. ASSUME NEW k \in DOMAIN shown
      PROVE  Kept(shown[k].facts, HandleGetHistory(lib, shown[k].id).revisions)
  <2>. DEFINE o == rows[k]
              history == Versions(lib, o)
  <2>1. o \in DOMAIN lib.obs /\ shown[k].id = o /\ shown[k].facts = lib.obs[o].facts
    BY <1>2, <1>3
  <2>2. RevisionsHold(lib.obs[o].revs, lib.obs[o].facts)
    BY <2>1 DEF LibraryInv, TablesHold, ObservationHolds
  <2>3. HandleGetHistory(lib, shown[k].id).revisions = history
    BY <2>1, HistoryIs
  <2>4. Kept(lib.obs[o].facts, history)
    BY <2>2, VersionsHold DEF Versions
  <2>. HIDE DEF o, history
  <2>. QED  BY <2>1, <2>3, <2>4
<1>. QED  BY <1>4, <1>5 DEF WrittenIsReadable, Kept, reply, EveryParams

\* Every row refers to rows that are there, a check-in is found by its Habit
\* however the id was spelled, and what was recorded can be read back.
THEOREM RowsStayReadable == SpecLibrary => []RowsAreReadable
<1>1. LibraryInv => RowsAreReadable
  BY RowsDoResolve, CheckinsDoFind, WrittenDoRead DEF RowsAreReadable
<1>. QED  BY <1>1, LibraryHolds, PTL
=============================================================================
