------------------------------ MODULE Accounts ------------------------------
(***************************************************************************)
(* Which model a Run uses and with which credential (crates/core/src:      *)
(* credentials.rs, provider_auth.rs, runs/provider.rs, settings.rs,        *)
(* runs/settings.rs, dispatcher.rs, models/mod.rs, providers.rs,           *)
(* worker/oneshot.rs, worker/title.rs, worker/liveness.rs).                *)
(*                                                                         *)
(* A credential is one file per provider, truncated and then written.      *)
(* Runs, the titler and the liveness probe ("users") read it and, when an  *)
(* OAuth access token has expired, refresh it through a helper process     *)
(* under one lock.  A login writes the same file without that lock.        *)
(*                                                                         *)
(* Connections serve one request at a time.  A step ends where a task      *)
(* awaits, and between the truncation and the write of a file, which       *)
(* another thread can come between.                                        *)
(***************************************************************************)
EXTENDS Naturals, FiniteSets, TLC

CONSTANTS
    Runs, Probes,       \* tasks that need a token: Runs, and one-shot Workers
    Clients,            \* connections
    Curators,           \* the connections whose Client changes settings
    Vendors,            \* vendor |-> the keys of its models
    Reaches,            \* provider |-> vendor |-> the keys it reaches there
    Prefixed,           \* the providers that prefix model ids with the vendor
    AuthKind,           \* provider |-> "oauth" or "api_key"
    BaseProvider,       \* the provider of the default Workflow's TOML
    DefaultModel,       \* that provider's default model
    MaxToken,           \* bound on the tokens OAuth providers issue
    MaxNow,             \* bound on the clock
    MaxSets,            \* bound on settings requests
    MaxFaults           \* bound on failed writes and crashes

VARIABLES
    now, file, lock,    \* the clock, the credential files, the refresh lock
    user, client,       \* the tasks that need a token; the connections
    latch,              \* LOGIN_IN_FLIGHT
    issued, rotated,    \* the provider's side: tokens issued, and superseded
    prefs, sets,        \* the settings rows; requests that changed them
    faults

vars == <<now, file, lock, user, client, latch, issued, rotated, prefs, sets,
          faults>>
provider_side == <<issued, rotated>>
settings == <<prefs, sets>>

Users == Runs \cup Probes
Providers == DOMAIN Reaches
None == [kind |-> "none"]
Torn == [kind |-> "torn"]       \* exists and does not parse
Key == [kind |-> "api_key"]
Oauth(n, at) == [kind |-> "oauth", token |-> n, expires |-> at]
Unset == <<>>
Nobody == "nobody"

(***************************************************************************)
(* The catalog, the registry and the dispatcher.                           *)
(***************************************************************************)
\* The ids under which provider p offers models.
Catalog(p) ==
    UNION {{IF p \in Prefixed THEN <<v, k>> ELSE <<k>> : k \in Reaches[p][v]}
           : v \in DOMAIN Reaches[p]}
Models == UNION {Catalog(p) : p \in Providers}
IsKnownModel(m) == m \in Models
\* A model in no provider's catalog keeps the Workflow's provider.
ProviderFor(m) ==
    IF IsKnownModel(m) THEN CHOOSE p \in Providers : m \in Catalog(p)
    ELSE BaseProvider

IsConfigurable(p) == AuthKind[p] = "api_key"
LoginAllowed(p) == AuthKind[p] = "oauth"

PreferredModel == IF prefs.model = Unset THEN DefaultModel ELSE prefs.model
\* settings/get.
CurrentSettings == [model |-> PreferredModel, enabled |-> prefs.enabled]
EffectiveWorkflow == [model |-> PreferredModel,
                      provider |-> ProviderFor(PreferredModel)]

ASSUME CatalogAssumption ==
    /\ \A p \in Providers : \A v \in DOMAIN Reaches[p] :
          Reaches[p][v] \subseteq Vendors[v]
    /\ \A p, q \in Providers : p # q => Catalog(p) \cap Catalog(q) = {}
    /\ BaseProvider \in Providers /\ DefaultModel \in Catalog(BaseProvider)
    /\ AuthKind \in [Providers -> {"oauth", "api_key"}]
ASSUME TaskAssumption ==
    /\ Nobody \notin Users
    /\ IsFiniteSet(Clients) /\ Curators \subseteq Clients
ASSUME BoundAssumption ==
    MaxToken \in Nat \ {0} /\ MaxNow \in Nat /\ MaxSets \in Nat /\ MaxFaults \in Nat

(***************************************************************************)
(* Credential files.                                                       *)
(***************************************************************************)
IsExpired(c, at) == at >= c.expires
Truncate(p) == file' = [file EXCEPT ![p] = Torn]
\* Both writers truncated before either wrote: the later write can leave the
\* tail of the earlier, longer one behind.
Written(p, c) == IF file[p] = Torn THEN {c} ELSE {c, Torn}
Write(p, c) == \E w \in Written(p, c) : file' = [file EXCEPT ![p] = w]
Fault == faults < MaxFaults /\ faults' = faults + 1

(***************************************************************************)
(* A task that needs a token.                                              *)
(*   idle -> call -> working | over                                        *)
(*   call -> wait -> helper -> rotated -> storing -> working | over        *)
(*   working -> parked -> call                                             *)
(***************************************************************************)
Resting == [pc |-> "idle", workflow |-> None, at |-> 0, seen |-> None,
            token |-> None]
Goes(u, s) == user' = [user EXCEPT ![u] = s]
\* The shape of "got a token": nothing is kept of the way there.
WorkingWith(u, c) == [user[u] EXCEPT !.pc = "working", !.seen = None, !.at = 0,
                                     !.token = c]
GivesUp(u) == [Resting EXCEPT !.pc = "over"]
Done(u) == [Resting EXCEPT !.pc = "done"]
\* The titler and the probe spawn a Worker only for a token; a Run goes on
\* without one and fails at the provider.
Answer(u, c) ==
    IF c = None /\ u \in Probes THEN GivesUp(u) ELSE WorkingWith(u, c)

Idle == [pc |-> "idle", provider |-> None, set |-> None]

Init ==
    /\ now = 0
    /\ \E c \in {None, Oauth(1, 1)} :
          file = [p \in Providers |->
                    IF LoginAllowed(p) THEN c ELSE None]
    /\ lock = Nobody
    /\ user = [u \in Users |-> Resting]
    /\ client = [c \in Clients |-> Idle]
    /\ latch = FALSE
    /\ issued = 1 /\ rotated = {}
    /\ prefs = [model |-> Unset, enabled |-> {}]
    /\ sets = 0 /\ faults = 0

\* An access token outlives the moment between a helper's answer and the
\* file that holds it: a bound on the clock, not on the tasks.
Stored(u) == user[u].pc \in {"rotated", "storing"}
             => ~IsExpired(user[u].token, now + 1)
LoginKept(c) == client[c].pc = "storing" => ~IsExpired(client[c].set, now + 1)
Tick ==
    /\ now < MaxNow /\ now' = now + 1
    /\ \A u \in Users : Stored(u)
    /\ \A c \in Clients : LoginKept(c)
    /\ UNCHANGED <<file, lock, user, client, latch, provider_side, settings,
                   faults>>

Rest == UNCHANGED <<now, client, latch, settings>>

\* A fresh Run resolves its Workflow and snapshots it with its row.
StartRun(r) ==
    /\ user[r].pc = "idle"
    /\ Goes(r, [Resting EXCEPT !.pc = "call", !.workflow = EffectiveWorkflow])
    /\ UNCHANGED <<file, lock, provider_side, faults>> /\ Rest

\* The titler of a new Thread, or provider/test of any known provider.
StartProbe(u) ==
    /\ user[u].pc = "idle"
    /\ \E p \in Providers : \E m \in Catalog(p) :
          Goes(u, [Resting EXCEPT !.pc = "call",
                                  !.workflow = [model |-> m, provider |-> p]])
    /\ UNCHANGED <<file, lock, provider_side, faults>> /\ Rest

\* resolve_access_token, as far as the lock.
ReadCredential(u) ==
    LET c == file[user[u].workflow.provider] IN
    /\ user[u].pc = "call"
    /\ \/ c = Torn /\ Goes(u, GivesUp(u))
       \/ c \in {None, Key} /\ Goes(u, Answer(u, c))
       \/ c.kind = "oauth" /\ ~IsExpired(c, now) /\ Goes(u, Answer(u, c))
       \/ /\ c.kind = "oauth" /\ IsExpired(c, now)
          /\ Goes(u, [user[u] EXCEPT !.pc = "wait", !.at = now, !.seen = c])
    /\ UNCHANGED <<file, lock, provider_side, faults>> /\ Rest

\* Mutant: the file is not read again under the lock.
NeverRefreshed(u, c) == FALSE
\* Another task refreshed while this one waited.
Refreshed(u, c) == c.kind = "oauth" /\ ~IsExpired(c, user[u].at)

\* The lock is taken and the file read again; failing that, the helper is
\* spawned with the refresh token read before the wait.
LockAndCheck(u) ==
    LET c == file[user[u].workflow.provider] IN
    /\ user[u].pc = "wait" /\ lock = Nobody
    /\ IF c = Torn THEN Goes(u, GivesUp(u)) /\ UNCHANGED lock
       ELSE IF Refreshed(u, c) THEN Goes(u, Answer(u, c)) /\ UNCHANGED lock
       ELSE Goes(u, [user[u] EXCEPT !.pc = "helper"]) /\ lock' = u
    /\ UNCHANGED <<file, provider_side, faults>> /\ Rest

\* The refresh token a task hands its helper, as its provider knows it.
Presents(u) == <<user[u].workflow.provider, user[u].seen.token>>

\* The provider exchanges a refresh token that is still good.
HelperRotates(u) ==
    /\ user[u].pc = "helper" /\ Presents(u) \notin rotated
    /\ issued < MaxToken /\ issued' = issued + 1
    /\ rotated' = rotated \cup {Presents(u)}
    /\ Goes(u, [user[u] EXCEPT !.pc = "rotated",
                               !.token = Oauth(issued + 1, now + 1)])
    /\ UNCHANGED <<file, lock, faults>> /\ Rest

\* The helper cannot start, reports an error, or ends without a result.
HelperFails(u) ==
    /\ user[u].pc = "helper"
    /\ Goes(u, GivesUp(u)) /\ lock' = Nobody
    /\ UNCHANGED <<file, provider_side, faults>> /\ Rest

\* credentials::write of the rotated credential; on failure the access token
\* in hand is dropped too.
OpenRotated(u) ==
    /\ user[u].pc = "rotated"
    /\ Truncate(user[u].workflow.provider)
    /\ Goes(u, [user[u] EXCEPT !.pc = "storing"])
    /\ UNCHANGED <<lock, provider_side, faults>> /\ Rest
StoreRotated(u) ==
    /\ user[u].pc = "storing"
    /\ Write(user[u].workflow.provider, user[u].token)
    /\ Goes(u, Answer(u, user[u].token)) /\ lock' = Nobody
    /\ UNCHANGED <<provider_side, faults>> /\ Rest
StoreFails(u) ==
    /\ user[u].pc \in {"rotated", "storing"} /\ Fault
    /\ Goes(u, GivesUp(u)) /\ lock' = Nobody
    /\ UNCHANGED <<file, provider_side>> /\ Rest

Park(r) ==
    /\ user[r].pc = "working"
    /\ Goes(r, [user[r] EXCEPT !.pc = "parked", !.token = None])
    /\ UNCHANGED <<file, lock, provider_side, faults>> /\ Rest
\* Mutant: resolves the settings again.
ResumeResolved(r) == EffectiveWorkflow
\* run_workflow_snapshot: what was stored when the Run was created.
ResumeWorkflow(r) == user[r].workflow
Resume(r) ==
    /\ user[r].pc = "parked"
    /\ Goes(r, [user[r] EXCEPT !.pc = "call", !.workflow = ResumeWorkflow(r)])
    /\ UNCHANGED <<file, lock, provider_side, faults>> /\ Rest
\* run/retry of an errored Run: its snapshot is taken anew.
ResnapshotRunWorkflow(r) == [Resting EXCEPT !.pc = "call", !.workflow = EffectiveWorkflow]
Retry(r) ==
    /\ user[r].pc = "over"
    /\ Goes(r, ResnapshotRunWorkflow(r))
    /\ UNCHANGED <<file, lock, provider_side, faults>> /\ Rest
\* The Worker ends: the Run is completed or errored.
FinishRun(r) ==
    /\ user[r].pc = "working"
    /\ Goes(r, GivesUp(r)) \/ Goes(r, Done(r))
    /\ UNCHANGED <<file, lock, provider_side, faults>> /\ Rest
\* One answer, an error or no answer in time: the one-shot Worker is killed.
FinishProbe(u) ==
    /\ user[u].pc = "working"
    /\ Goes(u, GivesUp(u))
    /\ UNCHANGED <<file, lock, provider_side, faults>> /\ Rest

(***************************************************************************)
(* A connection: provider/login_start, provider/configure, settings/set.   *)
(*   idle -> started -> redirected -> storing -> done -> idle     login    *)
(***************************************************************************)
To(c, s) == client' = [client EXCEPT ![c].pc = s]
Becomes(c, s) == client' = [client EXCEPT ![c] = s]
Others == UNCHANGED <<now, user, lock>>

\* One login at a time: its helper binds a fixed port.
LoginStart(c, p) ==
    /\ client[c].pc = "idle" /\ LoginAllowed(p) /\ ~latch
    /\ latch' = TRUE
    /\ Becomes(c, [Idle EXCEPT !.pc = "started", !.provider = p])
    /\ UNCHANGED <<file, provider_side, settings, faults>> /\ Others

\* No launch command, no process, no stdout, an error line or the end of the
\* output before the URL.
LoginRefused(c) ==
    /\ client[c].pc = "started"
    /\ latch' = FALSE /\ Becomes(c, Idle)
    /\ UNCHANGED <<file, provider_side, settings, faults>> /\ Others

\* The reply carries the URL; a task of its own reads on.
Redirect(c) ==
    /\ client[c].pc = "started" /\ To(c, "redirected")
    /\ UNCHANGED <<file, latch, provider_side, settings, faults>> /\ Others

\* The browser came back: new tokens, of a grant of their own.
LoginReturns(c) ==
    /\ client[c].pc = "redirected"
    /\ issued < MaxToken /\ issued' = issued + 1
    /\ Becomes(c, [client[c] EXCEPT !.pc = "storing",
                                   !.set = Oauth(issued + 1, now + 1)])
    /\ Truncate(client[c].provider)
    /\ UNCHANGED <<latch, rotated, settings, faults>> /\ Others
LoginStored(c) ==
    /\ client[c].pc = "storing"
    /\ \/ Write(client[c].provider, client[c].set) /\ UNCHANGED faults
       \/ Fault /\ UNCHANGED file
    /\ Becomes(c, [client[c] EXCEPT !.pc = "done", !.set = None])
    /\ UNCHANGED <<latch, provider_side, settings>> /\ Others
\* An error line, or the end of the output without credentials.
LoginAbandoned(c) ==
    /\ client[c].pc = "redirected" /\ To(c, "done")
    /\ UNCHANGED <<file, latch, provider_side, settings, faults>> /\ Others
\* Mutant: only a login that stored something gives the slot back.
ReleaseOnSuccess(c) == IF \E p \in Providers : file[p].kind = "oauth"
                       THEN FALSE ELSE latch
ReleaseLatch(c) == FALSE
LoginEnds(c) ==
    /\ client[c].pc = "done"
    /\ latch' = ReleaseLatch(c) /\ Becomes(c, Idle)
    /\ UNCHANGED <<file, provider_side, settings, faults>> /\ Others

\* Mutant: any provider of the registry takes a key.
AcceptsAnyKey(p) == TRUE
AcceptsKey(p) == IsConfigurable(p)
\* provider/configure of a key that is not blank.
Configure(c, p) ==
    /\ client[c].pc = "idle" /\ AcceptsKey(p)
    /\ Truncate(p)
    /\ Becomes(c, [pc |-> "configuring", provider |-> p, set |-> Key])
    /\ UNCHANGED <<latch, provider_side, settings, faults>> /\ Others
Configured(c) ==
    /\ client[c].pc = "configuring"
    /\ \/ Write(client[c].provider, client[c].set) /\ UNCHANGED faults
       \/ Fault /\ UNCHANGED file
    /\ Becomes(c, Idle)
    /\ UNCHANGED <<latch, provider_side, settings>> /\ Others

\* What a settings/set request may carry: a set of models that are enabled
\* (the empty one: all of them) and a preferred model, either left out.
SetRequests == [enabled : {Unset} \cup {<<e>> : e \in SUBSET Models},
                model : {Unset} \cup Models]

\* Mutant: a model that is not submitted is not looked at.
SubmittedOnly(q) == q.model
EffectiveModel(q) == IF q.model # Unset THEN q.model ELSE PreferredModel
EffectiveEnabled(q) == IF q.enabled # Unset THEN q.enabled[1] ELSE prefs.enabled
Admissible(q) ==
    LET m == EffectiveModel(q)  e == EffectiveEnabled(q) IN
    e = {} \/ m = Unset \/ m \in e

\* Validated against the stored rows before anything is written.
SetSettings(c, q) ==
    /\ client[c].pc = "idle" /\ sets < MaxSets /\ sets' = sets + 1
    /\ q.enabled # Unset \/ q.model # Unset
    /\ Admissible(q)
    /\ Becomes(c, [Idle EXCEPT !.pc = "enabling", !.set = q])
    /\ UNCHANGED <<file, latch, provider_side, prefs, faults>> /\ Others
WriteEnabled(c) ==
    LET e == client[c].set.enabled IN
    /\ client[c].pc = "enabling" /\ To(c, "preferring")
    /\ prefs' = [prefs EXCEPT !.enabled = IF e = Unset THEN @ ELSE e[1]]
    /\ UNCHANGED <<file, latch, provider_side, sets, faults>> /\ Others
WriteModel(c) ==
    LET m == client[c].set.model IN
    /\ client[c].pc = "preferring"
    /\ prefs' = [prefs EXCEPT !.model = IF m = Unset THEN @ ELSE m]
    /\ Becomes(c, Idle)
    /\ UNCHANGED <<file, latch, provider_side, sets, faults>> /\ Others
SetFails(c) ==
    /\ client[c].pc \in {"enabling", "preferring"} /\ Fault
    /\ Becomes(c, Idle)
    /\ UNCHANGED <<file, latch, provider_side, settings>> /\ Others

\* Core restarts: every task, lock and latch is gone; Runs that were driven
\* are errored (their part is in Conversation), parked ones are kept.
Crash ==
    /\ Fault
    /\ lock' = Nobody /\ latch' = FALSE
    /\ user' = [u \in Users |->
                  IF user[u].pc \in {"idle", "parked", "done"} THEN user[u]
                  ELSE GivesUp(u)]
    /\ client' = [c \in Clients |-> Idle]
    /\ UNCHANGED <<now, file, provider_side, settings>>

Tokens(u) == ReadCredential(u) \/ LockAndCheck(u) \/ HelperRotates(u)
    \/ HelperFails(u) \/ OpenRotated(u) \/ StoreRotated(u) \/ StoreFails(u)
Login(c) == LoginRefused(c) \/ Redirect(c) \/ LoginReturns(c)
    \/ LoginStored(c) \/ LoginAbandoned(c) \/ LoginEnds(c) \/ Configured(c)
    \/ \E p \in Providers : LoginStart(c, p) \/ Configure(c, p)
Curate(c) == WriteEnabled(c) \/ WriteModel(c) \/ SetFails(c)
    \/ \E q \in SetRequests : SetSettings(c, q)

Next ==
    \/ Tick \/ Crash
    \/ \E u \in Users : Tokens(u)
    \/ \E r \in Runs : StartRun(r) \/ Park(r) \/ Resume(r) \/ Retry(r)
                        \/ FinishRun(r)
    \/ \E u \in Probes : StartProbe(u) \/ FinishProbe(u)
    \/ \E c \in Clients : Login(c)
    \/ \E c \in Curators : Curate(c)

SpecAccounts == Init /\ [][Next]_vars

(***************************************************************************)
(* Properties.                                                             *)
(***************************************************************************)
\* Every file holds nothing, junk, or a credential of the kind the registry
\* gives its provider: an API key never takes the place of a login, which
\* would send a key to the OAuth provider and lose the refresh token
\* (is_configurable and login_allowed against credentials::write).
TypeOK ==
    /\ now \in 0..MaxNow /\ issued \in 1..MaxToken
    /\ rotated \subseteq Providers \X (1..issued)
    /\ \A p \in Providers : file[p].kind \in {"none", "torn", AuthKind[p]}
    /\ lock \in Users \cup {Nobody} /\ latch \in BOOLEAN
    /\ \A u \in Users : user[u].pc \in
          {"idle", "call", "wait", "helper", "rotated", "storing", "working",
           "parked", "over", "done"}
    /\ \A c \in Clients : client[c].pc \in
          {"idle", "started", "redirected", "storing", "done", "configuring",
           "enabling", "preferring"}
    /\ prefs.enabled \subseteq Models /\ prefs.model \in {Unset} \cup Models
    /\ sets \in 0..MaxSets /\ faults \in 0..MaxFaults

\* A refresh token that the provider has rotated is never presented again,
\* however many Runs, titlers and probes find the access token expired at
\* once and whatever a login writes meanwhile, as long as no write fails and
\* Core does not die in between: the promise of refresh_lock.  It needs the
\* bound on Tick: the check under the lock looks at a clock read before it, and
\* failing it the helper gets the refresh token read before it.
RefreshUsedOnce ==
    [][faults = 0 => \A u \in Users :
          user'[u].pc = "helper" /\ user[u].pc # "helper"
          => Presents(u) \notin rotated]_vars

\* The login slot is taken exactly while one login is under way, whichever
\* way the last one ended: never leaked, never shared.
HoldsLatch(c) == client[c].pc \in {"started", "redirected", "storing", "done"}
LatchHasOneOwner ==
    Cardinality({c \in Clients : HoldsLatch(c)}) = (IF latch THEN 1 ELSE 0)

\* A Run that waits for a decision goes on with the model and the provider it
\* began with, whatever settings/set has stored since.
RunKeepsItsModel ==
    [][\A r \in Runs : user[r].pc \notin {"idle", "over"}
          => user'[r].workflow = user[r].workflow \/ user'[r].pc \in {"over", "done"}]_vars

\* Between requests of the one Client that curates, the preferred model is one
\* of the enabled models unless all are, provided no write failed half way:
\* the rule settings/set checks against two rows it reads and writes apart.
Curating == \E c \in Clients : client[c].pc \in {"enabling", "preferring"}
StoredDefaultIsEnabled ==
    CurrentSettings.enabled = {} \/ CurrentSettings.model \in CurrentSettings.enabled
DefaultIsEnabled == faults = 0 /\ ~Curating => StoredDefaultIsEnabled

\* What requests leave behind of what they share: credentials of the right
\* kind, a free login slot and a preferred model that is enabled
\* (runs/provider.rs, runs/settings.rs).
BetweenRequests == TypeOK /\ LatchHasOneOwner /\ DefaultIsEnabled

\* What the comment in settings/set says of a partial write.  Does not hold.
NeverStranded == ~Curating => StoredDefaultIsEnabled
=============================================================================
