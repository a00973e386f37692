--------------------------- MODULE Accounts_proofs ---------------------------
(***************************************************************************)
(* Theorems about Accounts: for any number of Runs, probes, connections    *)
(* and providers, and any bounds, credentials keep their kind, one login   *)
(* is under way at a time, a refresh token is not presented again once it  *)
(* has been rotated, and a Run keeps the model it was started with.        *)
(*                                                                         *)
(* The argument: a token that a task or a login has in hand, and has not   *)
(* stored yet, is not known to anybody else (Unread), and outlives every   *)
(* clock that was read before it (Outlives).  So a task that waits for the *)
(* lock with a token that has been rotated meanwhile finds, once the lock  *)
(* is free, either a torn file or a credential newer than its own clock    *)
(* (Noticed).                                                              *)
(***************************************************************************)
EXTENDS Accounts, FiniteSetTheorems, TLAPS

(***************************************************************************)
(* Types.                                                                  *)
(***************************************************************************)
Credentials == [kind : {"oauth"}, token : Nat, expires : Nat]
Contents == Credentials \cup {None, Torn, Key}
UserPcs == {"idle", "call", "wait", "helper", "rotated", "storing", "working",
            "parked", "over", "done"}
ClientPcs == {"idle", "started", "redirected", "storing", "done",
              "configuring", "enabling", "preferring"}
Workflow == [model : Models, provider : Providers]
UserRecord == [pc : UserPcs, workflow : Workflow \cup {None}, at : Nat,
               seen : Credentials \cup {None}, token : Credentials \cup {None, Key}]
ClientRecord == [pc : ClientPcs, provider : Providers \cup {None},
                 set : Credentials \cup {None, Key} \cup SetRequests]

Typed ==
    /\ now \in 0..MaxNow /\ issued \in 1..MaxToken
    /\ rotated \subseteq Providers \X (1..issued)
    /\ lock \in Users \cup {Nobody} /\ latch \in BOOLEAN
    /\ sets \in 0..MaxSets /\ faults \in 0..MaxFaults
    /\ file \in [Providers -> Contents]
    /\ user \in [Users -> UserRecord]
    /\ client \in [Clients -> ClientRecord]
    /\ prefs \in [model : {Unset} \cup Models, enabled : SUBSET Models]

Provider(u) == user[u].workflow.provider
Refreshing == {"wait", "helper", "rotated", "storing"}
Holding == {"rotated", "storing"}
LoggingIn == {"started", "redirected", "storing", "done"}

\* What a task, a connection and a file hold fits where they are.
FitsTask(s, n) ==
    /\ s.pc \notin {"idle", "over", "done"} => s.workflow \in Workflow
    /\ s.pc \in Refreshing =>
          /\ LoginAllowed(s.workflow.provider)
          /\ s.seen \in Credentials /\ s.seen.token \in 1..n
    /\ s.pc \in Holding => s.token \in Credentials /\ s.token.token \in 1..n
FitsConnection(c, s, n) ==
    /\ s.pc \in LoggingIn => s.provider \in Providers /\ LoginAllowed(s.provider)
    /\ s.pc = "storing" => s.set \in Credentials /\ s.set.token \in 1..n
    /\ s.pc = "configuring" =>
          s.provider \in Providers /\ IsConfigurable(s.provider) /\ s.set = Key
    /\ s.pc \in {"enabling", "preferring"} => c \in Curators /\ s.set \in SetRequests
FitsFile(p, f, n) ==
    /\ f.kind \in {"none", "torn", AuthKind[p]}
    /\ f.kind = "oauth" => f.token \in 1..n
Kinds ==
    /\ \A p \in Providers : FitsFile(p, file[p], issued)
    /\ \A u \in Users : FitsTask(user[u], issued)
    /\ \A c \in Clients : FitsConnection(c, client[c], issued)

(***************************************************************************)
(* Locks.                                                                  *)
(***************************************************************************)
LockHeld ==
    \A u \in Users : user[u].pc \in {"helper", "rotated", "storing"} <=> lock = u
LatchHeld ==
    /\ \A c, d \in Clients : HoldsLatch(c) /\ HoldsLatch(d) => c = d
    /\ latch <=> \E c \in Clients : HoldsLatch(c)

(***************************************************************************)
(* Tokens.                                                                 *)
(***************************************************************************)
\* A token of provider p that the file, a task or the provider has seen used.
Known(p, n) ==
    \/ <<p, n>> \in rotated
    \/ file[p].kind = "oauth" /\ file[p].token = n
    \/ \E u \in Users : user[u].pc \in Refreshing /\ Presents(u) = <<p, n>>
Unread ==
    /\ \A u \in Users : user[u].pc \in Holding
          => ~Known(Provider(u), user[u].token.token)
    /\ \A c \in Clients : client[c].pc = "storing"
          => ~Known(client[c].provider, client[c].set.token)
    /\ \A u \in Users, c \in Clients :
          user[u].pc \in Holding /\ client[c].pc = "storing"
          => user[u].token.token # client[c].set.token
Outlives ==
    /\ \A u \in Users : user[u].pc = "wait" => user[u].at <= now
    /\ \A u \in Users : user[u].pc \in Holding => now < user[u].token.expires
    /\ \A c \in Clients : client[c].pc = "storing" => now < client[c].set.expires
\* A file shows a rotated token only until the one who rotated it has opened it.
ShowsRotated ==
    faults = 0 => \A p \in Providers :
        file[p].kind = "oauth" /\ <<p, file[p].token>> \in rotated
        => \E v \in Users : user[v].pc = "rotated" /\ Provider(v) = p
\* A task that waits with a rotated token will notice.
Newer(u) == file[Provider(u)].kind = "oauth"
            /\ user[u].at < file[Provider(u)].expires
Noticed ==
    faults = 0 => \A u \in Users :
        user[u].pc = "wait" /\ Presents(u) \in rotated
        => \/ file[Provider(u)] = Torn \/ Newer(u)
           \/ \E v \in Users : user[v].pc \in Holding /\ Provider(v) = Provider(u)

TokenFacts == Unread /\ Outlives /\ ShowsRotated /\ Noticed

\* The inductive invariant.
IInv == Typed /\ Kinds /\ LockHeld /\ LatchHeld /\ TokenFacts

(***************************************************************************)
(* Settings.                                                               *)
(***************************************************************************)
OneCurator == \A c, d \in Curators : c = d
Stands(e, m) == e = {} \/ m \in e
Curated ==
    faults = 0 =>
        /\ ~Curating => Stands(prefs.enabled, PreferredModel)
        /\ \A c \in Clients : client[c].pc = "enabling" =>
              Stands(EffectiveEnabled(client[c].set), EffectiveModel(client[c].set))
        /\ \A c \in Clients : client[c].pc = "preferring" =>
              Stands(prefs.enabled, EffectiveModel(client[c].set))

(***************************************************************************)
(* What the operators return.                                              *)
(***************************************************************************)
\* The catalog and the registry: every model has a provider, and no model is
\* the empty id that stands for "not set".
LEMMA ModelHasProvider ==
    /\ \A m \in Models : m # Unset
    /\ \A m : ProviderFor(m) \in Providers
    /\ DefaultModel \in Models
<1>1. ASSUME NEW m \in Models PROVE m # Unset
  <2>1. PICK p \in Providers : m \in Catalog(p)
    BY DEF Models
  <2>2. PICK v \in DOMAIN Reaches[p] :
          m \in {IF p \in Prefixed THEN <<v, k>> ELSE <<k>> : k \in Reaches[p][v]}
    BY <2>1 DEF Catalog
  <2>3. PICK k \in Reaches[p][v] : m = IF p \in Prefixed THEN <<v, k>> ELSE <<k>>
    BY <2>2
  <2> QED BY <2>3 DEF Unset
<1>2. ASSUME NEW m PROVE ProviderFor(m) \in Providers
  <2>1. CASE m \in Models
    <3>1. \E p \in Providers : m \in Catalog(p)
      BY <2>1 DEF Models
    <3> QED BY <2>1, <3>1 DEF ProviderFor, IsKnownModel
  <2>2. CASE m \notin Models
    BY <2>2, CatalogAssumption DEF ProviderFor, IsKnownModel
  <2> QED BY <2>1, <2>2
<1>3. DefaultModel \in Models
  BY CatalogAssumption DEF Models
<1> QED BY <1>1, <1>2, <1>3

LEMMA WorkflowTyped == ASSUME Typed PROVE EffectiveWorkflow \in Workflow
<1>1. PreferredModel \in Models
  BY ModelHasProvider DEF Typed, PreferredModel
<1>2. ProviderFor(PreferredModel) \in Providers
  BY ModelHasProvider
<1> QED BY <1>1, <1>2 DEF EffectiveWorkflow, Workflow

\* A settings request names models, and what it leaves out stays as stored.
LEMMA RequestTyped ==
    ASSUME Typed, NEW q \in SetRequests
    PROVE  /\ EffectiveEnabled(q) \in SUBSET Models
           /\ EffectiveModel(q) \in Models
           /\ q.model \in {Unset} \cup Models
<1>1. q.enabled \in {Unset} \cup {<<e>> : e \in SUBSET Models}
      /\ q.model \in {Unset} \cup Models
  BY DEF SetRequests
<1>2. CASE q.enabled = Unset
  <2>1. EffectiveEnabled(q) = prefs.enabled
    BY <1>2 DEF EffectiveEnabled
  <2> QED BY <1>1, <2>1, ModelHasProvider
          DEF Typed, EffectiveModel, PreferredModel
<1>3. CASE q.enabled # Unset
  <2>1. PICK e \in SUBSET Models : q.enabled = <<e>>
    BY <1>1, <1>3
  <2>2. EffectiveEnabled(q) = e
    BY <1>3, <2>1 DEF EffectiveEnabled
  <2> QED BY <1>1, <2>2, ModelHasProvider
          DEF Typed, EffectiveModel, PreferredModel
<1> QED BY <1>2, <1>3

\* What a file shows, by its kind.
LEMMA ContentsByKind ==
    ASSUME NEW f \in Contents
    PROVE  /\ f.kind = "oauth" <=> f \in Credentials
           /\ f \in {None, Torn, Key} => f.kind # "oauth"
           /\ f \notin {None, Torn, Key} => f.kind = "oauth"
BY DEF Contents, Credentials, None, Torn, Key

LEMMA OauthTyped ==
    ASSUME NEW n \in Nat, NEW t \in Nat
    PROVE  /\ Oauth(n, t) \in Credentials /\ Oauth(n, t).kind = "oauth"
           /\ Oauth(n, t).token = n /\ Oauth(n, t).expires = t
BY DEF Oauth, Credentials

LEMMA RestingTyped ==
    /\ Resting \in UserRecord /\ Resting.pc = "idle"
    /\ \A w \in Workflow : \A u :
          LET s == [Resting EXCEPT !.pc = "call", !.workflow = w] IN
          s \in UserRecord /\ s.pc = "call" /\ s.workflow = w
    /\ \A u : GivesUp(u) \in UserRecord /\ GivesUp(u).pc = "over"
    /\ \A u : Done(u) \in UserRecord /\ Done(u).pc = "done"
BY DEF Resting, UserRecord, UserPcs, GivesUp, Done

(***************************************************************************)
(* Effects of the three ways to write: a task moves, a connection moves, a  *)
(* file is written.                                                        *)
(***************************************************************************)
LEMMA TaskMoves ==
    ASSUME Typed, Kinds, NEW u \in Users, NEW s \in UserRecord, Goes(u, s),
           issued' \in Nat, issued <= issued', FitsTask(s, issued')
    PROVE  /\ user' \in [Users -> UserRecord] /\ user'[u] = s
           /\ \A v \in Users : v # u => user'[v] = user[v]
           /\ \A v \in Users : FitsTask(user'[v], issued')
<1>1. user' \in [Users -> UserRecord] /\ user'[u] = s
      /\ \A v \in Users : v # u => user'[v] = user[v]
  BY DEF Typed, Goes
<1>2. ASSUME NEW v \in Users PROVE FitsTask(user'[v], issued')
  <2>1. CASE v = u
    BY <1>1, <2>1
  <2>2. CASE v # u
    <3>1. user'[v] = user[v] /\ FitsTask(user[v], issued) /\ issued \in Nat
      BY <1>1, <2>2 DEF Kinds, Typed
    <3> QED BY <3>1 DEF FitsTask
  <2> QED BY <2>1, <2>2
<1> QED BY <1>1, <1>2

LEMMA ConnectionMoves ==
    ASSUME Typed, Kinds, NEW c \in Clients, NEW s \in ClientRecord, Becomes(c, s),
           issued' \in Nat, issued <= issued', FitsConnection(c, s, issued')
    PROVE  /\ client' \in [Clients -> ClientRecord] /\ client'[c] = s
           /\ \A d \in Clients : d # c => client'[d] = client[d]
           /\ \A d \in Clients : FitsConnection(d, client'[d], issued')
<1>1. client' \in [Clients -> ClientRecord] /\ client'[c] = s
      /\ \A d \in Clients : d # c => client'[d] = client[d]
  BY DEF Typed, Becomes
<1>2. ASSUME NEW d \in Clients PROVE FitsConnection(d, client'[d], issued')
  <2>1. CASE d = c
    BY <1>1, <2>1
  <2>2. CASE d # c
    <3>1. client'[d] = client[d] /\ FitsConnection(d, client[d], issued)
          /\ issued \in Nat
      BY <1>1, <2>2 DEF Kinds, Typed
    <3> QED BY <3>1 DEF FitsConnection
  <2> QED BY <2>1, <2>2
<1> QED BY <1>1, <1>2

LEMMA FileMoves ==
    ASSUME Typed, Kinds, NEW p \in Providers, NEW f \in Contents,
           file' = [file EXCEPT ![p] = f],
           issued' \in Nat, issued <= issued', FitsFile(p, f, issued')
    PROVE  /\ file' \in [Providers -> Contents] /\ file'[p] = f
           /\ \A q \in Providers : q # p => file'[q] = file[q]
           /\ \A q \in Providers : FitsFile(q, file'[q], issued')
<1>1. file' \in [Providers -> Contents] /\ file'[p] = f
      /\ \A q \in Providers : q # p => file'[q] = file[q]
  BY DEF Typed
<1>2. ASSUME NEW q \in Providers PROVE FitsFile(q, file'[q], issued')
  <2>1. CASE q = p
    BY <1>1, <2>1
  <2>2. CASE q # p
    <3>1. file'[q] = file[q] /\ FitsFile(q, file[q], issued) /\ issued \in Nat
      BY <1>1, <2>2 DEF Kinds, Typed
    <3> QED BY <3>1 DEF FitsFile
  <2> QED BY <2>1, <2>2
<1> QED BY <1>1, <1>2

\* What a step that leaves a variable alone keeps of Typed and Kinds, while
\* the count of issued tokens can only grow.
LEMMA Kept ==
    ASSUME Typed, Kinds, issued' \in Nat, issued <= issued'
    PROVE  /\ user' = user => user' \in [Users -> UserRecord]
                              /\ \A u \in Users : FitsTask(user'[u], issued')
           /\ client' = client => client' \in [Clients -> ClientRecord]
                 /\ \A c \in Clients : FitsConnection(c, client'[c], issued')
           /\ file' = file => file' \in [Providers -> Contents]
                 /\ \A p \in Providers : FitsFile(p, file'[p], issued')
<1> issued \in Nat
  BY DEF Typed
<1>1. ASSUME user' = user, NEW u \in Users PROVE FitsTask(user'[u], issued')
  <2>1. FitsTask(user[u], issued) /\ user'[u] = user[u]
    BY <1>1 DEF Kinds
  <2> QED BY <2>1 DEF FitsTask
<1>2. ASSUME client' = client, NEW c \in Clients
      PROVE  FitsConnection(c, client'[c], issued')
  <2>1. FitsConnection(c, client[c], issued) /\ client'[c] = client[c]
    BY <1>2 DEF Kinds
  <2> QED BY <2>1 DEF FitsConnection
<1>3. ASSUME file' = file, NEW p \in Providers PROVE FitsFile(p, file'[p], issued')
  <2>1. FitsFile(p, file[p], issued) /\ file'[p] = file[p]
    BY <1>3 DEF Kinds
  <2> QED BY <2>1 DEF FitsFile
<1> QED BY <1>1, <1>2, <1>3 DEF Typed

\* The answer to "which token" ends the way to it.
LEMMA AnswerTyped ==
    ASSUME Typed, Kinds, NEW u \in Users, NEW c \in Credentials \cup {None, Key},
           user[u].pc \in {"call", "wait", "helper", "rotated", "storing"}
    PROVE  /\ Answer(u, c) \in UserRecord
           /\ Answer(u, c).pc \in {"working", "over"}
           /\ Answer(u, c).workflow \in {user[u].workflow, None}
           /\ Answer(u, c).pc = "working" => Answer(u, c).workflow = user[u].workflow
           /\ \A n : FitsTask(Answer(u, c), n)
<1>1. user[u] \in UserRecord /\ user[u].workflow \in Workflow
  BY DEF Typed, Kinds, FitsTask
<1>2. CASE c = None /\ u \in Probes
  <2>1. Answer(u, c) = GivesUp(u) /\ GivesUp(u).workflow = None
    BY <1>2 DEF Answer, GivesUp, Resting
  <2>2. GivesUp(u) \in UserRecord /\ GivesUp(u).pc = "over"
    BY RestingTyped
  <2> QED BY <2>1, <2>2 DEF FitsTask, Refreshing, Holding
<1>3. CASE ~(c = None /\ u \in Probes)
  <2>1. PICK r \in UserRecord : r = user[u]
    BY <1>1
  <2>1a. Answer(u, c) = [r EXCEPT !.pc = "working", !.seen = None, !.at = 0,
                                  !.token = c]
    BY <1>3, <2>1 DEF Answer, WorkingWith
  <2>2. Answer(u, c) \in UserRecord /\ Answer(u, c).pc = "working"
        /\ Answer(u, c).workflow = user[u].workflow
    <3>1. r = [pc |-> r.pc, workflow |-> r.workflow, at |-> r.at,
               seen |-> r.seen, token |-> r.token]
          /\ r.workflow \in Workflow \cup {None}
      BY DEF UserRecord
    <3>2. Answer(u, c) = [pc |-> "working", workflow |-> r.workflow, at |-> 0,
                          seen |-> None, token |-> c]
      BY <2>1a, <3>1
    <3>3. Answer(u, c) \in UserRecord
      BY <3>1, <3>2 DEF UserRecord, UserPcs
    <3> QED BY <2>1, <3>2, <3>3
  <2> QED BY <1>1, <2>2 DEF FitsTask, Refreshing, Holding
<1> QED BY <1>2, <1>3

\* At most one file is written, with what fits there.
OneFileChanges ==
    \/ file' = file
    \/ \E p \in Providers : \E f \in Contents :
          FitsFile(p, f, issued') /\ file' = [file EXCEPT ![p] = f]

LEMMA TaskStep ==
    ASSUME Typed, Kinds, NEW u \in Users, NEW s \in UserRecord, Goes(u, s), Rest,
           issued' \in 1..MaxToken, issued <= issued', FitsTask(s, issued'),
           lock' \in Users \cup {Nobody}, faults' \in 0..MaxFaults,
           rotated' \subseteq Providers \X (1..issued'),
           OneFileChanges
    PROVE  Typed' /\ Kinds'
<1> issued' \in Nat
  OBVIOUS
<1>1. user' \in [Users -> UserRecord] /\ \A v \in Users : FitsTask(user'[v], issued')
  BY TaskMoves
<1>2. client' \in [Clients -> ClientRecord]
      /\ \A c \in Clients : FitsConnection(c, client'[c], issued')
  BY Kept DEF Rest
<1>3. file' \in [Providers -> Contents]
      /\ \A p \in Providers : FitsFile(p, file'[p], issued')
  <2>1. CASE file' = file
    BY <2>1, Kept
  <2>2. CASE file' # file
    <3>1. PICK p \in Providers, f \in Contents :
            FitsFile(p, f, issued') /\ file' = [file EXCEPT ![p] = f]
      BY <2>2 DEF OneFileChanges
    <3> QED BY <3>1, FileMoves
  <2> QED BY <2>1, <2>2
<1>4. Typed'
  BY <1>1, <1>2, <1>3 DEF Typed, Rest, settings
<1>5. Kinds'
  BY <1>1, <1>2, <1>3 DEF Kinds
<1> QED BY <1>4, <1>5

LEMMA ConnectionStep ==
    ASSUME Typed, Kinds, NEW c \in Clients, NEW s \in ClientRecord, Becomes(c, s),
           Others, issued' \in 1..MaxToken, issued <= issued',
           FitsConnection(c, s, issued'), UNCHANGED rotated,
           latch' \in BOOLEAN, faults' \in 0..MaxFaults, sets' \in 0..MaxSets,
           prefs' \in [model : {Unset} \cup Models, enabled : SUBSET Models],
           OneFileChanges
    PROVE  Typed' /\ Kinds'
<1> issued' \in Nat
  OBVIOUS
<1>1. user' \in [Users -> UserRecord] /\ \A v \in Users : FitsTask(user'[v], issued')
  BY Kept DEF Others
<1>2. client' \in [Clients -> ClientRecord]
      /\ \A d \in Clients : FitsConnection(d, client'[d], issued')
  BY ConnectionMoves
<1>3. file' \in [Providers -> Contents]
      /\ \A p \in Providers : FitsFile(p, file'[p], issued')
  <2>1. CASE file' = file
    BY <2>1, Kept
  <2>2. CASE file' # file
    <3>1. PICK p \in Providers, f \in Contents :
            FitsFile(p, f, issued') /\ file' = [file EXCEPT ![p] = f]
      BY <2>2 DEF OneFileChanges
    <3> QED BY <3>1, FileMoves
  <2> QED BY <2>1, <2>2
<1>4. rotated' \subseteq Providers \X (1..issued')
  BY DEF Typed
<1>5. Typed'
  BY <1>1, <1>2, <1>3, <1>4 DEF Typed, Others
<1>6. Kinds'
  BY <1>1, <1>2, <1>3 DEF Kinds
<1> QED BY <1>5, <1>6

\* What a write leaves in a file is the credential or torn.
LEMMA WriteTyped ==
    ASSUME Typed, NEW p \in Providers, NEW x \in Contents, NEW n,
           FitsFile(p, x, n), Write(p, x)
    PROVE  \E f \in Contents : /\ f \in {x, Torn} /\ FitsFile(p, f, n)
                               /\ file' = [file EXCEPT ![p] = f]
<1>1. PICK f \in {x, Torn} : file' = [file EXCEPT ![p] = f]
  BY DEF Write, Written
<1>2. Torn \in Contents /\ FitsFile(p, Torn, n)
  BY DEF Contents, FitsFile, Torn
<1> QED BY <1>1, <1>2

LEMMA TruncateTyped ==
    ASSUME Typed, NEW p \in Providers, NEW n, Truncate(p)
    PROVE  \E f \in Contents : FitsFile(p, f, n) /\ file' = [file EXCEPT ![p] = f]
BY DEF Contents, FitsFile, Torn, Truncate

\* What a task that waits, refreshes or stores has in hand.
LEMMA InRefresh ==
    ASSUME Typed, Kinds, NEW u \in Users, user[u].pc \in Refreshing
    PROVE  /\ user[u] \in UserRecord /\ user[u].workflow \in Workflow
           /\ Provider(u) \in Providers /\ AuthKind[Provider(u)] = "oauth"
           /\ user[u].seen \in Credentials /\ user[u].seen.token \in 1..issued
           /\ user[u].pc \in Holding =>
                 user[u].token \in Credentials /\ user[u].token.token \in 1..issued
<1>1. user[u] \in UserRecord /\ FitsTask(user[u], issued)
  BY DEF Typed, Kinds
<1> QED BY <1>1 DEF FitsTask, Refreshing, Holding, Workflow, Provider, LoginAllowed

(***************************************************************************)
(* Types are kept.                                                         *)
(***************************************************************************)
\* What a task does on its way to a token and after it.
LEMMA TokensTyped ==
    ASSUME Typed, Kinds, NEW u \in Users, Tokens(u)
    PROVE  Typed' /\ Kinds'
<1> issued \in 1..MaxToken /\ issued \in Nat /\ now \in Nat /\ MaxToken \in Nat
    /\ lock \in Users \cup {Nobody} /\ faults \in 0..MaxFaults
    /\ MaxFaults \in Nat /\ rotated \subseteq Providers \X (1..issued)
  BY BoundAssumption DEF Typed
<1>g. GivesUp(u) \in UserRecord /\ FitsTask(GivesUp(u), issued)
  <2>1. GivesUp(u) \in UserRecord /\ GivesUp(u).pc = "over"
    BY RestingTyped
  <2> QED BY <2>1 DEF FitsTask, Refreshing, Holding
<1>1. CASE ReadCredential(u)
  <2> DEFINE c == file[user[u].workflow.provider]
  <2>0. user[u] \in UserRecord /\ user[u].workflow \in Workflow /\ user[u].pc = "call"
        /\ UNCHANGED <<file, lock, provider_side, faults>> /\ Rest
    BY <1>1 DEF ReadCredential, Typed, Kinds, FitsTask
  <2>1. c \in Contents /\ FitsFile(user[u].workflow.provider, c, issued)
        /\ user[u].workflow.provider \in Providers
    BY <2>0 DEF Typed, Kinds, Workflow
  <2>2. CASE Goes(u, GivesUp(u))
    BY <1>g, <2>0, <2>2, TaskStep DEF provider_side, OneFileChanges
  <2>3. CASE c \in Credentials \cup {None, Key} /\ Goes(u, Answer(u, c))
    <3>1. Answer(u, c) \in UserRecord /\ FitsTask(Answer(u, c), issued)
      BY <2>0, <2>3, AnswerTyped
    <3> QED BY <2>0, <2>3, <3>1, TaskStep DEF provider_side, OneFileChanges
  <2>4. CASE /\ c.kind = "oauth"
             /\ Goes(u, [user[u] EXCEPT !.pc = "wait", !.at = now, !.seen = c])
    <3>1. PICK r \in UserRecord : r = user[u]
      BY <2>0
    <3>2. PICK s : s = [r EXCEPT !.pc = "wait", !.at = now, !.seen = c]
      OBVIOUS
    <3>3. c \in Credentials /\ c.token \in 1..issued
          /\ AuthKind[user[u].workflow.provider] = "oauth"
      BY <2>1, <2>4, ContentsByKind DEF FitsFile
    <3>4. s \in UserRecord /\ s.pc = "wait" /\ s.workflow = user[u].workflow
          /\ s.seen = c
      BY <3>1, <3>2, <3>3 DEF UserRecord, UserPcs
    <3>5. FitsTask(s, issued)
      BY <2>0, <3>3, <3>4 DEF FitsTask, Refreshing, Holding, LoginAllowed
    <3>6. Goes(u, s)
      BY <2>4, <3>1, <3>2
    <3> QED BY <2>0, <3>4, <3>5, <3>6, TaskStep DEF provider_side, OneFileChanges
  <2>5. \/ Goes(u, GivesUp(u))
        \/ c \in {None, Key} /\ Goes(u, Answer(u, c))
        \/ c.kind = "oauth" /\ Goes(u, Answer(u, c))
        \/ /\ c.kind = "oauth"
           /\ Goes(u, [user[u] EXCEPT !.pc = "wait", !.at = now, !.seen = c])
    BY <1>1 DEF ReadCredential
  <2> QED BY <2>1, <2>2, <2>3, <2>4, <2>5, ContentsByKind
<1>2. CASE LockAndCheck(u)
  <2> DEFINE c == file[user[u].workflow.provider]
  <2>0. user[u].pc = "wait" /\ UNCHANGED <<file, provider_side, faults>> /\ Rest
    BY <1>2 DEF LockAndCheck
  <2>1. user[u] \in UserRecord /\ user[u].workflow \in Workflow
        /\ user[u].workflow.provider \in Providers /\ FitsTask(user[u], issued)
    BY <2>0, InRefresh DEF Refreshing, Provider, Kinds
  <2>2. c \in Contents
    BY <2>1 DEF Typed
  <2>3. CASE Goes(u, GivesUp(u)) /\ UNCHANGED lock
    BY <1>g, <2>0, <2>3, TaskStep DEF provider_side, OneFileChanges
  <2>4. CASE Refreshed(u, c) /\ Goes(u, Answer(u, c)) /\ UNCHANGED lock
    <3>1. c \in Credentials
      BY <2>2, <2>4, ContentsByKind DEF Refreshed
    <3>2. Answer(u, c) \in UserRecord /\ FitsTask(Answer(u, c), issued)
      BY <2>0, <3>1, AnswerTyped
    <3> QED BY <2>0, <2>4, <3>2, TaskStep DEF provider_side, OneFileChanges
  <2>5. CASE Goes(u, [user[u] EXCEPT !.pc = "helper"]) /\ lock' = u
    <3>1. PICK s : s = [user[u] EXCEPT !.pc = "helper"]
      OBVIOUS
    <3>2. s \in UserRecord /\ s.pc = "helper" /\ s.workflow = user[u].workflow
          /\ s.seen = user[u].seen
      BY <2>1, <3>1 DEF UserRecord, UserPcs
    <3>3. FitsTask(s, issued)
      BY <2>0, <2>1, <3>2 DEF FitsTask, Refreshing, Holding
    <3> QED BY <2>0, <2>5, <3>1, <3>2, <3>3, TaskStep DEF provider_side, OneFileChanges
  <2> QED BY <1>2, <2>3, <2>4, <2>5 DEF LockAndCheck
<1>3. CASE HelperRotates(u)
  <2>0. user[u].pc = "helper" /\ issued < MaxToken /\ issued' = issued + 1
        /\ rotated' = rotated \cup {Presents(u)}
        /\ UNCHANGED <<file, lock, faults>> /\ Rest
        /\ Goes(u, [user[u] EXCEPT !.pc = "rotated",
                                   !.token = Oauth(issued + 1, now + 1)])
    BY <1>3 DEF HelperRotates
  <2>1. user[u] \in UserRecord /\ user[u].workflow \in Workflow
        /\ Provider(u) \in Providers /\ FitsTask(user[u], issued)
        /\ user[u].seen.token \in 1..issued
    BY <2>0, InRefresh DEF Refreshing, Kinds
  <2>2. PICK t : t = Oauth(issued + 1, now + 1)
    OBVIOUS
  <2>3. t \in Credentials /\ t.token = issued + 1
    BY <2>2, OauthTyped
  <2>4. PICK s : s = [user[u] EXCEPT !.pc = "rotated", !.token = t]
    OBVIOUS
  <2>5. s \in UserRecord /\ s.pc = "rotated" /\ s.workflow = user[u].workflow
        /\ s.seen = user[u].seen /\ s.token = t
    BY <2>1, <2>3, <2>4 DEF UserRecord, UserPcs
  <2>6. FitsTask(s, issued')
    BY <2>0, <2>1, <2>3, <2>5 DEF FitsTask, Refreshing, Holding
  <2>7. Goes(u, s)
    BY <2>0, <2>2, <2>4
  <2>8. rotated' \subseteq Providers \X (1..issued')
    BY <2>0, <2>1 DEF Presents, Provider
  <2>9. issued' \in 1..MaxToken /\ issued <= issued'
    BY <2>0
  <2> QED BY <2>0, <2>5, <2>6, <2>7, <2>8, <2>9, TaskStep DEF OneFileChanges
<1>4. CASE HelperFails(u)
  BY <1>4, <1>g, TaskStep DEF HelperFails, provider_side, OneFileChanges
<1>5. CASE OpenRotated(u)
  <2>0. user[u].pc = "rotated" /\ Truncate(Provider(u))
        /\ Goes(u, [user[u] EXCEPT !.pc = "storing"])
        /\ UNCHANGED <<lock, provider_side, faults>> /\ Rest
    BY <1>5 DEF OpenRotated, Provider
  <2>1. user[u] \in UserRecord /\ FitsTask(user[u], issued) /\ Provider(u) \in Providers
    BY <2>0, InRefresh DEF Refreshing, Kinds
  <2>2. PICK s : s = [user[u] EXCEPT !.pc = "storing"]
    OBVIOUS
  <2>3. s \in UserRecord /\ s.pc = "storing" /\ s.workflow = user[u].workflow
        /\ s.seen = user[u].seen /\ s.token = user[u].token
    BY <2>1, <2>2 DEF UserRecord, UserPcs
  <2>4. FitsTask(s, issued)
    BY <2>0, <2>1, <2>3 DEF FitsTask, Refreshing, Holding
  <2>5. \E f \in Contents : FitsFile(Provider(u), f, issued)
                            /\ file' = [file EXCEPT ![Provider(u)] = f]
    BY <2>0, <2>1, TruncateTyped
  <2>6. issued' = issued /\ rotated' = rotated
    BY <2>0 DEF provider_side
  <2>7. OneFileChanges
    BY <2>1, <2>5, <2>6 DEF OneFileChanges
  <2> QED BY <2>0, <2>1, <2>2, <2>3, <2>4, <2>6, <2>7, TaskStep
<1>6. CASE StoreRotated(u)
  <2>0. user[u].pc = "storing" /\ Write(Provider(u), user[u].token)
        /\ Goes(u, Answer(u, user[u].token)) /\ lock' = Nobody
        /\ UNCHANGED <<provider_side, faults>> /\ Rest
    BY <1>6 DEF StoreRotated, Provider
  <2>1. user[u].token \in Credentials /\ user[u].token.token \in 1..issued
        /\ Provider(u) \in Providers /\ AuthKind[Provider(u)] = "oauth"
    BY <2>0, InRefresh DEF Refreshing, Holding
  <2>2. Answer(u, user[u].token) \in UserRecord
        /\ FitsTask(Answer(u, user[u].token), issued)
    BY <2>0, <2>1, AnswerTyped
  <2>3. user[u].token \in Contents /\ FitsFile(Provider(u), user[u].token, issued)
    BY <2>1, ContentsByKind DEF Contents, FitsFile
  <2>4. \E f \in Contents : FitsFile(Provider(u), f, issued)
                            /\ file' = [file EXCEPT ![Provider(u)] = f]
    BY <2>0, <2>1, <2>3, WriteTyped
  <2>5. issued' = issued /\ rotated' = rotated
    BY <2>0 DEF provider_side
  <2>6. OneFileChanges
    BY <2>1, <2>4, <2>5 DEF OneFileChanges
  <2> QED BY <2>0, <2>1, <2>2, <2>5, <2>6, TaskStep
<1>7. CASE StoreFails(u)
  <2>1. faults' \in 0..MaxFaults
    BY <1>7 DEF StoreFails, Fault
  <2> QED BY <1>7, <1>g, <2>1, TaskStep DEF StoreFails, provider_side, OneFileChanges
<1> QED BY <1>1, <1>2, <1>3, <1>4, <1>5, <1>6, <1>7 DEF Tokens

\* Where Runs and one-shot Workers begin, wait for a decision and end.
TaskActions(u) ==
    \/ u \in Runs /\ (StartRun(u) \/ Park(u) \/ Resume(u) \/ Retry(u) \/ FinishRun(u))
    \/ u \in Probes /\ (StartProbe(u) \/ FinishProbe(u))

LEMMA TaskActionsTyped ==
    ASSUME Typed, Kinds, NEW u \in Users, TaskActions(u)
    PROVE  /\ Typed' /\ Kinds'
           /\ UNCHANGED <<file, lock, provider_side, faults>> /\ Rest
           /\ user[u].pc \notin Refreshing /\ user'[u].pc \notin Refreshing
           /\ \A v \in Users : v # u => user'[v] = user[v]
<1> issued \in 1..MaxToken /\ issued \in Nat
    /\ lock \in Users \cup {Nobody} /\ faults \in 0..MaxFaults
    /\ rotated \subseteq Providers \X (1..issued)
  BY BoundAssumption DEF Typed
<1>1. UNCHANGED <<file, lock, provider_side, faults>> /\ Rest
      /\ user[u].pc \notin Refreshing
  BY DEF TaskActions, StartRun, Park, Resume, Retry, FinishRun, StartProbe,
         FinishProbe, Refreshing
<1>2. \E s \in UserRecord : Goes(u, s) /\ FitsTask(s, issued) /\ s.pc \notin Refreshing
  <2>1. CASE Goes(u, GivesUp(u)) \/ Goes(u, Done(u))
    <3>1. GivesUp(u) \in UserRecord /\ GivesUp(u).pc = "over"
          /\ Done(u) \in UserRecord /\ Done(u).pc = "done"
      BY RestingTyped
    <3>2. FitsTask(GivesUp(u), issued) /\ FitsTask(Done(u), issued)
      BY <3>1 DEF FitsTask, Refreshing, Holding
    <3> QED BY <2>1, <3>1, <3>2 DEF Refreshing
  <2>2. ASSUME NEW w \in Workflow,
               Goes(u, [Resting EXCEPT !.pc = "call", !.workflow = w])
        PROVE  \E s \in UserRecord : Goes(u, s) /\ FitsTask(s, issued)
                                     /\ s.pc \notin Refreshing
    <3>1. PICK s : s = [Resting EXCEPT !.pc = "call", !.workflow = w]
      OBVIOUS
    <3>2. s \in UserRecord /\ s.pc = "call" /\ s.workflow = w
      BY <3>1, RestingTyped
    <3>3. FitsTask(s, issued)
      BY <3>2 DEF FitsTask, Refreshing, Holding
    <3> QED BY <2>2, <3>1, <3>2, <3>3 DEF Refreshing
  <2>3. CASE StartRun(u) \/ Retry(u)
    <3>1. Goes(u, [Resting EXCEPT !.pc = "call", !.workflow = EffectiveWorkflow])
      BY <2>3 DEF StartRun, Retry, ResnapshotRunWorkflow
    <3> QED BY <2>2, <3>1, WorkflowTyped
  <2>4. CASE StartProbe(u)
    <3>1. PICK p \in Providers : \E m \in Catalog(p) :
            Goes(u, [Resting EXCEPT !.pc = "call",
                                    !.workflow = [model |-> m, provider |-> p]])
      BY <2>4 DEF StartProbe
    <3>2. PICK m \in Catalog(p) :
            Goes(u, [Resting EXCEPT !.pc = "call",
                                    !.workflow = [model |-> m, provider |-> p]])
      BY <3>1
    <3>3. [model |-> m, provider |-> p] \in Workflow
      BY <3>2 DEF Workflow, Models
    <3> QED BY <2>2, <3>2, <3>3
  <2>5. CASE Park(u) \/ Resume(u)
    <3>1. user[u] \in UserRecord /\ user[u].workflow \in Workflow
      BY <2>5 DEF Park, Resume, Typed, Kinds, FitsTask
    <3>2. PICK s : Goes(u, s) /\ s \in {[user[u] EXCEPT !.pc = "parked", !.token = None],
                          [user[u] EXCEPT !.pc = "call", !.workflow = user[u].workflow]}
      BY <2>5 DEF Park, Resume, ResumeWorkflow
    <3>3. s \in UserRecord /\ s.pc \in {"parked", "call"}
          /\ s.workflow = user[u].workflow
      BY <3>1, <3>2 DEF UserRecord, UserPcs
    <3>4. FitsTask(s, issued)
      BY <3>1, <3>3 DEF FitsTask, Refreshing, Holding
    <3> QED BY <3>2, <3>3, <3>4 DEF Refreshing
  <2>6. CASE FinishRun(u) \/ FinishProbe(u)
    BY <2>1, <2>6 DEF FinishRun, FinishProbe
  <2> QED BY <2>3, <2>4, <2>5, <2>6 DEF TaskActions
<1>3. PICK s \in UserRecord : Goes(u, s) /\ FitsTask(s, issued) /\ s.pc \notin Refreshing
  BY <1>2
<1>4. issued' = issued /\ rotated' = rotated
  BY <1>1 DEF provider_side
<1>5. Typed' /\ Kinds'
  BY <1>1, <1>3, <1>4, TaskStep DEF OneFileChanges
<1>6. user'[u] = s /\ \A v \in Users : v # u => user'[v] = user[v]
  BY <1>3, <1>4, TaskMoves
<1> QED BY <1>1, <1>3, <1>5, <1>6

LEMMA IdleTyped ==
    ASSUME NEW c, NEW n
    PROVE  Idle \in ClientRecord /\ Idle.pc = "idle" /\ FitsConnection(c, Idle, n)
BY DEF Idle, ClientRecord, ClientPcs, FitsConnection, LoggingIn

\* What a connection does for a login or a key.
LEMMA LoginTyped ==
    ASSUME Typed, Kinds, NEW c \in Clients, Login(c)
    PROVE  Typed' /\ Kinds'
<1> issued \in 1..MaxToken /\ issued \in Nat /\ now \in Nat /\ MaxToken \in Nat
    /\ latch \in BOOLEAN /\ faults \in 0..MaxFaults /\ sets \in 0..MaxSets
    /\ MaxFaults \in Nat /\ client[c] \in ClientRecord
    /\ prefs \in [model : {Unset} \cup Models, enabled : SUBSET Models]
    /\ FitsConnection(c, client[c], issued)
  BY BoundAssumption DEF Typed, Kinds
<1>i. Idle \in ClientRecord /\ FitsConnection(c, Idle, issued)
  BY IdleTyped
<1>1. CASE LoginRefused(c)
  <2>1. Becomes(c, Idle) /\ latch' = FALSE /\ file' = file /\ issued' = issued
        /\ rotated' = rotated /\ UNCHANGED <<settings, faults>> /\ Others
    BY <1>1 DEF LoginRefused, provider_side
  <2>2. latch' \in BOOLEAN
    BY <2>1
  <2> QED BY <1>i, <2>1, <2>2, ConnectionStep DEF settings, OneFileChanges
<1>2. CASE Redirect(c)
  <2>1. PICK s : s = [client[c] EXCEPT !.pc = "redirected"]
    OBVIOUS
  <2>2. s \in ClientRecord /\ s.pc = "redirected" /\ s.provider = client[c].provider
    BY <2>1 DEF ClientRecord, ClientPcs
  <2>3. client[c].pc = "started" /\ Becomes(c, s)
    BY <1>2, <2>1 DEF Redirect, To, Becomes, Typed
  <2>4. FitsConnection(c, s, issued)
    BY <2>2, <2>3 DEF FitsConnection, LoggingIn
  <2> QED BY <1>2, <2>2, <2>3, <2>4, ConnectionStep
          DEF Redirect, provider_side, settings, OneFileChanges
<1>3. CASE LoginReturns(c)
  <2>0. client[c].pc = "redirected" /\ issued < MaxToken /\ issued' = issued + 1
        /\ Becomes(c, [client[c] EXCEPT !.pc = "storing",
                                        !.set = Oauth(issued + 1, now + 1)])
        /\ Truncate(client[c].provider)
        /\ UNCHANGED <<latch, rotated, settings, faults>> /\ Others
    BY <1>3 DEF LoginReturns
  <2>1. PICK t : t = Oauth(issued + 1, now + 1)
    OBVIOUS
  <2>2. t \in Credentials /\ t.token = issued + 1
    BY <2>1, OauthTyped
  <2>3. PICK s : s = [client[c] EXCEPT !.pc = "storing", !.set = t]
    OBVIOUS
  <2>4. s \in ClientRecord /\ s.pc = "storing" /\ s.provider = client[c].provider
        /\ s.set = t
    BY <2>2, <2>3 DEF ClientRecord, ClientPcs
  <2>5. FitsConnection(c, s, issued')
    BY <2>0, <2>2, <2>4 DEF FitsConnection, LoggingIn
  <2>6. Becomes(c, s)
    BY <2>0, <2>1, <2>3
  <2>7. client[c].provider \in Providers
    BY <2>0 DEF FitsConnection, LoggingIn
  <2>8. OneFileChanges
    BY <2>0, <2>7, TruncateTyped DEF OneFileChanges
  <2>9. issued' \in 1..MaxToken /\ issued <= issued'
    BY <2>0
  <2> QED BY <2>0, <2>4, <2>5, <2>6, <2>8, <2>9, ConnectionStep DEF settings
<1>4. CASE LoginStored(c)
  <2>1. PICK s : s = [client[c] EXCEPT !.pc = "done", !.set = None]
    OBVIOUS
  <2>2. s \in ClientRecord /\ s.pc = "done" /\ s.provider = client[c].provider
    BY <2>1 DEF ClientRecord, ClientPcs
  <2>3. client[c].pc = "storing" /\ Becomes(c, s)
    BY <1>4, <2>1 DEF LoginStored
  <2>4. FitsConnection(c, s, issued)
    BY <2>2, <2>3 DEF FitsConnection, LoggingIn
  <2>5. client[c].provider \in Providers /\ AuthKind[client[c].provider] = "oauth"
        /\ client[c].set \in Credentials /\ client[c].set.token \in 1..issued
    BY <2>3 DEF FitsConnection, LoggingIn, LoginAllowed
  <2>6. client[c].set \in Contents
        /\ FitsFile(client[c].provider, client[c].set, issued)
    BY <2>5, ContentsByKind DEF Contents, FitsFile
  <2>7. issued' = issued /\ rotated' = rotated
    BY <1>4 DEF LoginStored, provider_side
  <2>8. OneFileChanges /\ faults' \in 0..MaxFaults
    <3>1. CASE Write(client[c].provider, client[c].set) /\ UNCHANGED faults
      <4>1. \E f \in Contents : FitsFile(client[c].provider, f, issued)
               /\ file' = [file EXCEPT ![client[c].provider] = f]
        BY <2>5, <2>6, <3>1, WriteTyped
      <4> QED BY <2>5, <2>7, <3>1, <4>1 DEF OneFileChanges
    <3>2. CASE Fault /\ UNCHANGED file
      BY <3>2 DEF Fault, OneFileChanges
    <3> QED BY <1>4, <3>1, <3>2 DEF LoginStored
  <2> QED BY <1>4, <2>2, <2>3, <2>4, <2>7, <2>8, ConnectionStep
          DEF LoginStored, settings
<1>5. CASE LoginAbandoned(c)
  <2>1. PICK s : s = [client[c] EXCEPT !.pc = "done"]
    OBVIOUS
  <2>2. s \in ClientRecord /\ s.pc = "done" /\ s.provider = client[c].provider
    BY <2>1 DEF ClientRecord, ClientPcs
  <2>3. client[c].pc = "redirected" /\ Becomes(c, s)
    BY <1>5, <2>1 DEF LoginAbandoned, To, Becomes, Typed
  <2>4. FitsConnection(c, s, issued)
    BY <2>2, <2>3 DEF FitsConnection, LoggingIn
  <2> QED BY <1>5, <2>2, <2>3, <2>4, ConnectionStep
          DEF LoginAbandoned, provider_side, settings, OneFileChanges
<1>6. CASE LoginEnds(c)
  <2>1. Becomes(c, Idle) /\ latch' = FALSE /\ file' = file /\ issued' = issued
        /\ rotated' = rotated /\ UNCHANGED <<settings, faults>> /\ Others
    BY <1>6 DEF LoginEnds, ReleaseLatch, provider_side
  <2>2. latch' \in BOOLEAN
    BY <2>1
  <2> QED BY <1>i, <2>1, <2>2, ConnectionStep DEF settings, OneFileChanges
<1>7. CASE Configured(c)
  <2>1. client[c].pc = "configuring" /\ Becomes(c, Idle)
        /\ client[c].provider \in Providers
        /\ AuthKind[client[c].provider] = "api_key" /\ client[c].set = Key
    BY <1>7 DEF Configured, FitsConnection, IsConfigurable
  <2>2. Key \in Contents /\ FitsFile(client[c].provider, Key, issued)
    BY <2>1 DEF Contents, FitsFile, Key
  <2>3. issued' = issued /\ rotated' = rotated
    BY <1>7 DEF Configured, provider_side
  <2>4. OneFileChanges /\ faults' \in 0..MaxFaults
    <3>1. CASE Write(client[c].provider, client[c].set) /\ UNCHANGED faults
      <4>1. \E f \in Contents : FitsFile(client[c].provider, f, issued)
               /\ file' = [file EXCEPT ![client[c].provider] = f]
        BY <2>1, <2>2, <3>1, WriteTyped
      <4> QED BY <2>1, <2>3, <3>1, <4>1 DEF OneFileChanges
    <3>2. CASE Fault /\ UNCHANGED file
      BY <3>2 DEF Fault, OneFileChanges
    <3> QED BY <1>7, <3>1, <3>2 DEF Configured
  <2> QED BY <1>7, <1>i, <2>1, <2>3, <2>4, ConnectionStep DEF Configured, settings
<1>8. ASSUME NEW p \in Providers, LoginStart(c, p) PROVE Typed' /\ Kinds'
  <2>1. PICK s : s = [Idle EXCEPT !.pc = "started", !.provider = p]
    OBVIOUS
  <2>2. s \in ClientRecord /\ s.pc = "started" /\ s.provider = p
    BY <2>1 DEF Idle, ClientRecord, ClientPcs
  <2>3. FitsConnection(c, s, issued)
    BY <1>8, <2>2 DEF LoginStart, FitsConnection, LoggingIn
  <2> QED BY <1>8, <2>1, <2>2, <2>3, ConnectionStep
          DEF LoginStart, provider_side, settings, OneFileChanges
<1>9. ASSUME NEW p \in Providers, Configure(c, p) PROVE Typed' /\ Kinds'
  <2>1. PICK s : s = [pc |-> "configuring", provider |-> p, set |-> Key]
    OBVIOUS
  <2>2. s \in ClientRecord /\ s.pc = "configuring" /\ s.provider = p /\ s.set = Key
    BY <2>1 DEF ClientRecord, ClientPcs
  <2>3. FitsConnection(c, s, issued)
    BY <1>9, <2>2 DEF Configure, AcceptsKey, FitsConnection, LoggingIn
  <2>4. issued' = issued /\ rotated' = rotated
    BY <1>9 DEF Configure, provider_side
  <2>5. OneFileChanges
    BY <1>9, <2>4, TruncateTyped DEF Configure, OneFileChanges
  <2> QED BY <1>9, <2>1, <2>2, <2>3, <2>4, <2>5, ConnectionStep
          DEF Configure, settings
<1> QED BY <1>1, <1>2, <1>3, <1>4, <1>5, <1>6, <1>7, <1>8, <1>9 DEF Login

\* What a connection does for settings/set: no file, no login.
LEMMA CurateTyped ==
    ASSUME Typed, Kinds, NEW c \in Clients, c \in Curators, Curate(c)
    PROVE  /\ Typed' /\ Kinds'
           /\ UNCHANGED <<file, latch, provider_side>> /\ Others
           /\ client[c].pc \notin LoggingIn /\ client'[c].pc \notin LoggingIn
           /\ \A d \in Clients : d # c => client'[d] = client[d]
           /\ faults \in Nat /\ faults' \in Nat /\ faults <= faults'
<1> issued \in 1..MaxToken /\ issued \in Nat
    /\ latch \in BOOLEAN /\ faults \in 0..MaxFaults /\ sets \in 0..MaxSets
    /\ MaxFaults \in Nat /\ MaxSets \in Nat /\ client[c] \in ClientRecord
    /\ prefs \in [model : {Unset} \cup Models, enabled : SUBSET Models]
    /\ FitsConnection(c, client[c], issued)
  BY BoundAssumption DEF Typed, Kinds
<1>i. Idle \in ClientRecord /\ FitsConnection(c, Idle, issued) /\ Idle.pc = "idle"
  BY IdleTyped
<1>1. UNCHANGED <<file, latch, provider_side>> /\ Others
      /\ client[c].pc \notin LoggingIn
  BY DEF Curate, WriteEnabled, WriteModel, SetFails, SetSettings, settings, LoggingIn
<1>2. issued' = issued /\ rotated' = rotated /\ OneFileChanges /\ latch' \in BOOLEAN
  BY <1>1 DEF provider_side, OneFileChanges
<1>3. /\ faults' \in 0..MaxFaults /\ faults <= faults' /\ sets' \in 0..MaxSets
  <2>1. CASE WriteEnabled(c) \/ WriteModel(c)
    BY <2>1 DEF WriteEnabled, WriteModel
  <2>2. CASE SetFails(c)
    BY <2>2 DEF SetFails, settings, Fault
  <2>3. ASSUME NEW q \in SetRequests, SetSettings(c, q)
        PROVE  faults' = faults /\ sets' = sets + 1 /\ sets < MaxSets
    BY <2>3 DEF SetSettings
  <2> QED BY <2>1, <2>2, <2>3 DEF Curate
<1>4. prefs' \in [model : {Unset} \cup Models, enabled : SUBSET Models]
  <2>1. CASE WriteEnabled(c)
    <3>1. client[c].set \in SetRequests
      BY <2>1 DEF WriteEnabled, FitsConnection
    <3>2. EffectiveEnabled(client[c].set) \in SUBSET Models
      BY <3>1, RequestTyped
    <3>3. prefs' = [prefs EXCEPT !.enabled = EffectiveEnabled(client[c].set)]
      BY <2>1 DEF WriteEnabled, EffectiveEnabled
    <3> QED BY <3>2, <3>3
  <2>2. CASE WriteModel(c)
    <3>1. client[c].set \in SetRequests
      BY <2>2 DEF WriteModel, FitsConnection
    <3>2. client[c].set.model \in {Unset} \cup Models
      BY <3>1, RequestTyped
    <3> QED BY <2>2, <3>2 DEF WriteModel
  <2>3. CASE ~WriteEnabled(c) /\ ~WriteModel(c)
    BY <2>3 DEF Curate, SetFails, SetSettings, settings
  <2> QED BY <2>1, <2>2, <2>3
<1>5. \E s \in ClientRecord : Becomes(c, s) /\ FitsConnection(c, s, issued)
                              /\ s.pc \notin LoggingIn
  <2>1. CASE WriteModel(c) \/ SetFails(c)
    BY <1>i, <2>1 DEF WriteModel, SetFails, LoggingIn
  <2>2. CASE WriteEnabled(c)
    <3>1. PICK s : s = [client[c] EXCEPT !.pc = "preferring"]
      OBVIOUS
    <3>2. s \in ClientRecord /\ s.pc = "preferring" /\ s.set = client[c].set
      BY <3>1 DEF ClientRecord, ClientPcs
    <3>3. Becomes(c, s) /\ client[c].set \in SetRequests
      BY <2>2, <3>1 DEF WriteEnabled, To, Becomes, Typed, FitsConnection
    <3> QED BY <3>2, <3>3 DEF FitsConnection, LoggingIn
  <2>3. ASSUME NEW q \in SetRequests, SetSettings(c, q)
        PROVE  \E s \in ClientRecord : Becomes(c, s) /\ FitsConnection(c, s, issued)
                                       /\ s.pc \notin LoggingIn
    <3>1. PICK s : s = [Idle EXCEPT !.pc = "enabling", !.set = q]
      OBVIOUS
    <3>2. s \in ClientRecord /\ s.pc = "enabling" /\ s.set = q
      BY <3>1 DEF Idle, ClientRecord, ClientPcs
    <3>3. Becomes(c, s)
      BY <2>3, <3>1 DEF SetSettings
    <3> QED BY <3>2, <3>3 DEF FitsConnection, LoggingIn
  <2> QED BY <2>1, <2>2, <2>3 DEF Curate
<1>6. PICK s \in ClientRecord : Becomes(c, s) /\ FitsConnection(c, s, issued)
                                /\ s.pc \notin LoggingIn
  BY <1>5
<1>7. Typed' /\ Kinds'
  BY <1>1, <1>2, <1>3, <1>4, <1>6, ConnectionStep
<1>8. client'[c] = s /\ \A d \in Clients : d # c => client'[d] = client[d]
  BY <1>2, <1>6, ConnectionMoves
<1> QED BY <1>1, <1>3, <1>6, <1>7, <1>8

LEMMA TickTyped == ASSUME Typed, Kinds, Tick PROVE Typed' /\ Kinds'
<1>1. issued' = issued /\ issued \in Nat /\ now' \in 0..MaxNow
  BY BoundAssumption DEF Tick, provider_side, Typed
<1> QED BY <1>1, Kept DEF Tick, Typed, Kinds, provider_side, settings

LEMMA CrashTyped ==
    ASSUME Typed, Kinds, Crash
    PROVE  /\ Typed' /\ Kinds' /\ faults' > 0
           /\ \A u \in Users : user'[u].pc \notin Refreshing
           /\ \A c \in Clients : client'[c] = Idle
<1>1. issued' = issued /\ issued \in Nat /\ faults' \in 0..MaxFaults /\ faults' > 0
  BY BoundAssumption DEF Crash, Fault, provider_side, Typed
<1>2. ASSUME NEW u \in Users
      PROVE  /\ user'[u] \in UserRecord /\ FitsTask(user'[u], issued')
             /\ user'[u].pc \notin Refreshing
  <2>1. CASE user[u].pc \in {"idle", "parked", "done"}
    <3>1. user'[u] = user[u]
      BY <2>1 DEF Crash
    <3> QED BY <1>1, <2>1, <3>1 DEF Typed, Kinds, Refreshing
  <2>2. CASE user[u].pc \notin {"idle", "parked", "done"}
    <3>1. user'[u] = GivesUp(u)
      BY <2>2 DEF Crash
    <3>2. GivesUp(u) \in UserRecord /\ GivesUp(u).pc = "over"
      BY RestingTyped
    <3> QED BY <3>1, <3>2 DEF FitsTask, Refreshing, Holding
  <2> QED BY <2>1, <2>2
<1>3. user' \in [Users -> UserRecord]
  BY <1>2 DEF Crash
<1>4. client' = [c \in Clients |-> Idle]
  BY DEF Crash
<1>5. /\ client' \in [Clients -> ClientRecord]
      /\ \A c \in Clients : client'[c] = Idle
      /\ \A c \in Clients : FitsConnection(c, client'[c], issued')
  BY <1>4, IdleTyped
<1>6. Typed'
  BY <1>1, <1>3, <1>5 DEF Crash, Typed, provider_side, settings
<1>7. Kinds'
  BY <1>1, <1>2, <1>5, Kept DEF Crash, Kinds
<1> QED BY <1>1, <1>2, <1>5, <1>6, <1>7

(***************************************************************************)
(* One lock, one login.                                                    *)
(***************************************************************************)
\* A task's step, as the lock and the others see it.
LEMMA TokensEffect ==
    ASSUME Typed, Kinds, NEW u \in Users, Tokens(u)
    PROVE  /\ \A v \in Users : v # u => user'[v] = user[v]
           /\ UNCHANGED <<now, client, latch, settings>>
           /\ user'[u].pc \in Refreshing => user'[u].workflow = user[u].workflow
<1>1. UNCHANGED <<now, client, latch, settings>>
  BY DEF Tokens, ReadCredential, LockAndCheck, HelperRotates, HelperFails,
         OpenRotated, StoreRotated, StoreFails, Rest
<1>2. PICK s : Goes(u, s)
  BY DEF Tokens, ReadCredential, LockAndCheck, HelperRotates, HelperFails,
         OpenRotated, StoreRotated, StoreFails
<1>3. \A v \in Users : v # u => user'[v] = user[v]
  BY <1>2 DEF Goes, Typed
<1>4. ASSUME user'[u].pc \in Refreshing
      PROVE  user'[u].workflow = user[u].workflow
  <2>1. PICK r \in UserRecord : r = user[u]
    BY DEF Typed
  <2>2. user' = [user EXCEPT ![u] = s] /\ user'[u] = s
    BY <1>2 DEF Goes, Typed
  <2>3. s.pc \in Refreshing
    BY <1>4, <2>2
  <2>4. ASSUME NEW c, Goes(u, GivesUp(u)) \/ Goes(u, Answer(u, c))
        PROVE  user'[u].workflow = user[u].workflow
    <3>1. user'[u] = GivesUp(u) \/ user'[u] = Answer(u, c)
      BY <2>4 DEF Goes, Typed
    <3>2. user'[u].pc \in {"over", "working"}
      BY <2>1, <3>1 DEF Answer, GivesUp, WorkingWith, Resting, UserRecord
    <3> QED BY <1>4, <3>2 DEF Refreshing
  <2>5. ASSUME NEW c,
               \/ Goes(u, [user[u] EXCEPT !.pc = "wait", !.at = now, !.seen = c])
               \/ Goes(u, [user[u] EXCEPT !.pc = "helper"])
               \/ Goes(u, [user[u] EXCEPT !.pc = "rotated", !.token = c])
               \/ Goes(u, [user[u] EXCEPT !.pc = "storing"])
        PROVE  user'[u].workflow = user[u].workflow
    <3>1. \A x : Goes(u, x) => user'[u] = x
      BY DEF Goes, Typed
    <3>2. user'[u] \in {[r EXCEPT !.pc = "wait", !.at = now, !.seen = c],
                        [r EXCEPT !.pc = "helper"],
                        [r EXCEPT !.pc = "rotated", !.token = c],
                        [r EXCEPT !.pc = "storing"]}
      BY <2>1, <2>5, <3>1
    <3> QED BY <2>1, <3>2 DEF UserRecord
  <2> QED BY <2>4, <2>5 DEF Tokens, ReadCredential, LockAndCheck, HelperRotates,
             HelperFails, OpenRotated, StoreRotated, StoreFails
<1> QED BY <1>1, <1>3, <1>4

\* How the lock changes hands with a task's place.
Locking == {"helper", "rotated", "storing"}
LEMMA LockTaken ==
    ASSUME Typed, Kinds, LockHeld, NEW u \in Users, Tokens(u)
    PROVE  \/ /\ user[u].pc \notin Locking /\ user'[u].pc \notin Locking
              /\ lock' = lock
           \/ user[u].pc \notin Locking /\ lock = Nobody /\ lock' = u
              /\ user'[u].pc \in Locking
           \/ user[u].pc \in Locking /\ lock' = lock /\ user'[u].pc \in Locking
           \/ user[u].pc \in Locking /\ lock' = Nobody /\ user'[u].pc \notin Locking
<1> user[u] \in UserRecord /\ \A s : Goes(u, s) => user'[u] = s
  BY DEF Goes, Typed
<1>1. \A c : Answer(u, c).pc \in {"over", "working"} /\ GivesUp(u).pc = "over"
  BY DEF Answer, GivesUp, WorkingWith, Resting, UserRecord
<1>2. CASE ReadCredential(u)
  BY <1>1, <1>2 DEF ReadCredential, UserRecord, Locking
<1>3. CASE LockAndCheck(u)
  BY <1>1, <1>3 DEF LockAndCheck, UserRecord, Locking
<1>4. CASE HelperRotates(u) \/ OpenRotated(u)
  BY <1>4 DEF HelperRotates, OpenRotated, UserRecord, Locking
<1>5. CASE HelperFails(u) \/ StoreRotated(u) \/ StoreFails(u)
  BY <1>1, <1>5 DEF HelperFails, StoreRotated, StoreFails, Locking
<1> QED BY <1>2, <1>3, <1>4, <1>5 DEF Tokens

LEMMA FieldsSet ==
    ASSUME NEW r \in ClientRecord, NEW x, NEW y
    PROVE  /\ [r EXCEPT !.pc = x].pc = x /\ [r EXCEPT !.pc = x].set = r.set
           /\ [r EXCEPT !.pc = x].provider = r.provider
           /\ [r EXCEPT !.pc = x, !.set = y].pc = x
           /\ [r EXCEPT !.pc = x, !.set = y].set = y
           /\ [r EXCEPT !.pc = x, !.set = y].provider = r.provider
BY DEF ClientRecord

\* How the login slot changes hands with a connection's place.
LEMMA LatchTaken ==
    ASSUME Typed, Kinds, NEW c \in Clients, Login(c)
    PROVE  /\ \A d \in Clients : d # c => client'[d] = client[d]
           /\ Others /\ UNCHANGED rotated
           /\ \/ (HoldsLatch(c) <=> HoldsLatch(c)') /\ latch' = latch
              \/ ~HoldsLatch(c) /\ HoldsLatch(c)' /\ ~latch /\ latch' = TRUE
              \/ HoldsLatch(c) /\ ~HoldsLatch(c)' /\ latch' = FALSE
<1>a. client[c] \in ClientRecord
  BY DEF Typed
<1>b. ASSUME NEW s, Becomes(c, s)
      PROVE  client'[c] = s /\ \A d \in Clients : d # c => client'[d] = client[d]
  BY <1>b DEF Becomes, Typed
<1>c. ASSUME NEW x, To(c, x)
      PROVE  /\ client'[c] = [client[c] EXCEPT !.pc = x]
             /\ \A d \in Clients : d # c => client'[d] = client[d]
  BY <1>c DEF To, Typed
<1>i. Idle.pc = "idle"
  BY IdleTyped
<1>1. CASE LoginRefused(c) \/ LoginEnds(c)
  BY <1>1, <1>b, <1>i DEF LoginRefused, LoginEnds, ReleaseLatch, HoldsLatch, provider_side
<1>2. CASE Redirect(c) \/ LoginAbandoned(c)
  <2>1. client[c].pc \in LoggingIn /\ client'[c].pc \in LoggingIn
    <3>1. PICK x \in {"redirected", "done"} :
            To(c, x) /\ client[c].pc \in {"started", "redirected"}
      BY <1>2 DEF Redirect, LoginAbandoned
    <3>2. client'[c].pc = x
      <4>1. client'[c] = [client[c] EXCEPT !.pc = x]
        BY <1>c, <3>1
      <4>2. [client[c] EXCEPT !.pc = x].pc = x
        BY <1>a, FieldsSet
      <4> QED BY <4>1, <4>2
    <3> QED BY <3>1, <3>2 DEF LoggingIn
  <2> QED BY <1>2, <1>c, <2>1
          DEF Redirect, LoginAbandoned, HoldsLatch, LoggingIn, provider_side
<1>3. CASE LoginReturns(c)
  <2>1. client[c].pc \in LoggingIn /\ client'[c].pc \in LoggingIn
    <3>1. PICK x : x = [client[c] EXCEPT !.pc = "storing", !.set = Oauth(issued + 1, now + 1)]
      OBVIOUS
    <3>2. x.pc = "storing"
      BY <1>a, <3>1, FieldsSet
    <3>3. Becomes(c, x) /\ client[c].pc = "redirected"
      BY <1>3, <3>1 DEF LoginReturns
    <3> QED BY <1>b, <3>2, <3>3 DEF LoggingIn
  <2> QED BY <1>3, <1>b, <2>1 DEF LoginReturns, HoldsLatch, LoggingIn
<1>4. CASE LoginStored(c)
  <2>1. client[c].pc \in LoggingIn /\ client'[c].pc \in LoggingIn
    <3>1. PICK x : x = [client[c] EXCEPT !.pc = "done", !.set = None]
      OBVIOUS
    <3>2. x.pc = "done"
      BY <1>a, <3>1, FieldsSet
    <3>3. Becomes(c, x) /\ client[c].pc = "storing"
      BY <1>4, <3>1 DEF LoginStored
    <3> QED BY <1>b, <3>2, <3>3 DEF LoggingIn
  <2> QED BY <1>4, <1>b, <2>1 DEF LoginStored, HoldsLatch, LoggingIn, provider_side
<1>5. CASE Configured(c)
  BY <1>5, <1>b, <1>i DEF Configured, HoldsLatch, provider_side
<1>6. ASSUME NEW p \in Providers, LoginStart(c, p)
      PROVE  /\ \A d \in Clients : d # c => client'[d] = client[d]
             /\ Others /\ UNCHANGED rotated
             /\ ~HoldsLatch(c) /\ HoldsLatch(c)' /\ ~latch /\ latch' = TRUE
  <2>1. [Idle EXCEPT !.pc = "started", !.provider = p].pc = "started"
    BY DEF Idle
  <2> QED BY <1>6, <1>b, <2>1 DEF LoginStart, HoldsLatch, provider_side
<1>7. ASSUME NEW p \in Providers, Configure(c, p)
      PROVE  /\ \A d \in Clients : d # c => client'[d] = client[d]
             /\ Others /\ UNCHANGED rotated
             /\ ~HoldsLatch(c) /\ ~HoldsLatch(c)' /\ latch' = latch
  BY <1>7, <1>b DEF Configure, HoldsLatch, provider_side
<1> QED BY <1>1, <1>2, <1>3, <1>4, <1>5, <1>6, <1>7 DEF Login

LEMMA NextSplits ==
    ASSUME Next
    PROVE  \/ Tick \/ Crash
           \/ \E u \in Users : Tokens(u) \/ TaskActions(u)
           \/ \E c \in Clients : Login(c) \/ (c \in Curators /\ Curate(c))
<1>1. Runs \subseteq Users /\ Probes \subseteq Users /\ Curators \subseteq Clients
  BY TaskAssumption DEF Users
<1> QED BY <1>1 DEF Next, TaskActions

LEMMA TypesKept == ASSUME Typed, Kinds, [Next]_vars PROVE Typed' /\ Kinds'
<1>1. CASE Next
  BY <1>1, NextSplits, TickTyped, CrashTyped, TokensTyped, TaskActionsTyped,
     LoginTyped, CurateTyped
<1>2. CASE UNCHANGED vars
  <2>1. Typed'
    BY <1>2 DEF Typed, vars
  <2>2. Kinds'
    BY <1>2 DEF Kinds, vars
  <2> QED BY <2>1, <2>2
<1> QED BY <1>1, <1>2

LEMMA LocksKept ==
    ASSUME Typed, Kinds, LockHeld, LatchHeld, [Next]_vars
    PROVE  LockHeld' /\ LatchHeld'
<1>1. CASE Tick \/ UNCHANGED vars
  BY <1>1 DEF Tick, vars, LockHeld, LatchHeld, HoldsLatch
<1>2. CASE Crash
  <2>1. \A u \in Users : user'[u].pc \notin Locking
    BY <1>2, CrashTyped DEF Locking, Refreshing
  <2>2. \A c \in Clients : ~HoldsLatch(c)'
    BY <1>2, CrashTyped, IdleTyped DEF HoldsLatch
  <2>3. lock' = Nobody /\ latch' = FALSE
    BY <1>2 DEF Crash
  <2>4. LockHeld'
    BY <2>1, <2>3, TaskAssumption DEF LockHeld, Locking
  <2>5. LatchHeld'
    BY <2>2, <2>3 DEF LatchHeld
  <2> QED BY <2>4, <2>5
<1>3. ASSUME NEW u \in Users, Tokens(u) PROVE LockHeld' /\ LatchHeld'
  <2>1. \A v \in Users : v # u => user'[v] = user[v]
    BY <1>3, TokensEffect
  <2>2. LockHeld'
    <3>1. \A v \in Users : user[v].pc \in Locking <=> lock = v
      BY DEF LockHeld, Locking
    <3>2. \A v \in Users : user'[v].pc \in Locking <=> lock' = v
      BY <1>3, <2>1, <3>1, LockTaken, TaskAssumption
    <3> QED BY <3>2 DEF LockHeld, Locking
  <2>3. LatchHeld'
    BY <1>3, TokensEffect DEF LatchHeld, HoldsLatch
  <2> QED BY <2>2, <2>3
<1>4. ASSUME NEW u \in Users, TaskActions(u) PROVE LockHeld' /\ LatchHeld'
  <2>1. UNCHANGED <<lock, client, latch>>
        /\ user[u].pc \notin Refreshing /\ user'[u].pc \notin Refreshing
        /\ \A v \in Users : v # u => user'[v] = user[v]
    BY <1>4, TaskActionsTyped DEF Rest
  <2> QED BY <2>1 DEF LockHeld, LatchHeld, HoldsLatch, Refreshing
<1>5. ASSUME NEW c \in Clients, Login(c) PROVE LockHeld' /\ LatchHeld'
  <2>1. LockHeld'
    BY <1>5, LatchTaken DEF Others, LockHeld
  <2>2. \A d \in Clients : d # c => (HoldsLatch(d)' <=> HoldsLatch(d))
    BY <1>5, LatchTaken DEF HoldsLatch
  <2>3. CASE (HoldsLatch(c) <=> HoldsLatch(c)') /\ latch' = latch
    <3>1. \A d \in Clients : HoldsLatch(d)' <=> HoldsLatch(d)
      BY <2>2, <2>3
    <3> QED BY <2>1, <2>3, <3>1 DEF LatchHeld
  <2>4. CASE ~HoldsLatch(c) /\ HoldsLatch(c)' /\ ~latch /\ latch' = TRUE
    <3>1. \A d \in Clients : HoldsLatch(d)' <=> d = c
      BY <2>2, <2>4 DEF LatchHeld
    <3> QED BY <2>1, <2>4, <3>1 DEF LatchHeld
  <2>5. CASE HoldsLatch(c) /\ ~HoldsLatch(c)' /\ latch' = FALSE
    <3>1. \A d \in Clients : ~HoldsLatch(d)'
      BY <2>2, <2>5 DEF LatchHeld
    <3> QED BY <2>1, <2>5, <3>1 DEF LatchHeld
  <2> QED BY <1>5, <2>3, <2>4, <2>5, LatchTaken
<1>6. ASSUME NEW c \in Clients, c \in Curators, Curate(c) PROVE LockHeld' /\ LatchHeld'
  <2>1. UNCHANGED latch /\ Others
        /\ client[c].pc \notin LoggingIn /\ client'[c].pc \notin LoggingIn
        /\ \A d \in Clients : d # c => client'[d] = client[d]
    BY <1>6, CurateTyped
  <2>2. \A d \in Clients : HoldsLatch(d)' <=> HoldsLatch(d)
    BY <2>1 DEF HoldsLatch, LoggingIn
  <2>3. LatchHeld'
    BY <2>1, <2>2 DEF LatchHeld
  <2> QED BY <2>1, <2>3 DEF LockHeld, Others
<1> QED BY <1>1, <1>2, <1>3, <1>4, <1>5, <1>6, NextSplits

(***************************************************************************)
(* Tokens.                                                                 *)
(***************************************************************************)
\* What is known has been issued.
LEMMA KnownIsIssued ==
    ASSUME Typed, Kinds, NEW p \in Providers, NEW n, Known(p, n)
    PROVE  n \in 1..issued
<1>1. CASE <<p, n>> \in rotated
  BY <1>1 DEF Typed
<1>2. CASE file[p].kind = "oauth" /\ file[p].token = n
  BY <1>2 DEF Kinds, FitsFile
<1>3. ASSUME NEW u \in Users, user[u].pc \in Refreshing, Presents(u) = <<p, n>>
      PROVE  n \in 1..issued
  BY <1>3, InRefresh DEF Presents
<1> QED BY <1>1, <1>2, <1>3 DEF Known

\* A step that only takes tasks away from their refresh, or connections from
\* their login, leaves every statement about tokens as it was.
LEMMA Quiet ==
    ASSUME Typed, Kinds, Kinds', Unread, Outlives, ShowsRotated, Noticed,
           UNCHANGED rotated, now' \in Nat, now <= now', faults' \in Nat,
           \A p \in Providers : AuthKind[p] = "oauth" => file'[p] = file[p],
           \A u \in Users : user'[u].pc \in Refreshing => user'[u] = user[u],
           \A c \in Clients : client'[c].pc = "storing" => client'[c] = client[c],
           \A u \in Users : user'[u].pc \in Holding => now' < user'[u].token.expires,
           \A c \in Clients : client'[c].pc = "storing"
                              => now' < client'[c].set.expires,
           faults' = 0 => faults = 0 /\ \A u \in Users :
                             user[u].pc \in Holding => user'[u] = user[u]
    PROVE  Unread' /\ Outlives' /\ ShowsRotated' /\ Noticed'
<1>0. \A u \in Users : user'[u].pc \in Refreshing =>
         /\ user[u].pc \in Refreshing /\ Provider(u)' = Provider(u)
         /\ Presents(u)' = Presents(u) /\ Provider(u) \in Providers
         /\ AuthKind[Provider(u)] = "oauth"
  BY InRefresh DEF Provider, Presents
<1>h. Holding \subseteq Refreshing /\ "wait" \in Refreshing /\ "rotated" \in Holding
  BY DEF Holding, Refreshing
<1>f. \A p \in Providers : file'[p].kind = "oauth"
                           => file'[p] = file[p] /\ AuthKind[p] = "oauth"
  BY DEF Kinds, FitsFile
<1>1. \A p \in Providers : \A n : Known(p, n)' => Known(p, n)
  BY <1>0, <1>f DEF Known
<1>2. Unread'
  <2>1. ASSUME NEW u \in Users, user'[u].pc \in Holding
        PROVE  ~Known(Provider(u), user[u].token.token)'
    BY <1>0, <1>1, <1>h, <2>1 DEF Unread
  <2>2. ASSUME NEW c \in Clients, client'[c].pc = "storing"
        PROVE  ~Known(client[c].provider, client[c].set.token)'
    <3>1. client'[c] = client[c]
      BY <2>2
    <3>2. client[c].provider \in Providers
      BY <2>2, <3>1 DEF Kinds, FitsConnection, LoggingIn
    <3> QED BY <1>1, <2>2, <3>1, <3>2 DEF Unread
  <2>3. ASSUME NEW u \in Users, NEW c \in Clients,
               user'[u].pc \in Holding, client'[c].pc = "storing"
        PROVE  user'[u].token.token # client'[c].set.token
    BY <1>h, <2>3 DEF Unread
  <2> QED BY <2>1, <2>2, <2>3 DEF Unread
<1>3. Outlives'
  <2>1. ASSUME NEW u \in Users, user'[u].pc = "wait" PROVE user'[u].at <= now'
    <3>1. user'[u] = user[u] /\ user[u].at <= now
      BY <1>h, <2>1 DEF Outlives
    <3>2. user[u].at \in Nat /\ now \in Nat
      BY DEF Typed, UserRecord
    <3> QED BY <3>1, <3>2
  <2> QED BY <2>1 DEF Outlives
<1>4. ShowsRotated'
  <2>1. ASSUME faults' = 0, NEW p \in Providers, file'[p].kind = "oauth",
               <<p, file'[p].token>> \in rotated'
        PROVE  \E v \in Users : user'[v].pc = "rotated" /\ Provider(v)' = p
    <3>1. PICK v \in Users : user[v].pc = "rotated" /\ Provider(v) = p
      BY <1>f, <2>1 DEF ShowsRotated
    <3> QED BY <1>h, <2>1, <3>1 DEF Provider
  <2> QED BY <2>1 DEF ShowsRotated
<1>5. Noticed'
  <2>1. ASSUME faults' = 0, NEW u \in Users, user'[u].pc = "wait",
               Presents(u)' \in rotated'
        PROVE  \/ file'[Provider(u)'] = Torn \/ Newer(u)'
               \/ \E v \in Users : user'[v].pc \in Holding
                                   /\ Provider(v)' = Provider(u)'
    <3>1. /\ user'[u] = user[u] /\ Provider(u)' = Provider(u)
          /\ file'[Provider(u)] = file[Provider(u)]
          /\ Presents(u) \in rotated
      BY <1>0, <1>h, <2>1
    <3>2. CASE file[Provider(u)] = Torn
      BY <3>1, <3>2
    <3>3. CASE Newer(u)
      BY <3>1, <3>3 DEF Newer
    <3>4. ASSUME NEW v \in Users, user[v].pc \in Holding, Provider(v) = Provider(u)
          PROVE  user'[v].pc \in Holding /\ Provider(v)' = Provider(u)'
      BY <2>1, <3>1, <3>4 DEF Provider
    <3> QED BY <2>1, <3>1, <3>2, <3>3, <3>4 DEF Noticed
  <2> QED BY <2>1 DEF Noticed
<1> QED BY <1>2, <1>3, <1>4, <1>5

\* A task that finds its token expired starts to wait with what the file shows.
LEMMA StartsToWait ==
    ASSUME IInv, Kinds', NEW u \in Users, NEW s, s.pc = "wait",
           s.workflow = user[u].workflow, user[u].workflow \in Workflow,
           s.at = now, s.seen = file[Provider(u)], s.seen.kind = "oauth",
           user'[u] = s, \A v \in Users : v # u => user'[v] = user[v],
           user[u].pc = "call",
           UNCHANGED <<file, rotated, now, client, faults>>
    PROVE  TokenFacts'
<1>0. Provider(u) \in Providers /\ Provider(u)' = Provider(u) /\ now \in Nat
      /\ Presents(u)' = <<Provider(u), file[Provider(u)].token>>
  BY DEF IInv, Typed, Provider, Presents, Workflow
<1>1. ASSUME NEW p \in Providers, NEW n, Known(p, n)' PROVE Known(p, n)
  <2>1. CASE \E v \in Users : user'[v].pc \in Refreshing /\ Presents(v)' = <<p, n>>
    <3>1. PICK v \in Users : user'[v].pc \in Refreshing /\ Presents(v)' = <<p, n>>
      BY <2>1
    <3>2. CASE v = u
      BY <1>0, <3>1, <3>2 DEF Known
    <3>3. CASE v # u
      BY <3>1, <3>3 DEF Known, Presents
    <3> QED BY <3>2, <3>3
  <2> QED BY <1>1, <2>1 DEF Known
<1>2. \A v \in Users : user'[v].pc \in Holding
         => v # u /\ user[v].pc \in Holding /\ Provider(v) \in Providers
  BY InRefresh DEF IInv, Holding, Refreshing
<1>3. Unread'
  <2>1. ASSUME NEW v \in Users, user'[v].pc \in Holding
        PROVE  ~Known(Provider(v), user[v].token.token)'
    BY <1>1, <1>2, <2>1 DEF IInv, TokenFacts, Unread, Provider
  <2>2. ASSUME NEW c \in Clients, client'[c].pc = "storing"
        PROVE  ~Known(client[c].provider, client[c].set.token)'
    <3>1. client[c].provider \in Providers
      BY <2>2 DEF IInv, Kinds, FitsConnection, LoggingIn
    <3> QED BY <1>1, <2>2, <3>1 DEF IInv, TokenFacts, Unread
  <2>3. \A v \in Users, c \in Clients :
           user'[v].pc \in Holding /\ client'[c].pc = "storing"
           => user'[v].token.token # client'[c].set.token
    BY <1>2 DEF IInv, TokenFacts, Unread
  <2> QED BY <2>1, <2>2, <2>3 DEF Unread
<1>4. Outlives'
  <2>1. \A v \in Users : user'[v].pc = "wait" => user'[v].at <= now'
    BY <1>0 DEF IInv, TokenFacts, Outlives
  <2> QED BY <1>2, <2>1 DEF IInv, TokenFacts, Outlives
<1>5. ShowsRotated'
  <2>1. ASSUME faults' = 0, NEW p \in Providers, file'[p].kind = "oauth",
               <<p, file'[p].token>> \in rotated'
        PROVE  \E v \in Users : user'[v].pc = "rotated" /\ Provider(v)' = p
    <3>1. PICK v \in Users : user[v].pc = "rotated" /\ Provider(v) = p
      BY <2>1 DEF IInv, TokenFacts, ShowsRotated
    <3> QED BY <3>1 DEF Provider
  <2> QED BY <2>1 DEF ShowsRotated
<1>6. Noticed'
  <2>1. ASSUME faults' = 0, NEW v \in Users, user'[v].pc = "wait",
               Presents(v)' \in rotated'
        PROVE  \/ file'[Provider(v)'] = Torn \/ Newer(v)'
               \/ \E w \in Users : user'[w].pc \in Holding
                                   /\ Provider(w)' = Provider(v)'
    <3>w. ASSUME NEW w \in Users, user[w].pc \in Holding
          PROVE  user'[w].pc \in Holding /\ Provider(w)' = Provider(w)
      BY <3>w DEF Provider, Holding
    <3>1. CASE v = u
      <4>1. PICK w \in Users : user[w].pc = "rotated" /\ Provider(w) = Provider(u)
        BY <1>0, <2>1, <3>1 DEF IInv, TokenFacts, ShowsRotated
      <4> QED BY <1>0, <3>1, <3>w, <4>1 DEF Holding
    <3>2. CASE v # u
      <4>1. user'[v] = user[v] /\ Provider(v)' = Provider(v) /\ Presents(v) \in rotated
        BY <2>1, <3>2 DEF Provider, Presents
      <4>2. Newer(v) => Newer(v)'
        BY <4>1 DEF Newer
      <4> QED BY <2>1, <3>w, <4>1, <4>2 DEF IInv, TokenFacts, Noticed
    <3> QED BY <3>1, <3>2
  <2> QED BY <2>1 DEF Noticed
<1> QED BY <1>3, <1>4, <1>5, <1>6 DEF TokenFacts

\* The lock holder's helper is about to be asked: nothing about tokens changes.
LEMMA AsksHelper ==
    ASSUME IInv, NEW u \in Users, NEW s, s.pc = "helper",
           s.workflow = user[u].workflow, s.seen = user[u].seen,
           user'[u] = s, \A v \in Users : v # u => user'[v] = user[v],
           user[u].pc = "wait",
           UNCHANGED <<file, rotated, now, client, faults>>
    PROVE  TokenFacts'
<1>0. \A v \in Users :
         /\ Provider(v)' = Provider(v) /\ Presents(v)' = Presents(v)
         /\ user'[v].pc \in Refreshing <=> user[v].pc \in Refreshing
         /\ user'[v].pc \in Holding <=> user[v].pc \in Holding
         /\ user'[v].pc = "rotated" <=> user[v].pc = "rotated"
         /\ user[v].pc \in Holding => user'[v] = user[v]
         /\ user'[v].pc = "wait" => user'[v] = user[v]
  BY DEF Provider, Presents, Refreshing, Holding
<1>1. \A p : \A n : Known(p, n)' <=> Known(p, n)
  BY <1>0 DEF Known
<1>2. Unread'
  BY <1>0, <1>1 DEF IInv, TokenFacts, Unread
<1>3. Outlives'
  BY <1>0 DEF IInv, TokenFacts, Outlives
<1>4. ShowsRotated'
  BY <1>0 DEF IInv, TokenFacts, ShowsRotated
<1>5. Noticed'
  BY <1>0 DEF IInv, TokenFacts, Noticed, Newer
<1> QED BY <1>2, <1>3, <1>4, <1>5 DEF TokenFacts

\* Only the lock holder has rotated and not stored.
LEMMA OneHolder ==
    ASSUME IInv, NEW u \in Users, NEW v \in Users,
           user[u].pc \in Locking, user[v].pc \in Locking
    PROVE  u = v
BY DEF IInv, LockHeld, Locking

\* The provider rotates the refresh token the helper presents.
LEMMA Rotates ==
    ASSUME IInv, NEW u \in Users, user[u].pc = "helper",
           user'[u].pc = "rotated", user'[u].workflow = user[u].workflow,
           user'[u].seen = user[u].seen,
           user'[u].token.token = issued + 1, user'[u].token.expires = now + 1,
           \A v \in Users : v # u => user'[v] = user[v],
           rotated' = rotated \cup {Presents(u)},
           UNCHANGED <<file, now, client, faults>>
    PROVE  TokenFacts'
<1>0. /\ \A v \in Users : Provider(v)' = Provider(v) /\ Presents(v)' = Presents(v)
      /\ Provider(u) \in Providers /\ user[u].pc \in Refreshing
      /\ issued \in Nat /\ now \in Nat
  BY InRefresh DEF IInv, Typed, Provider, Presents, Refreshing
<1>1. ASSUME NEW p \in Providers, NEW n, Known(p, n)' PROVE Known(p, n)
  <2>1. CASE <<p, n>> \in rotated'
    BY <1>0, <2>1 DEF Known
  <2>2. CASE \E v \in Users : user'[v].pc \in Refreshing /\ Presents(v)' = <<p, n>>
    <3>1. PICK v \in Users : user'[v].pc \in Refreshing /\ Presents(v)' = <<p, n>>
      BY <2>2
    <3>2. user[v].pc \in Refreshing
      BY <1>0, <3>1
    <3> QED BY <1>0, <3>1, <3>2 DEF Known
  <2> QED BY <1>1, <2>1, <2>2 DEF Known
<1>2. \A v \in Users : user'[v].pc \in Holding => v = u
  <2>1. \A v \in Users : v # u => user[v].pc \notin Holding
    BY OneHolder DEF Locking, Holding
  <2> QED BY <2>1
<1>3. Unread'
  <2>1. ~Known(Provider(u), user[u].token.token)'
    <3>1. ~Known(Provider(u), issued + 1)
      BY <1>0, KnownIsIssued DEF IInv
    <3> QED BY <1>0, <1>1, <3>1
  <2>2. ASSUME NEW c \in Clients, client'[c].pc = "storing"
        PROVE  /\ ~Known(client[c].provider, client[c].set.token)'
               /\ user'[u].token.token # client'[c].set.token
    <3>1. client[c].provider \in Providers /\ client[c].set.token \in 1..issued
      BY <2>2 DEF IInv, Kinds, FitsConnection, LoggingIn
    <3>2. ~Known(client[c].provider, client[c].set.token)'
      BY <1>1, <2>2, <3>1 DEF IInv, TokenFacts, Unread
    <3> QED BY <1>0, <3>1, <3>2
  <2> QED BY <1>2, <2>1, <2>2 DEF Unread
<1>4. Outlives'
  <2>1. \A v \in Users : user'[v].pc = "wait" => user'[v].at <= now'
    BY DEF IInv, TokenFacts, Outlives
  <2>2. \A v \in Users : user'[v].pc \in Holding => now' < user'[v].token.expires
    BY <1>0, <1>2
  <2> QED BY <2>1, <2>2 DEF IInv, TokenFacts, Outlives
<1>5. ShowsRotated'
  <2>1. ASSUME faults' = 0, NEW p \in Providers, file'[p].kind = "oauth",
               <<p, file'[p].token>> \in rotated'
        PROVE  \E v \in Users : user'[v].pc = "rotated" /\ Provider(v)' = p
    <3>1. CASE <<p, file[p].token>> \in rotated
      <4>1. PICK v \in Users : user[v].pc = "rotated" /\ Provider(v) = p
        BY <2>1, <3>1 DEF IInv, TokenFacts, ShowsRotated
      <4> QED BY <1>0, <4>1
    <3>2. CASE <<p, file[p].token>> = Presents(u)
      <4>1. Provider(u) = p
        BY <3>2 DEF Presents, Provider
      <4> QED BY <1>0, <4>1
    <3> QED BY <2>1, <3>1, <3>2
  <2> QED BY <2>1 DEF ShowsRotated
<1>6. Noticed'
  <2>1. ASSUME faults' = 0, NEW w \in Users, user'[w].pc = "wait",
               Presents(w)' \in rotated'
        PROVE  \/ file'[Provider(w)'] = Torn \/ Newer(w)'
               \/ \E v \in Users : user'[v].pc \in Holding
                                   /\ Provider(v)' = Provider(w)'
    <3>0. w # u /\ user'[w] = user[w] /\ Provider(w)' = Provider(w)
          /\ Presents(w)' = Presents(w)
      BY <1>0, <2>1
    <3>1. CASE Presents(w) \in rotated
      <4>1. \A v \in Users : user[v].pc \in Holding => user'[v].pc \in Holding
        BY DEF Holding
      <4>2. Newer(w) => Newer(w)'
        BY <3>0 DEF Newer
      <4> QED BY <1>0, <2>1, <3>0, <3>1, <4>1, <4>2 DEF IInv, TokenFacts, Noticed
    <3>2. CASE Presents(w) = Presents(u)
      <4>1. Provider(w) = Provider(u) /\ user'[u].pc \in Holding
        BY <3>2 DEF Presents, Provider, Holding
      <4> QED BY <1>0, <4>1
    <3> QED BY <2>1, <3>0, <3>1, <3>2
  <2> QED BY <2>1 DEF Noticed
<1> QED BY <1>3, <1>4, <1>5, <1>6 DEF TokenFacts

\* A file is opened for writing: whoever waits for it will find it torn.
LEMMA Opens ==
    ASSUME IInv, Kinds', NEW p \in Providers, file' = [file EXCEPT ![p] = Torn],
           \A v \in Users : /\ user'[v].pc \in Refreshing => user[v].pc \in Refreshing
                            /\ user'[v].workflow = user[v].workflow
                            /\ user'[v].seen = user[v].seen
                            /\ user'[v].token = user[v].token
                            /\ user'[v].at = user[v].at
                            /\ user'[v].pc = "wait" => user[v].pc = "wait"
                            /\ user[v].pc \in Holding <=> user'[v].pc \in Holding
                            /\ user[v].pc = "rotated" /\ Provider(v) # p
                               => user'[v].pc = "rotated",
           \A c \in Clients : client'[c].pc = "storing" =>
              \/ client'[c] = client[c]
              \/ /\ client'[c].set.token = issued + 1
                 /\ client'[c].set.expires = now + 1,
           UNCHANGED <<rotated, now, faults>>
    PROVE  TokenFacts'
<1>0. /\ \A v \in Users : Provider(v)' = Provider(v) /\ Presents(v)' = Presents(v)
      /\ issued \in Nat /\ now \in Nat
  BY DEF IInv, Typed, Provider, Presents
<1>t. file'[p] = Torn /\ (\A q \in Providers : q # p => file'[q] = file[q])
      /\ Torn.kind # "oauth"
  BY DEF IInv, Typed, Torn
<1>1. ASSUME NEW q \in Providers, NEW n, Known(q, n)' PROVE Known(q, n)
  BY <1>0, <1>t, <1>1 DEF Known
<1>3. Unread'
  <2>1. ASSUME NEW u \in Users, user'[u].pc \in Holding
        PROVE  /\ ~Known(Provider(u), user[u].token.token)'
               /\ user'[u].token.token \in 1..issued
    <3>1. user[u].pc \in Holding /\ user[u].pc \in Refreshing
      BY <2>1 DEF Holding, Refreshing
    <3>2. Provider(u) \in Providers /\ user[u].token.token \in 1..issued
      BY <3>1, InRefresh DEF IInv
    <3> QED BY <1>0, <1>1, <2>1, <3>1, <3>2 DEF IInv, TokenFacts, Unread
  <2>2. ASSUME NEW c \in Clients, client'[c].pc = "storing"
        PROVE  /\ ~Known(client[c].provider, client[c].set.token)'
               /\ \A u \in Users : user'[u].pc \in Holding
                                   => user'[u].token.token # client'[c].set.token
    <3>0. client'[c].provider \in Providers
      BY <2>2 DEF Kinds, FitsConnection, LoggingIn
    <3>1. CASE client'[c] = client[c]
      <4>1. ~Known(client[c].provider, client[c].set.token)
        BY <2>2, <3>1 DEF IInv, TokenFacts, Unread
      <4> QED BY <1>1, <2>2, <3>0, <3>1, <4>1 DEF IInv, TokenFacts, Unread
    <3>2. CASE client'[c].set.token = issued + 1
      <4>1. ~Known(client'[c].provider, issued + 1)
        BY <1>0, <3>0, KnownIsIssued DEF IInv
      <4> QED BY <1>0, <1>1, <2>1, <3>0, <3>2, <4>1
    <3> QED BY <2>2, <3>1, <3>2
  <2> QED BY <2>1, <2>2 DEF Unread
<1>4. Outlives'
  <2>1. \A v \in Users : user'[v].pc = "wait" => user'[v].at <= now'
    BY DEF IInv, TokenFacts, Outlives
  <2>2. \A v \in Users : user'[v].pc \in Holding => now' < user'[v].token.expires
    BY DEF IInv, TokenFacts, Outlives
  <2>3. \A c \in Clients : client'[c].pc = "storing" => now' < client'[c].set.expires
    BY <1>0 DEF IInv, TokenFacts, Outlives
  <2> QED BY <2>1, <2>2, <2>3 DEF Outlives
<1>5. ShowsRotated'
  <2>1. ASSUME faults' = 0, NEW q \in Providers, file'[q].kind = "oauth",
               <<q, file'[q].token>> \in rotated'
        PROVE  \E v \in Users : user'[v].pc = "rotated" /\ Provider(v)' = q
    <3>1. q # p /\ file'[q] = file[q]
      BY <1>t, <2>1
    <3>2. PICK v \in Users : user[v].pc = "rotated" /\ Provider(v) = q
      BY <2>1, <3>1 DEF IInv, TokenFacts, ShowsRotated
    <3> QED BY <1>0, <3>1, <3>2
  <2> QED BY <2>1 DEF ShowsRotated
<1>6. Noticed'
  <2>1. ASSUME faults' = 0, NEW w \in Users, user'[w].pc = "wait",
               Presents(w)' \in rotated'
        PROVE  \/ file'[Provider(w)'] = Torn \/ Newer(w)'
               \/ \E v \in Users : user'[v].pc \in Holding
                                   /\ Provider(v)' = Provider(w)'
    <3>1. user[w].pc = "wait" /\ Presents(w) \in rotated /\ Provider(w)' = Provider(w)
          /\ Provider(w) \in Providers
      BY <1>0, <2>1, InRefresh DEF IInv, Refreshing
    <3>2. CASE Provider(w) = p
      BY <1>t, <3>1, <3>2
    <3>3. CASE Provider(w) # p
      <4>1. Newer(w) => Newer(w)'
        BY <1>t, <3>1, <3>3 DEF Newer
      <4> QED BY <1>0, <1>t, <2>1, <3>1, <3>3, <4>1 DEF IInv, TokenFacts, Noticed
    <3> QED BY <3>2, <3>3
  <2> QED BY <2>1 DEF Noticed
<1> QED BY <1>3, <1>4, <1>5, <1>6 DEF TokenFacts

\* A token reaches its file: it becomes known, and whoever waits notices.
LEMMA Stores ==
    ASSUME IInv, Kinds', NEW p \in Providers, NEW t \in Credentials,
           NEW f \in {t, Torn}, file' = [file EXCEPT ![p] = f],
           ~Known(p, t.token), now < t.expires,
           \A v \in Users : user'[v].pc \in Refreshing => user'[v] = user[v],
           \A v \in Users : user'[v].pc \in Holding => user[v].token.token # t.token,
           \A v \in Users : user[v].pc = "rotated" => user'[v] = user[v],
           \A v \in Users : user[v].pc \in Holding /\ Provider(v) # p
                            => user'[v] = user[v],
           \A c \in Clients : client'[c].pc = "storing" =>
              client'[c] = client[c] /\ client[c].set.token # t.token,
           UNCHANGED <<rotated, now, faults>>
    PROVE  TokenFacts'
<1>0. \A v \in Users : user'[v].pc \in Refreshing =>
         /\ Provider(v)' = Provider(v) /\ Presents(v)' = Presents(v)
         /\ Provider(v) \in Providers /\ user[v].pc \in Refreshing
  BY InRefresh DEF IInv, Provider, Presents
<1>h. Holding \subseteq Refreshing /\ "wait" \in Refreshing /\ "rotated" \in Holding
  BY DEF Holding, Refreshing
<1>t. /\ file'[p] = f /\ \A q \in Providers : q # p => file'[q] = file[q]
      /\ Torn.kind # "oauth" /\ t.kind = "oauth"
  BY DEF IInv, Typed, Torn, Credentials
<1>1. ASSUME NEW q \in Providers, NEW n, Known(q, n)'
      PROVE  Known(q, n) \/ (q = p /\ n = t.token)
  BY <1>0, <1>t, <1>1 DEF Known
<1>3. Unread'
  <2>1. ASSUME NEW u \in Users, user'[u].pc \in Holding
        PROVE  ~Known(Provider(u), user[u].token.token)'
    <3>1. user'[u] = user[u] /\ Provider(u) \in Providers /\ Provider(u)' = Provider(u)
      BY <1>0, <1>h, <2>1
    <3>2. ~Known(Provider(u), user[u].token.token) /\ user[u].token.token # t.token
      BY <2>1, <3>1 DEF IInv, TokenFacts, Unread
    <3> QED BY <1>1, <3>1, <3>2
  <2>2. ASSUME NEW c \in Clients, client'[c].pc = "storing"
        PROVE  ~Known(client[c].provider, client[c].set.token)'
    <3>1. client'[c] = client[c] /\ client[c].provider \in Providers
      BY <2>2 DEF Kinds, FitsConnection, LoggingIn
    <3>2. ~Known(client[c].provider, client[c].set.token)
          /\ client[c].set.token # t.token
      BY <2>2, <3>1 DEF IInv, TokenFacts, Unread
    <3> QED BY <1>1, <3>1, <3>2
  <2>3. \A u \in Users, c \in Clients :
           user'[u].pc \in Holding /\ client'[c].pc = "storing"
           => user'[u].token.token # client'[c].set.token
    BY <1>h DEF IInv, TokenFacts, Unread
  <2> QED BY <2>1, <2>2, <2>3 DEF Unread
<1>4. Outlives'
  <2>1. \A v \in Users : user'[v].pc = "wait" => user'[v].at <= now'
    BY <1>h DEF IInv, TokenFacts, Outlives
  <2>2. \A v \in Users : user'[v].pc \in Holding => now' < user'[v].token.expires
    BY <1>h DEF IInv, TokenFacts, Outlives
  <2>3. \A c \in Clients : client'[c].pc = "storing" => now' < client'[c].set.expires
    BY DEF IInv, TokenFacts, Outlives
  <2> QED BY <2>1, <2>2, <2>3 DEF Outlives
<1>5. ShowsRotated'
  <2>1. ASSUME faults' = 0, NEW q \in Providers, file'[q].kind = "oauth",
               <<q, file'[q].token>> \in rotated'
        PROVE  \E v \in Users : user'[v].pc = "rotated" /\ Provider(v)' = q
    <3>1. q # p /\ file'[q] = file[q]
      BY <1>t, <2>1 DEF Known
    <3>2. PICK v \in Users : user[v].pc = "rotated" /\ Provider(v) = q
      BY <2>1, <3>1 DEF IInv, TokenFacts, ShowsRotated
    <3> QED BY <3>2 DEF Provider
  <2> QED BY <2>1 DEF ShowsRotated
<1>6. Noticed'
  <2>1. ASSUME faults' = 0, NEW w \in Users, user'[w].pc = "wait",
               Presents(w)' \in rotated'
        PROVE  \/ file'[Provider(w)'] = Torn \/ Newer(w)'
               \/ \E v \in Users : user'[v].pc \in Holding
                                   /\ Provider(v)' = Provider(w)'
    <3>1. /\ user'[w] = user[w] /\ Provider(w)' = Provider(w)
          /\ Presents(w) \in rotated /\ Provider(w) \in Providers
      BY <1>0, <1>h, <2>1
    <3>2. CASE Provider(w) = p
      <4>1. CASE f = Torn
        BY <1>t, <3>1, <3>2, <4>1
      <4>2. CASE f = t
        <5>1. user[w].at <= now /\ user[w].at \in Nat /\ now \in Nat /\ t.expires \in Nat
          BY <2>1, <3>1 DEF IInv, TokenFacts, Outlives, Typed, UserRecord, Credentials
        <5>2. user[w].at < t.expires
          BY <5>1
        <5> QED BY <1>t, <3>1, <3>2, <4>2, <5>2 DEF Newer
      <4> QED BY <4>1, <4>2
    <3>3. CASE Provider(w) # p
      <4>1. Newer(w) => Newer(w)'
        BY <1>t, <3>1, <3>3 DEF Newer
      <4>2. ASSUME NEW v \in Users, user[v].pc \in Holding, Provider(v) = Provider(w)
            PROVE  user'[v].pc \in Holding /\ Provider(v)' = Provider(w)'
        BY <3>1, <3>3, <4>2 DEF Provider
      <4> QED BY <1>t, <2>1, <3>1, <3>3, <4>1, <4>2 DEF IInv, TokenFacts, Noticed
    <3> QED BY <3>2, <3>3
  <2> QED BY <2>1 DEF Noticed
<1> QED BY <1>3, <1>4, <1>5, <1>6 DEF TokenFacts

(***************************************************************************)
(* Every step keeps the statements about tokens.                           *)
(***************************************************************************)
LEMMA TokensStep ==
    ASSUME IInv, Kinds', Typed', NEW u \in Users, Tokens(u)
    PROVE  TokenFacts'
<1> now \in Nat /\ issued \in Nat /\ faults \in Nat /\ faults' \in Nat
    /\ user[u] \in UserRecord
  BY BoundAssumption DEF IInv, Typed
<1>0. /\ \A v \in Users : v # u => user'[v] = user[v]
      /\ UNCHANGED <<now, client>>
      /\ \A s : Goes(u, s) => user'[u] = s
  BY TokensEffect DEF IInv, Goes, Typed
<1>q. ASSUME user'[u].pc \notin Refreshing, UNCHANGED <<file, rotated>>,
             user[u].pc \in Holding => faults' > 0, faults' = 0 => faults = 0
      PROVE  TokenFacts'
  <2>1. \A v \in Users : user'[v].pc \in Refreshing => user'[v] = user[v]
    BY <1>0, <1>q
  <2>2. \A v \in Users : user'[v].pc \in Holding => now' < user'[v].token.expires
    BY <1>0, <1>q DEF IInv, TokenFacts, Outlives, Holding, Refreshing
  <2>3. \A c \in Clients : client'[c].pc = "storing" => now' < client'[c].set.expires
    BY <1>0 DEF IInv, TokenFacts, Outlives
  <2>4. faults' = 0 => faults = 0 /\ \A v \in Users :
                          user[v].pc \in Holding => user'[v] = user[v]
    BY <1>0, <1>q
  <2>5. now' \in Nat /\ now <= now'
    BY <1>0
  <2> QED BY <1>0, <1>q, <2>1, <2>2, <2>3, <2>4, <2>5, Quiet DEF IInv, TokenFacts
<1>a. \A c : Answer(u, c).pc \notin Refreshing /\ GivesUp(u).pc \notin Refreshing
  BY DEF Answer, GivesUp, WorkingWith, Resting, UserRecord, Refreshing
<1>1. CASE ReadCredential(u)
  <2>0. user[u].pc = "call" /\ UNCHANGED <<file, rotated, faults>>
    BY <1>1 DEF ReadCredential, provider_side
  <2>1. CASE user'[u].pc \notin Refreshing
    BY <1>q, <2>0, <2>1 DEF Holding
  <2>2. CASE user'[u].pc \in Refreshing
    <3>1. file[Provider(u)].kind = "oauth"
          /\ Goes(u, [user[u] EXCEPT !.pc = "wait", !.at = now, !.seen = file[Provider(u)]])
      BY <1>0, <1>1, <1>a, <2>2 DEF ReadCredential, Provider
    <3>2. PICK r \in UserRecord : r = user[u]
      OBVIOUS
    <3>3. PICK s : s = [r EXCEPT !.pc = "wait", !.at = now, !.seen = file[Provider(u)]]
      OBVIOUS
    <3>4. s.pc = "wait" /\ s.workflow = r.workflow /\ s.at = now
          /\ s.seen = file[Provider(u)]
      BY <3>3 DEF UserRecord
    <3>5. user'[u] = s
      BY <1>0, <3>1, <3>2, <3>3
    <3>6. user[u].workflow \in Workflow
      BY <2>0 DEF IInv, Kinds, FitsTask
    <3> QED BY <1>0, <2>0, <3>1, <3>2, <3>4, <3>5, <3>6, StartsToWait
  <2> QED BY <2>1, <2>2
<1>2. CASE LockAndCheck(u)
  <2>0. user[u].pc = "wait" /\ UNCHANGED <<file, rotated, faults>>
    BY <1>2 DEF LockAndCheck, provider_side
  <2>1. CASE user'[u].pc \notin Refreshing
    BY <1>q, <2>0, <2>1 DEF Holding
  <2>2. CASE user'[u].pc \in Refreshing
    <3>1. Goes(u, [user[u] EXCEPT !.pc = "helper"])
      BY <1>0, <1>2, <1>a, <2>2 DEF LockAndCheck
    <3>2. PICK r \in UserRecord : r = user[u]
      OBVIOUS
    <3>3. PICK s : s = [r EXCEPT !.pc = "helper"]
      OBVIOUS
    <3>4. s.pc = "helper" /\ s.workflow = r.workflow /\ s.seen = r.seen
      BY <3>3 DEF UserRecord
    <3>5. user'[u] = s
      BY <1>0, <3>1, <3>2, <3>3
    <3> QED BY <1>0, <2>0, <3>2, <3>4, <3>5, AsksHelper
  <2> QED BY <2>1, <2>2
<1>3. CASE HelperRotates(u)
  <2>0. user[u].pc = "helper" /\ rotated' = rotated \cup {Presents(u)}
        /\ UNCHANGED <<file, faults>>
        /\ Goes(u, [user[u] EXCEPT !.pc = "rotated",
                                   !.token = Oauth(issued + 1, now + 1)])
    BY <1>3 DEF HelperRotates
  <2>1. PICK r \in UserRecord : r = user[u]
    OBVIOUS
  <2>2. PICK t : t = Oauth(issued + 1, now + 1)
    OBVIOUS
  <2>3. PICK s : s = [r EXCEPT !.pc = "rotated", !.token = t]
    OBVIOUS
  <2>4. t.token = issued + 1 /\ t.expires = now + 1
    BY <2>2, OauthTyped
  <2>5. s.pc = "rotated" /\ s.workflow = r.workflow /\ s.seen = r.seen /\ s.token = t
    BY <2>3 DEF UserRecord
  <2>6. user'[u] = s
    BY <1>0, <2>0, <2>1, <2>2, <2>3
  <2> QED BY <1>0, <2>0, <2>1, <2>4, <2>5, <2>6, Rotates
<1>4. CASE HelperFails(u)
  BY <1>0, <1>4, <1>a, <1>q DEF HelperFails, provider_side, Holding
<1>5. CASE OpenRotated(u)
  <2>0. user[u].pc = "rotated" /\ file' = [file EXCEPT ![Provider(u)] = Torn]
        /\ Goes(u, [user[u] EXCEPT !.pc = "storing"]) /\ UNCHANGED <<rotated, faults>>
    BY <1>5 DEF OpenRotated, Truncate, Provider, provider_side
  <2>1. PICK r \in UserRecord : r = user[u]
    OBVIOUS
  <2>2. PICK s : s = [r EXCEPT !.pc = "storing"]
    OBVIOUS
  <2>3. s.pc = "storing" /\ s.workflow = r.workflow /\ s.seen = r.seen
        /\ s.token = r.token /\ s.at = r.at
    BY <2>2 DEF UserRecord
  <2>4. user'[u] = s
    BY <1>0, <2>0, <2>1, <2>2
  <2>5. Provider(u) \in Providers
    BY <2>0, InRefresh DEF IInv, Refreshing
  <2>6. \A v \in Users : /\ user'[v].pc \in Refreshing => user[v].pc \in Refreshing
                         /\ user'[v].workflow = user[v].workflow
                         /\ user'[v].seen = user[v].seen
                         /\ user'[v].token = user[v].token
                         /\ user'[v].at = user[v].at
                         /\ user'[v].pc = "wait" => user[v].pc = "wait"
                         /\ user[v].pc \in Holding <=> user'[v].pc \in Holding
                         /\ user[v].pc = "rotated" /\ Provider(v) # Provider(u)
                            => user'[v].pc = "rotated"
    BY <1>0, <2>0, <2>1, <2>3, <2>4 DEF Refreshing, Holding
  <2> QED BY <1>0, <2>0, <2>5, <2>6, Opens
<1>6. CASE StoreRotated(u)
  <2> DEFINE t == user[u].token  p == Provider(u)
  <2>0. user[u].pc = "storing" /\ Write(p, t) /\ user'[u].pc \notin Refreshing
        /\ UNCHANGED <<rotated, faults>>
    BY <1>0, <1>6, <1>a DEF StoreRotated, Provider, provider_side
  <2>1. p \in Providers /\ t \in Credentials /\ user[u].pc \in Holding
    BY <2>0, InRefresh DEF IInv, Refreshing, Holding
  <2>2. ~Known(p, t.token) /\ now < t.expires
        /\ \A c \in Clients : client[c].pc = "storing" => t.token # client[c].set.token
    BY <2>1 DEF IInv, TokenFacts, Unread, Outlives
  <2>3. PICK f \in {t, Torn} : file' = [file EXCEPT ![p] = f]
    BY <2>0 DEF Write, Written
  <2>4. \A v \in Users : user[v].pc \in Holding => v = u
    BY <2>0, OneHolder DEF Holding, Locking
  <2>5. /\ \A v \in Users : user'[v].pc \in Refreshing => user'[v] = user[v]
        /\ \A v \in Users : user'[v].pc \notin Holding
        /\ \A v \in Users : user[v].pc = "rotated" => user'[v] = user[v]
        /\ \A v \in Users : user[v].pc \in Holding /\ Provider(v) # p
                            => user'[v] = user[v]
    BY <1>0, <2>0, <2>4 DEF Refreshing, Holding
  <2> HIDE DEF t, p
  <2> QED BY <1>0, <2>0, <2>1, <2>2, <2>3, <2>5, Stores
<1>7. CASE StoreFails(u)
  BY <1>0, <1>7, <1>a, <1>q DEF StoreFails, Fault, provider_side
<1> QED BY <1>1, <1>2, <1>3, <1>4, <1>5, <1>6, <1>7 DEF Tokens

LEMMA LoginStep ==
    ASSUME IInv, Kinds', Typed', NEW c \in Clients, Login(c)
    PROVE  TokenFacts'
<1> now \in Nat /\ issued \in Nat /\ faults \in Nat /\ faults' \in Nat
    /\ client[c] \in ClientRecord
  BY BoundAssumption DEF IInv, Typed
<1>0. /\ \A d \in Clients : d # c => client'[d] = client[d]
      /\ UNCHANGED <<now, user, rotated>>
      /\ \A s : Becomes(c, s) => client'[c] = s
  BY LatchTaken DEF IInv, Others, Becomes, Typed
<1>i. Idle.pc = "idle"
  BY IdleTyped
<1>q. ASSUME client'[c].pc # "storing", faults' = 0 => faults = 0,
             \A p \in Providers : AuthKind[p] = "oauth" => file'[p] = file[p]
      PROVE  TokenFacts'
  <2>1. /\ \A u \in Users : user'[u].pc \in Refreshing => user'[u] = user[u]
        /\ \A d \in Clients : client'[d].pc = "storing" => client'[d] = client[d]
        /\ now' \in Nat /\ now <= now'
    BY <1>0, <1>q
  <2>2. /\ \A u \in Users : user'[u].pc \in Holding => now' < user'[u].token.expires
        /\ \A d \in Clients : client'[d].pc = "storing" => now' < client'[d].set.expires
    BY <1>0, <2>1 DEF IInv, TokenFacts, Outlives
  <2>3. faults' = 0 => faults = 0 /\ \A v \in Users :
                          user[v].pc \in Holding => user'[v] = user[v]
    BY <1>0, <1>q
  <2> QED BY <1>0, <1>q, <2>1, <2>2, <2>3, Quiet DEF IInv, TokenFacts
<1>1. CASE LoginRefused(c) \/ LoginEnds(c)
  BY <1>0, <1>1, <1>i, <1>q DEF LoginRefused, LoginEnds
<1>2. CASE Redirect(c) \/ LoginAbandoned(c)
  <2>1. PICK x \in {"redirected", "done"} : To(c, x) /\ UNCHANGED <<file, faults>>
    BY <1>2 DEF Redirect, LoginAbandoned
  <2>2. client'[c] = [client[c] EXCEPT !.pc = x]
    BY <2>1 DEF To, IInv, Typed
  <2>3. [client[c] EXCEPT !.pc = x].pc = x
    BY FieldsSet
  <2> QED BY <1>q, <2>1, <2>2, <2>3
<1>3. CASE LoginReturns(c)
  <2>0. /\ client[c].pc = "redirected" /\ UNCHANGED faults
        /\ Becomes(c, [client[c] EXCEPT !.pc = "storing",
                                        !.set = Oauth(issued + 1, now + 1)])
        /\ file' = [file EXCEPT ![client[c].provider] = Torn]
    BY <1>3 DEF LoginReturns, Truncate
  <2>1. PICK t : t = Oauth(issued + 1, now + 1)
    OBVIOUS
  <2>2. t.token = issued + 1 /\ t.expires = now + 1
    BY <2>1, OauthTyped
  <2>3. PICK s : s = [client[c] EXCEPT !.pc = "storing", !.set = t]
    OBVIOUS
  <2>4. s.set = t
    BY <2>3, FieldsSet
  <2>5. client'[c] = s
    BY <1>0, <2>0, <2>1, <2>3
  <2>6. client[c].provider \in Providers
    BY <2>0 DEF IInv, Kinds, FitsConnection, LoggingIn
  <2>7. \A d \in Clients : client'[d].pc = "storing" =>
           \/ client'[d] = client[d]
           \/ client'[d].set.token = issued + 1 /\ client'[d].set.expires = now + 1
    BY <1>0, <2>2, <2>4, <2>5
  <2>8. \A v \in Users : user'[v] = user[v]
    BY <1>0
  <2> QED BY <1>0, <2>0, <2>6, <2>7, <2>8, Opens
<1>4. CASE LoginStored(c)
  <2>0. client[c].pc = "storing"
        /\ Becomes(c, [client[c] EXCEPT !.pc = "done", !.set = None])
    BY <1>4 DEF LoginStored
  <2>1. client'[c].pc = "done"
    <3>1. PICK s : s = [client[c] EXCEPT !.pc = "done", !.set = None]
      OBVIOUS
    <3>2. s.pc = "done"
      BY <3>1, FieldsSet
    <3> QED BY <1>0, <2>0, <3>1, <3>2
  <2>2. CASE Fault /\ UNCHANGED file
    BY <1>q, <2>1, <2>2 DEF Fault
  <2>3. CASE Write(client[c].provider, client[c].set) /\ UNCHANGED faults
    <3> DEFINE t == client[c].set  p == client[c].provider
    <3>1. p \in Providers /\ t \in Credentials
      BY <2>0 DEF IInv, Kinds, FitsConnection, LoggingIn
    <3>2. ~Known(p, t.token) /\ now < t.expires
          /\ \A v \in Users : user[v].pc \in Holding => user[v].token.token # t.token
      BY <2>0 DEF IInv, TokenFacts, Unread, Outlives
    <3>3. PICK f \in {t, Torn} : file' = [file EXCEPT ![p] = f]
      BY <2>3 DEF Write, Written
    <3>4. \A d \in Clients : client[d].pc = "storing" => d = c
      BY <2>0 DEF IInv, LatchHeld, HoldsLatch
    <3>5. \A d \in Clients : client'[d].pc # "storing"
      BY <1>0, <2>1, <3>4
    <3>6. \A v \in Users : user'[v] = user[v]
      BY <1>0
    <3> HIDE DEF t, p
    <3> QED BY <1>0, <2>3, <3>1, <3>2, <3>3, <3>5, <3>6, Stores
  <2> QED BY <1>4, <2>2, <2>3 DEF LoginStored
<1>5. CASE Configured(c)
  <2>1. client[c].provider \in Providers /\ AuthKind[client[c].provider] = "api_key"
    BY <1>5 DEF Configured, IInv, Kinds, FitsConnection, IsConfigurable
  <2>2. \A p \in Providers : AuthKind[p] = "oauth" => file'[p] = file[p]
    BY <1>5, <2>1 DEF Configured, Write, IInv, Typed
  <2> QED BY <1>0, <1>5, <1>i, <1>q, <2>2 DEF Configured, Fault
<1>6. ASSUME NEW p \in Providers, LoginStart(c, p) PROVE TokenFacts'
  <2>1. [Idle EXCEPT !.pc = "started", !.provider = p].pc = "started"
    BY DEF Idle
  <2> QED BY <1>0, <1>6, <1>q, <2>1 DEF LoginStart
<1>7. ASSUME NEW p \in Providers, Configure(c, p) PROVE TokenFacts'
  <2>1. \A q \in Providers : AuthKind[q] = "oauth" => file'[q] = file[q]
    BY <1>7 DEF Configure, AcceptsKey, IsConfigurable, Truncate, IInv, Typed
  <2> QED BY <1>0, <1>7, <1>q, <2>1 DEF Configure
<1> QED BY <1>1, <1>2, <1>3, <1>4, <1>5, <1>6, <1>7 DEF Login

LEMMA TokenFactsKept == ASSUME IInv, [Next]_vars PROVE TokenFacts'
<1> Typed' /\ Kinds' /\ now \in Nat /\ faults \in Nat /\ faults' \in Nat /\ now' \in Nat
  BY TypesKept, BoundAssumption DEF IInv, Typed
<1>1. ASSUME UNCHANGED <<file, rotated, user, client, faults>>, now <= now',
             \A u \in Users : user[u].pc \in Holding => now' < user[u].token.expires,
             \A c \in Clients : client[c].pc = "storing" => now' < client[c].set.expires
      PROVE  TokenFacts'
  <2>1. faults' = 0 => faults = 0 /\ \A v \in Users :
                          user[v].pc \in Holding => user'[v] = user[v]
    BY <1>1
  <2> QED BY <1>1, <2>1, Quiet DEF IInv, TokenFacts
<1>2. CASE Tick
  <2>1. /\ \A u \in Users : user[u].pc \in Holding =>
              user[u].token.expires \in Nat /\ now + 1 < user[u].token.expires
        /\ \A c \in Clients : client[c].pc = "storing" =>
              client[c].set.expires \in Nat /\ now + 1 < client[c].set.expires
    BY <1>2 DEF Tick, Stored, LoginKept, IsExpired, Holding, IInv, Kinds, FitsTask,
                FitsConnection, Credentials
  <2> QED BY <1>1, <1>2, <2>1 DEF Tick, provider_side
<1>3. CASE UNCHANGED vars
  BY <1>1, <1>3 DEF vars, IInv, TokenFacts, Outlives
<1>4. CASE Crash
  <2>1. /\ faults' > 0 /\ UNCHANGED <<now, file, rotated>>
        /\ \A u \in Users : user'[u].pc \notin Refreshing
        /\ \A c \in Clients : client'[c].pc # "storing"
    BY <1>4, CrashTyped, IdleTyped DEF IInv, Crash, provider_side
  <2>2. \A u \in Users : user'[u].pc \notin Holding
    BY <2>1 DEF Holding, Refreshing
  <2> QED BY <2>1, <2>2, Quiet DEF IInv, TokenFacts
<1>5. ASSUME NEW u \in Users, TaskActions(u) PROVE TokenFacts'
  <2>1. /\ UNCHANGED <<now, client, file, rotated, faults>>
        /\ user[u].pc \notin Refreshing /\ user'[u].pc \notin Refreshing
        /\ \A v \in Users : v # u => user'[v] = user[v]
    BY <1>5, TaskActionsTyped DEF IInv, Rest, provider_side
  <2>2. /\ \A v \in Users : user'[v].pc \in Refreshing => user'[v] = user[v]
        /\ \A v \in Users : user[v].pc \in Holding => user'[v] = user[v]
        /\ \A v \in Users : user'[v].pc \in Holding => now' < user'[v].token.expires
        /\ \A c \in Clients : client'[c].pc = "storing" => now' < client'[c].set.expires
    BY <2>1 DEF Refreshing, Holding, IInv, TokenFacts, Outlives
  <2> QED BY <2>1, <2>2, Quiet DEF IInv, TokenFacts
<1>6. ASSUME NEW c \in Clients, c \in Curators, Curate(c) PROVE TokenFacts'
  <2>1. /\ UNCHANGED <<now, user, file, rotated>> /\ faults <= faults'
        /\ client'[c].pc \notin LoggingIn
        /\ \A d \in Clients : d # c => client'[d] = client[d]
    BY <1>6, CurateTyped DEF IInv, Others, provider_side
  <2>2. /\ \A d \in Clients : client'[d].pc = "storing" => client'[d] = client[d]
        /\ \A v \in Users : user'[v].pc \in Holding => now' < user'[v].token.expires
        /\ \A d \in Clients : client'[d].pc = "storing" => now' < client'[d].set.expires
    BY <2>1 DEF LoggingIn, IInv, TokenFacts, Outlives
  <2>3. faults' = 0 => faults = 0 /\ \A v \in Users :
                          user[v].pc \in Holding => user'[v] = user[v]
    BY <2>1
  <2> QED BY <2>1, <2>2, <2>3, Quiet DEF IInv, TokenFacts
<1> QED BY <1>2, <1>3, <1>4, <1>5, <1>6, NextSplits, TokensStep, LoginStep

LEMMA InitIInv == Init => IInv
<1> SUFFICES ASSUME Init PROVE IInv
  OBVIOUS
<1>1. PICK k \in {None, Oauth(1, 1)} :
        file = [p \in Providers |-> IF LoginAllowed(p) THEN k ELSE None]
  BY DEF Init
<1>2. /\ Oauth(1, 1) \in Credentials /\ Oauth(1, 1).kind = "oauth"
      /\ Oauth(1, 1).token = 1 /\ None.kind = "none"
  BY OauthTyped DEF None
<1>3. Resting \in UserRecord /\ Resting.pc = "idle"
      /\ \A c : \A n : Idle \in ClientRecord /\ Idle.pc = "idle" /\ FitsConnection(c, Idle, n)
  BY RestingTyped, IdleTyped
<1>4. Typed
  <2>1. file \in [Providers -> Contents]
    BY <1>1, <1>2 DEF Contents
  <2>2. user \in [Users -> UserRecord] /\ client \in [Clients -> ClientRecord]
    BY <1>3 DEF Init
  <2>3. prefs \in [model : {Unset} \cup Models, enabled : SUBSET Models]
    BY DEF Init
  <2>4. latch \in BOOLEAN /\ lock \in Users \cup {Nobody}
        /\ rotated \subseteq Providers \X (1..issued)
    BY DEF Init
  <2>5. now \in 0..MaxNow /\ issued \in 1..MaxToken /\ sets \in 0..MaxSets
        /\ faults \in 0..MaxFaults
    BY BoundAssumption DEF Init
  <2> QED BY <2>1, <2>2, <2>3, <2>4, <2>5 DEF Typed
<1>5. Kinds
  <2>1. ASSUME NEW p \in Providers PROVE FitsFile(p, file[p], issued)
    BY <1>1, <1>2 DEF FitsFile, LoginAllowed, Init
  <2>2. ASSUME NEW u \in Users PROVE FitsTask(user[u], issued)
    BY <1>3 DEF Init, FitsTask, Refreshing, Holding
  <2>3. ASSUME NEW c \in Clients PROVE FitsConnection(c, client[c], issued)
    BY <1>3 DEF Init
  <2> QED BY <2>1, <2>2, <2>3 DEF Kinds
<1>6. LockHeld /\ LatchHeld
  BY <1>3, TaskAssumption DEF Init, LockHeld, LatchHeld, HoldsLatch
<1>7. TokenFacts
  BY <1>3 DEF Init, TokenFacts, Unread, Outlives, ShowsRotated, Noticed, Holding
<1> QED BY <1>4, <1>5, <1>6, <1>7 DEF IInv

\* The invariant of every behaviour.
LEMMA Invariance == SpecAccounts => []IInv
<1>1. IInv /\ [Next]_vars => IInv'
  <2>1. IInv /\ [Next]_vars => Typed' /\ Kinds' /\ LockHeld' /\ LatchHeld'
    BY TypesKept, LocksKept DEF IInv
  <2>2. IInv /\ [Next]_vars => TokenFacts'
    BY TokenFactsKept
  <2> QED BY <2>1, <2>2 DEF IInv
<1> QED BY <1>1, InitIInv, PTL DEF SpecAccounts

(***************************************************************************)
(* Settings.                                                               *)
(***************************************************************************)
LEMMA CuratedKept ==
    ASSUME IInv, Curated, OneCurator, [Next]_vars
    PROVE  Curated'
<1> faults \in Nat /\ faults' \in Nat
  BY TypesKept, BoundAssumption DEF IInv, Typed
<1>q. ASSUME UNCHANGED prefs, faults' = 0 => faults = 0,
             \A c \in Clients :
                \/ client'[c] = client[c]
                \/ /\ client[c].pc \notin {"enabling", "preferring"}
                   /\ client'[c].pc \notin {"enabling", "preferring"}
      PROVE  Curated'
  <2>1. Curating' <=> Curating
    BY <1>q DEF Curating
  <2>2. PreferredModel' = PreferredModel
        /\ \A q : EffectiveModel(q)' = EffectiveModel(q)
                  /\ EffectiveEnabled(q)' = EffectiveEnabled(q)
    BY <1>q DEF PreferredModel, EffectiveModel, EffectiveEnabled
  <2> QED BY <1>q, <2>1, <2>2 DEF Curated
<1>1. CASE Tick \/ UNCHANGED vars
  BY <1>1, <1>q DEF Tick, vars, settings
<1>2. CASE Crash
  BY <1>2, CrashTyped DEF IInv, Curated
<1>3. ASSUME NEW u \in Users, Tokens(u) PROVE Curated'
  <2>1. UNCHANGED <<client, prefs>>
    BY <1>3, TokensEffect DEF IInv, settings
  <2>2. faults' = 0 => faults = 0
    BY <1>3 DEF Tokens, ReadCredential, LockAndCheck, HelperRotates, HelperFails,
                OpenRotated, StoreRotated, StoreFails, Fault
  <2> QED BY <1>q, <2>1, <2>2
<1>4. ASSUME NEW u \in Users, TaskActions(u) PROVE Curated'
  BY <1>4, <1>q, TaskActionsTyped DEF IInv, Rest, settings
<1>5. ASSUME NEW c \in Clients, Login(c) PROVE Curated'
  <2>1. /\ UNCHANGED prefs
        /\ faults' = 0 => faults = 0
        /\ client[c].pc \notin {"enabling", "preferring"}
    <3>1. CASE LoginRefused(c) \/ Redirect(c) \/ LoginReturns(c) \/ LoginAbandoned(c)
               \/ LoginEnds(c)
      BY <3>1 DEF LoginRefused, Redirect, LoginReturns, LoginAbandoned, LoginEnds,
                  settings
    <3>2. CASE LoginStored(c) \/ Configured(c)
      BY <3>2 DEF LoginStored, Configured, settings, Fault
    <3>3. ASSUME NEW p \in Providers, LoginStart(c, p) \/ Configure(c, p)
          PROVE  /\ UNCHANGED <<prefs, faults>>
                 /\ client[c].pc \notin {"enabling", "preferring"}
      BY <3>3 DEF LoginStart, Configure, settings
    <3> QED BY <1>5, <3>1, <3>2, <3>3 DEF Login
  <2>2. client'[c].pc \notin {"enabling", "preferring"}
    <3>1. \A s : Becomes(c, s) => client'[c] = s
      BY DEF Becomes, IInv, Typed
    <3>2. client[c] \in ClientRecord
      BY DEF IInv, Typed
    <3>3. ASSUME NEW x \in {"redirected", "done"}, To(c, x) PROVE client'[c].pc = x
      <4>1. client'[c] = [client[c] EXCEPT !.pc = x]
        BY <3>3 DEF To, IInv, Typed
      <4>2. [client[c] EXCEPT !.pc = x].pc = x
        BY <3>2, FieldsSet
      <4> QED BY <4>1, <4>2
    <3>4. ASSUME NEW x \in {"storing", "done"}, NEW t,
                 Becomes(c, [client[c] EXCEPT !.pc = x, !.set = t])
          PROVE  client'[c].pc = x
      <4>1. [client[c] EXCEPT !.pc = x, !.set = t].pc = x
        BY <3>2, FieldsSet
      <4>2. client'[c] = [client[c] EXCEPT !.pc = x, !.set = t]
        BY <3>1, <3>4
      <4> QED BY <4>1, <4>2
    <3>5. ASSUME NEW p \in Providers, LoginStart(c, p) PROVE client'[c].pc = "started"
      <4>1. [Idle EXCEPT !.pc = "started", !.provider = p].pc = "started"
        BY DEF Idle
      <4> QED BY <3>1, <3>5, <4>1 DEF LoginStart
    <3>6. ASSUME NEW p \in Providers, Configure(c, p)
          PROVE  client'[c].pc = "configuring"
      BY <3>1, <3>6 DEF Configure
    <3>7. CASE Becomes(c, Idle)
      BY <3>1, <3>7, IdleTyped
    <3> QED BY <1>5, <3>3, <3>4, <3>5, <3>6, <3>7
            DEF Login, LoginRefused, Redirect, LoginReturns, LoginStored,
                LoginAbandoned, LoginEnds, Configured
  <2>3. \A d \in Clients : d # c => client'[d] = client[d]
    BY <1>5, LatchTaken DEF IInv
  <2> QED BY <1>q, <2>1, <2>2, <2>3
<1>6. ASSUME NEW c \in Clients, c \in Curators, Curate(c) PROVE Curated'
  <2>0. /\ \A d \in Clients : d # c => client'[d] = client[d]
        /\ \A d \in Clients : client[d].pc \in {"enabling", "preferring"} => d = c
        /\ \A d \in Clients : client'[d].pc \in {"enabling", "preferring"} => d = c
        /\ client[c] \in ClientRecord
    <3>1. \A d \in Clients : client[d].pc \in {"enabling", "preferring"} => d \in Curators
      BY DEF IInv, Kinds, FitsConnection
    <3>2. \A d \in Clients : d # c => client'[d] = client[d]
      BY <1>6, CurateTyped DEF IInv
    <3> QED BY <1>6, <3>1, <3>2 DEF OneCurator, IInv, Typed
  <2>b. \A s : Becomes(c, s) => client'[c] = s
    BY DEF Becomes, IInv, Typed
  <2>1. CASE SetFails(c)
    BY <2>1 DEF SetFails, Fault, Curated
  <2>2. ASSUME NEW q \in SetRequests, SetSettings(c, q) PROVE Curated'
    <3>1. /\ client'[c] = [Idle EXCEPT !.pc = "enabling", !.set = q]
          /\ UNCHANGED <<prefs, faults>> /\ Admissible(q)
      BY <2>2, <2>b DEF SetSettings
    <3>2. client'[c].pc = "enabling" /\ client'[c].set = q
      BY <3>1 DEF Idle
    <3>3. EffectiveModel(q) # Unset
      BY RequestTyped, ModelHasProvider DEF IInv
    <3>4. Stands(EffectiveEnabled(q), EffectiveModel(q))
      BY <3>1, <3>3 DEF Admissible, Stands
    <3>5. EffectiveEnabled(q)' = EffectiveEnabled(q)
          /\ EffectiveModel(q)' = EffectiveModel(q)
      BY <3>1 DEF EffectiveEnabled, EffectiveModel, PreferredModel
    <3>6. Curating' /\ \A d \in Clients : client'[d].pc # "preferring"
      BY <2>0, <3>2 DEF Curating
    <3>7. \A d \in Clients : client'[d].pc = "enabling" => d = c
      BY <2>0
    <3> QED BY <3>2, <3>4, <3>5, <3>6, <3>7 DEF Curated
  <2>3. CASE WriteEnabled(c)
    <3> DEFINE q == client[c].set
    <3>1. /\ client[c].pc = "enabling" /\ UNCHANGED faults
          /\ client'[c] = [client[c] EXCEPT !.pc = "preferring"]
          /\ prefs' = [prefs EXCEPT !.enabled = EffectiveEnabled(q)]
      BY <2>3 DEF WriteEnabled, To, EffectiveEnabled, IInv, Typed
    <3>2. client'[c].pc = "preferring" /\ client'[c].set = q
      BY <2>0, <3>1, FieldsSet
    <3>3. prefs'.enabled = EffectiveEnabled(q) /\ prefs'.model = prefs.model
      BY <3>1 DEF IInv, Typed
    <3>4. EffectiveModel(q)' = EffectiveModel(q)
      BY <3>2, <3>3 DEF EffectiveModel, PreferredModel
    <3>5. faults = 0 => Stands(EffectiveEnabled(q), EffectiveModel(q))
      BY <3>1 DEF Curated
    <3>6. Curating' /\ \A d \in Clients : client'[d].pc # "enabling"
      BY <2>0, <3>2 DEF Curating
    <3>7. faults' = 0 => \A d \in Clients : client'[d].pc = "preferring" =>
             Stands(prefs'.enabled, EffectiveModel(client[d].set)')
      BY <2>0, <3>1, <3>2, <3>3, <3>4, <3>5
    <3> QED BY <3>6, <3>7 DEF Curated
  <2>4. CASE WriteModel(c)
    <3> DEFINE q == client[c].set
    <3>1. /\ client[c].pc = "preferring" /\ UNCHANGED faults /\ client'[c] = Idle
          /\ prefs' = [prefs EXCEPT !.model = IF q.model = Unset THEN @ ELSE q.model]
      BY <2>4, <2>b DEF WriteModel
    <3>2. prefs'.enabled = prefs.enabled
          /\ prefs'.model = (IF q.model = Unset THEN prefs.model ELSE q.model)
      BY <3>1 DEF IInv, Typed
    <3>3. PreferredModel' = EffectiveModel(q)
      BY <3>2 DEF PreferredModel, EffectiveModel
    <3>4. faults = 0 => Stands(prefs.enabled, EffectiveModel(q))
      BY <3>1 DEF Curated
    <3>5. \A d \in Clients : client'[d].pc \notin {"enabling", "preferring"}
      BY <2>0, <3>1, IdleTyped
    <3> QED BY <3>1, <3>2, <3>3, <3>4, <3>5 DEF Curated
  <2> QED BY <1>6, <2>1, <2>2, <2>3, <2>4 DEF Curate
<1> QED BY <1>1, <1>2, <1>3, <1>4, <1>5, <1>6, NextSplits

(***************************************************************************)
(* Theorems.                                                               *)
(***************************************************************************)
\* Files, tasks, connections and settings stay well typed, and a file never
\* holds a credential of another provider's kind (credentials.rs write,
\* providers.rs is_configurable and login_allowed).
LEMMA TypeOKFromIInv == IInv => TypeOK
<1> SUFFICES ASSUME IInv PROVE TypeOK
  OBVIOUS
<1>1. \A u \in Users : user[u].pc \in UserPcs
  BY DEF IInv, Typed, UserRecord
<1>2. \A c \in Clients : client[c].pc \in ClientPcs
  BY DEF IInv, Typed, ClientRecord
<1>3. \A p \in Providers : file[p].kind \in {"none", "torn", AuthKind[p]}
  BY DEF IInv, Kinds, FitsFile
<1>4. prefs.enabled \subseteq Models /\ prefs.model \in {Unset} \cup Models
  BY DEF IInv, Typed
<1> QED BY <1>1, <1>2, <1>3, <1>4 DEF TypeOK, IInv, Typed, UserPcs, ClientPcs

LEMMA OneOwnerFromIInv == IInv => LatchHasOneOwner
<1> SUFFICES ASSUME IInv PROVE LatchHasOneOwner
  OBVIOUS
<1> DEFINE H == {c \in Clients : HoldsLatch(c)}
<1>1. CASE latch
  <2>1. PICK c \in Clients : HoldsLatch(c)
    BY <1>1 DEF IInv, LatchHeld
  <2>2. H = {c}
    BY <2>1 DEF IInv, LatchHeld
  <2>3. Cardinality(H) = 1
    BY <2>2, FS_Singleton
  <2> QED BY <1>1, <2>3 DEF LatchHasOneOwner
<1>2. CASE ~latch
  <2>1. H = {}
    BY <1>2 DEF IInv, LatchHeld
  <2>2. Cardinality(H) = 0
    BY <2>1, FS_EmptySet
  <2> QED BY <1>2, <2>2 DEF LatchHasOneOwner
<1> QED BY <1>1, <1>2

LEMMA DefaultFromCurated == Curated => DefaultIsEnabled
BY DEF Curated, DefaultIsEnabled, StoredDefaultIsEnabled, CurrentSettings, Stands

\* Whoever logs in, reconnects or fails, the login slot is taken exactly while
\* one connection's login is under way, and every credential, token and
\* setting keeps its provider's kind (runs/provider.rs, credentials.rs).
THEOREM LatchOwned == SpecAccounts => [](TypeOK /\ LatchHasOneOwner)
<1>1. IInv => TypeOK /\ LatchHasOneOwner
  BY TypeOKFromIInv, OneOwnerFromIInv
<1> QED BY <1>1, Invariance, PTL

\* Besides, without a failed write the preferred model is enabled between two
\* requests of the one connection that curates.  With two of them it is false:
\* settings/set checks against two rows and writes them one after the other.
THEOREM SettledBetweenRequests ==
    ASSUME OneCurator
    PROVE  SpecAccounts => []BetweenRequests
<1>1. Init => Curated
  <2> SUFFICES ASSUME Init PROVE Curated
    OBVIOUS
  <2>1. \A c \in Clients : client[c].pc = "idle"
    BY IdleTyped DEF Init
  <2>2. Stands(prefs.enabled, PreferredModel)
    BY DEF Init, Stands
  <2> QED BY <2>1, <2>2 DEF Curated
<1>2. IInv /\ Curated /\ [Next]_vars => Curated'
  BY CuratedKept
<1>3. IInv /\ Curated => BetweenRequests
  BY TypeOKFromIInv, OneOwnerFromIInv, DefaultFromCurated DEF BetweenRequests
<1> QED BY <1>1, <1>2, <1>3, Invariance, PTL DEF SpecAccounts

\* A refresh token that has been rotated is never handed to a helper again,
\* whoever waited for the lock and whatever a login wrote meanwhile, while no
\* write has failed and Core has not died (provider_auth.rs resolve_oauth).
THEOREM RefreshedOnce == SpecAccounts => RefreshUsedOnce
<1>1. ASSUME IInv, [Next]_vars, faults = 0, NEW u \in Users,
             user'[u].pc = "helper", user[u].pc # "helper"
      PROVE  Presents(u) \notin rotated
  <2>1. Tokens(u)
    <3>1. ~(Tick \/ UNCHANGED vars)
      BY <1>1 DEF Tick, vars
    <3>2. ~Crash
      BY <1>1, CrashTyped DEF IInv, Refreshing
    <3>3. ASSUME NEW v \in Users, Tokens(v) PROVE v = u
      BY <1>1, <3>3, TokensEffect DEF IInv
    <3>4. ASSUME NEW v \in Users PROVE ~TaskActions(v)
      <4>1. ASSUME TaskActions(v) PROVE FALSE
        <5>1. /\ user'[v].pc \notin Refreshing
              /\ \A w \in Users : w # v => user'[w] = user[w]
          BY <1>1, <4>1, TaskActionsTyped DEF IInv
        <5> QED BY <1>1, <5>1 DEF Refreshing
      <4> QED BY <4>1
    <3>5. ASSUME NEW c \in Clients PROVE ~(Login(c) \/ (c \in Curators /\ Curate(c)))
      BY <1>1, <3>5, LatchTaken, CurateTyped DEF IInv, Others
    <3> QED BY <1>1, <3>1, <3>2, <3>3, <3>4, <3>5, NextSplits
  <2>0. /\ user[u] \in UserRecord
        /\ \A s : Goes(u, s) => user'[u] = s
        /\ \A c : Answer(u, c).pc # "helper"
        /\ GivesUp(u).pc # "helper"
    <3>1. user[u] \in UserRecord
      BY <1>1 DEF IInv, Typed
    <3>2. \A c : Answer(u, c).pc # "helper" /\ GivesUp(u).pc # "helper"
      BY <3>1 DEF Answer, GivesUp, WorkingWith, Resting, UserRecord
    <3>3. \A s : Goes(u, s) => user'[u] = s
      BY <1>1 DEF IInv, Typed, Goes
    <3> QED BY <1>1, <3>1, <3>2, <3>3 DEF IInv, Typed
  <2>2. LockAndCheck(u)
    <3>1. ~ReadCredential(u)
      BY <1>1, <2>0 DEF ReadCredential, UserRecord
    <3>2. ~HelperRotates(u) /\ ~OpenRotated(u)
      BY <1>1, <2>0 DEF HelperRotates, OpenRotated, UserRecord
    <3>3. ~HelperFails(u) /\ ~StoreRotated(u) /\ ~StoreFails(u)
      BY <1>1, <2>0 DEF HelperFails, StoreRotated, StoreFails
    <3> QED BY <2>1, <3>1, <3>2, <3>3 DEF Tokens
  <2>3. /\ user[u].pc = "wait" /\ lock = Nobody
        /\ file[Provider(u)] # Torn /\ ~Refreshed(u, file[Provider(u)])
    BY <1>1, <2>0, <2>2 DEF LockAndCheck, Provider
  <2>4. ~Newer(u)
    <3>1. Provider(u) \in Providers /\ user[u].at \in Nat
      BY <1>1, <2>0, <2>3, InRefresh DEF IInv, Refreshing, UserRecord
    <3>2. file[Provider(u)].kind = "oauth" => file[Provider(u)].expires \in Nat
      BY <1>1, <3>1, ContentsByKind DEF IInv, Typed, Credentials
    <3> QED BY <2>3, <3>1, <3>2 DEF Newer, Refreshed, IsExpired
  <2>5. \A v \in Users : user[v].pc \notin Holding
    BY <1>1, <2>3, TaskAssumption DEF IInv, LockHeld, Holding
  <2> QED BY <1>1, <2>3, <2>4, <2>5 DEF IInv, TokenFacts, Noticed
<1>2. IInv /\ [Next]_vars =>
        [faults = 0 => \A u \in Users :
            user'[u].pc = "helper" /\ user[u].pc # "helper"
            => Presents(u) \notin rotated]_vars
  BY <1>1
<1> QED BY <1>2, Invariance, PTL DEF SpecAccounts, RefreshUsedOnce

\* A Run that parked goes on with the model and the provider it began with
\* (db/runs.rs run_workflow_snapshot against runs/settings.rs).
THEOREM ModelKept == SpecAccounts => RunKeepsItsModel
<1>1. ASSUME IInv, [Next]_vars, NEW r \in Runs, user[r].pc \notin {"idle", "over"}
      PROVE  user'[r].workflow = user[r].workflow \/ user'[r].pc \in {"over", "done"}
  <2>0. r \in Users /\ user[r] \in UserRecord /\ \A s : Goes(r, s) => user'[r] = s
    BY <1>1 DEF IInv, Typed, Users, Goes
  <2>1. CASE Tick \/ UNCHANGED vars
    BY <2>1 DEF Tick, vars
  <2>2. CASE Crash
    <3>1. user'[r] = user[r] \/ user'[r] = GivesUp(r)
      BY <2>0, <2>2 DEF Crash
    <3>2. GivesUp(r).pc = "over"
      BY RestingTyped
    <3> QED BY <3>1, <3>2
  <2>3. ASSUME NEW u \in Users, Tokens(u)
        PROVE  user'[r].workflow = user[r].workflow \/ user'[r].pc \in {"over", "done"}
    <3>1. CASE u # r
      BY <1>1, <2>0, <2>3, <3>1, TokensEffect DEF IInv
    <3>2. CASE u = r /\ user'[r].pc \in Refreshing
      BY <1>1, <2>3, <3>2, TokensEffect DEF IInv
    <3>3. CASE u = r /\ user'[r].pc \notin Refreshing
      <4>1. ASSUME NEW c PROVE Answer(r, c).workflow = user[r].workflow
                               \/ Answer(r, c).pc = "over"
        <5>1. GivesUp(r).pc = "over"
          BY RestingTyped
        <5>2. WorkingWith(r, c).workflow = user[r].workflow
          BY <2>0 DEF WorkingWith, UserRecord
        <5> QED BY <5>1, <5>2 DEF Answer
      <4>2. GivesUp(r).pc = "over"
        BY RestingTyped
      <4>4. {"wait", "helper", "rotated", "storing"} = Refreshing
        BY DEF Refreshing
      <4>5. CASE ReadCredential(r)
        <5>1. ~Goes(r, [user[r] EXCEPT !.pc = "wait", !.at = now,
                                       !.seen = file[user[r].workflow.provider]])
          <6>1. PICK s : s = [user[r] EXCEPT !.pc = "wait", !.at = now,
                                             !.seen = file[user[r].workflow.provider]]
            OBVIOUS
          <6>2. s.pc = "wait"
            BY <2>0, <6>1 DEF UserRecord
          <6>3. ~Goes(r, s)
            BY <2>0, <3>3, <4>4, <6>2
          <6> QED BY <6>1, <6>3
        <5>2. (\E c : Goes(r, Answer(r, c))) \/ Goes(r, GivesUp(r))
          BY <4>5, <5>1 DEF ReadCredential
        <5> QED BY <2>0, <4>1, <4>2, <5>2
      <4>6. CASE LockAndCheck(r)
        <5>1. ~Goes(r, [user[r] EXCEPT !.pc = "helper"])
          <6>1. PICK s : s = [user[r] EXCEPT !.pc = "helper"]
            OBVIOUS
          <6>2. s.pc = "helper"
            BY <2>0, <6>1 DEF UserRecord
          <6> QED BY <2>0, <3>3, <4>4, <6>1, <6>2
        <5>2. (\E c : Goes(r, Answer(r, c))) \/ Goes(r, GivesUp(r))
          BY <4>6, <5>1 DEF LockAndCheck
        <5> QED BY <2>0, <4>1, <4>2, <5>2
      <4>7. CASE HelperRotates(r) \/ OpenRotated(r)
        <5>1. PICK s : /\ Goes(r, s)
                       /\ \/ s = [user[r] EXCEPT !.pc = "rotated",
                                                 !.token = Oauth(issued + 1, now + 1)]
                          \/ s = [user[r] EXCEPT !.pc = "storing"]
          BY <4>7 DEF HelperRotates, OpenRotated
        <5>2. s.pc \in {"rotated", "storing"}
          BY <2>0, <5>1 DEF UserRecord
        <5> QED BY <2>0, <3>3, <4>4, <5>1, <5>2
      <4>8. CASE HelperFails(r) \/ StoreRotated(r) \/ StoreFails(r)
        BY <2>0, <4>1, <4>2, <4>8 DEF HelperFails, StoreRotated, StoreFails
      <4> QED BY <2>3, <3>3, <4>5, <4>6, <4>7, <4>8 DEF Tokens
    <3> QED BY <3>1, <3>2, <3>3
  <2>4. ASSUME NEW u \in Users, TaskActions(u)
        PROVE  user'[r].workflow = user[r].workflow \/ user'[r].pc \in {"over", "done"}
    <3>1. CASE u # r
      BY <1>1, <2>0, <2>4, <3>1, TaskActionsTyped DEF IInv
    <3>2. CASE u = r
      <4>1. GivesUp(r).pc = "over" /\ Done(r).pc = "done"
        BY RestingTyped
      <4>2. /\ [user[r] EXCEPT !.pc = "parked", !.token = None].workflow
               = user[r].workflow
            /\ [user[r] EXCEPT !.pc = "call", !.workflow = user[r].workflow].workflow
               = user[r].workflow
        BY <2>0 DEF UserRecord
      <4>3. CASE Park(r)
        BY <2>0, <4>2, <4>3 DEF Park
      <4>4. CASE Resume(r)
        BY <2>0, <4>2, <4>4 DEF Resume, ResumeWorkflow
      <4>5. CASE FinishRun(r) \/ FinishProbe(r)
        BY <2>0, <4>1, <4>5 DEF FinishRun, FinishProbe
      <4> QED BY <1>1, <2>4, <3>2, <4>3, <4>4, <4>5
              DEF TaskActions, StartRun, Retry, StartProbe
    <3> QED BY <3>1, <3>2
  <2>5. ASSUME NEW c \in Clients, Login(c) \/ (c \in Curators /\ Curate(c))
        PROVE  user' = user
    BY <1>1, <2>5, LatchTaken, CurateTyped DEF IInv, Others
  <2> QED BY <1>1, <2>1, <2>2, <2>3, <2>4, <2>5, NextSplits
<1>2. IInv /\ [Next]_vars =>
        [\A r \in Runs : user[r].pc \notin {"idle", "over"}
          => user'[r].workflow = user[r].workflow
             \/ user'[r].pc \in {"over", "done"}]_vars
  BY <1>1
<1> QED BY <1>2, Invariance, PTL DEF SpecAccounts, RunKeepsItsModel
=============================================================================
