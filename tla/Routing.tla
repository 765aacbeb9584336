------------------------------ MODULE Routing ------------------------------
(***************************************************************************)
(* The routing policy of a running core and what replaces parts of it      *)
(* concurrently (crates/core/src/lib.rs, resources.rs): the periodic       *)
(* refresh of routing resources, rule updates, network reports and changes *)
(* of the ad-block allowlist.  Every step is one critical section or one   *)
(* await-free stretch of the code; `installing` stands for the resources   *)
(* and policy write locks the refresh holds over several of them.          *)
(*                                                                         *)
(* Geo data is abstracted to tags and the version of the file they were    *)
(* read from.  Rules are the set of tags they refer to.                    *)
(***************************************************************************)
EXTENDS Integers, FiniteSets, Functions

CONSTANTS
    Tag,            \* geosite categories
    RuleLists,      \* rule lists an app may set: sets of tags
    GlobalTags,     \* tags of dns.nameserver-policy and fake-ip-filter
    Network,        \* networks the host may report
    Override(_),    \* the network-overrides entry in effect on a network
    OverrideTags(_),\* tags of an override's nameserver-policy
    Allow,          \* allowlists
    Updater,        \* concurrent callers of update_policy
    Reporter,       \* concurrent callers of set_network
    Setter          \* concurrent callers of set_adblock_allow

ASSUME RoutingAssumption ==
    /\ RuleLists \subseteq SUBSET Tag
    /\ GlobalTags \subseteq Tag
    /\ Updater \cap Reporter = {} /\ Updater \cap Setter = {} /\ Reporter \cap Setter = {}

VARIABLES
    disk,       \* version of each resource file: "geo", "list"
    expired,    \* files past their update interval
    loaded,     \* Core::resources: tag -> version of the file it was read from
    lists,      \* the snapshot's ad-block filter, a number per filter built
    raw,        \* Policy::raw_rules
    rules,      \* Policy::rules: tag -> version bound
    marked,     \* the network the rules' NETWORK-NAME conditions are set for
    network,    \* Core::network
    applied,    \* the override in the resolver's policy
    filter,     \* the resolver's ad-block filter
    userAllow,  \* filter -> its user_allow
    allow,      \* Core::adblock_allow
    task,       \* the refresh: where it is and what it holds
    pending     \* per concurrent caller: where it is and what it holds

vars == <<disk, expired, loaded, lists, raw, rules, marked, network, applied,
          filter, userAllow, allow, task, pending>>

File == {"geo", "list"}
Idle == [at |-> "idle"]
ConfigAllow == CHOOSE a \in Allow : TRUE
Refs(list) == list \cup GlobalTags
Bind(data, list) == Restrict(data, list)
\* Every tag of the global and the override's nameserver-policy is loaded.
Resolvable(data, override) == GlobalTags \cup OverrideTags(override) \subseteq DOMAIN data
Put(fn, key, value) ==
    [x \in DOMAIN fn \cup {key} |-> IF x = key THEN value ELSE fn[x]]

Init ==
    /\ disk = [f \in File |-> 1]
    /\ expired = {}
    /\ raw \in RuleLists
    /\ loaded = [t \in Refs(raw) |-> 1]
    /\ lists = 0
    /\ rules = Bind(loaded, raw)
    /\ network \in Network
    /\ marked = network
    /\ applied = Override(network)
    /\ Resolvable(loaded, applied)
    /\ filter = 0
    /\ allow = ConfigAllow
    /\ userAllow = [g \in {0} |-> ConfigAllow]
    /\ task = Idle
    /\ pending = [p \in Updater \cup Reporter \cup Setter |-> Idle]

policyVars == <<raw, rules, marked>>
networkVars == <<network, applied>>
adblockVars == <<filter, userAllow, allow>>

-----------------------------------------------------------------------------
(***************************************************************************)
(* prepare_resources and Resources::load.                                  *)
(***************************************************************************)
\* The update interval of a file passes.
Age(f) ==
    /\ f \notin expired
    /\ expired' = expired \cup {f}
    /\ UNCHANGED <<disk, loaded, lists, policyVars, networkVars, adblockVars, task, pending>>

Refresh ==
    /\ task = Idle
    /\ task' = [at |-> "loading", list |-> raw]
    /\ UNCHANGED <<disk, expired, loaded, lists, policyVars, networkVars, adblockVars, pending>>

\* The file was not downloaded, and the active snapshot has every tag.
Reusable(staged, list) == "geo" \notin staged /\ Refs(list) \subseteq DOMAIN loaded

\* asset: a file past its interval is downloaded under a temporary name; after a
\* failed download, as before the interval, the current one is used.
Downloaded(staged) == staged \subseteq expired

Load(staged) ==
    /\ task.at = "loading"
    /\ Downloaded(staged)
    /\ LET version == disk["geo"] + IF "geo" \in staged THEN 1 ELSE 0
           data == IF Reusable(staged, task.list) THEN Bind(loaded, Refs(task.list))
                   ELSE [t \in Refs(task.list) |-> version]
       IN  task' = [at |-> "staged", list |-> task.list, data |-> data, staged |-> staged]
    /\ UNCHANGED <<disk, expired, loaded, lists, policyVars, networkVars, adblockVars, pending>>

\* A provider, category or database is missing or invalid: nothing is kept.
LoadFails ==
    /\ task.at = "loading"
    /\ task' = Idle
    /\ UNCHANGED <<disk, expired, loaded, lists, policyVars, networkVars, adblockVars, pending>>

Replace(files) ==
    /\ disk' = [f \in File |-> IF f \in files THEN disk[f] + 1 ELSE disk[f]]
    /\ expired' = expired \ files
    /\ UNCHANGED <<loaded, lists, policyVars, networkVars, adblockVars, pending>>

Commit ==
    /\ task.at = "staged"
    /\ Replace(task.staged)
    /\ task' = [at |-> "built", list |-> task.list, data |-> task.data]

\* A rename fails: the files before it are replaced already (geo data first).
CommitFails(done) ==
    /\ task.at = "staged"
    /\ done \subseteq task.staged
    /\ done # task.staged
    /\ "list" \in done => "geo" \notin task.staged \ done
    /\ Replace(done)
    /\ task' = Idle

\* Mutant: the rules compiled are those read before the download.
CompiledList == task.list
\* The list is read again under the policy lock.
Compiled == raw

NewLists ==
    LET new == Cardinality(DOMAIN userAllow)
    IN  filter' = new /\ userAllow' = Put(userAllow, new, ConfigAllow)

\* The rules set meanwhile refer to data that was not loaded.
CompileFails ==
    /\ task.at = "built"
    /\ ~(Compiled \subseteq DOMAIN task.data)
    /\ task' = Idle
    /\ UNCHANGED <<disk, expired, loaded, lists, policyVars, networkVars, adblockVars, pending>>

\* Under both write locks the rules are compiled; Resolver::configure makes the
\* new filter live, compiles the DNS policy and applies the override.
Configure ==
    /\ task.at = "built"
    /\ Compiled \subseteq DOMAIN task.data
    /\ NewLists
    /\ IF Resolvable(task.data, Override(network))
       THEN /\ applied' = Override(network)
            /\ task' = [at |-> "installing", rules |-> Bind(task.data, Compiled), data |-> task.data]
       ELSE /\ UNCHANGED applied
            /\ task' = Idle
    /\ UNCHANGED <<disk, expired, loaded, lists, policyVars, network, allow, pending>>

\* Mutant: the new lists keep the configured allowlist.
InstalledConfigured == ConfigAllow
InstalledAllow == allow

\* The allowlist, the NETWORK-NAME conditions, the rules, the snapshot.
Install ==
    /\ task.at = "installing"
    /\ userAllow' = [userAllow EXCEPT ![filter] = InstalledAllow]
    /\ marked' = network
    /\ rules' = task.rules
    /\ loaded' = task.data
    /\ lists' = filter
    /\ task' = Idle
    /\ UNCHANGED <<disk, expired, raw, networkVars, filter, allow, pending>>

Unlocked == task.at # "installing"

-----------------------------------------------------------------------------
(***************************************************************************)
(* update_policy: compiled against the resources, installed later.         *)
(***************************************************************************)
Compile(p, list) ==
    /\ pending[p] = Idle
    /\ Unlocked
    /\ list \subseteq DOMAIN loaded
    /\ pending' = [pending EXCEPT ![p] = [at |-> "compiled", list |-> list, rules |-> Bind(loaded, list)]]
    /\ UNCHANGED <<disk, expired, loaded, lists, policyVars, networkVars, adblockVars, task>>

SetRules(p) ==
    /\ pending[p].at = "compiled"
    /\ Unlocked
    /\ marked' = network
    /\ rules' = pending[p].rules
    /\ raw' = pending[p].list
    /\ pending' = [pending EXCEPT ![p] = Idle]
    /\ UNCHANGED <<disk, expired, loaded, lists, networkVars, adblockVars, task>>

(***************************************************************************)
(* set_network: store, mark the rules, apply a changed override.           *)
(***************************************************************************)
StoreNetwork(p, n) ==
    /\ pending[p] = Idle
    /\ network' = n
    /\ pending' = [pending EXCEPT ![p] = [at |-> "stored", active |-> Override(n), changed |-> Override(network) # Override(n)]]
    /\ UNCHANGED <<disk, expired, loaded, lists, policyVars, applied, adblockVars, task>>

MarkRules(p) ==
    /\ pending[p].at = "stored"
    /\ Unlocked
    /\ marked' = network
    /\ pending' = [pending EXCEPT ![p] = IF @.changed THEN [at |-> "marked", active |-> @.active] ELSE Idle]
    /\ UNCHANGED <<disk, expired, loaded, lists, raw, rules, networkVars, adblockVars, task>>

\* Mutant: the override is the one this caller reported.
CurrentReported(p) == pending[p].active
\* The override is read under the resources lock.
CurrentOverride(p) == Override(network)

ApplyOverride(p) ==
    /\ pending[p].at = "marked"
    /\ Unlocked
    /\ filter' = lists
    /\ applied' = IF Resolvable(loaded, CurrentOverride(p)) THEN CurrentOverride(p) ELSE applied
    /\ pending' = [pending EXCEPT ![p] = Idle]
    /\ UNCHANGED <<disk, expired, loaded, lists, policyVars, network, userAllow, allow, task>>

(***************************************************************************)
(* set_adblock_allow: store, then change the filter that is live by then.  *)
(***************************************************************************)
StoreAllow(p, a) ==
    /\ pending[p] = Idle
    /\ allow' = a
    /\ pending' = [pending EXCEPT ![p] = [at |-> "allowed", allow |-> a]]
    /\ UNCHANGED <<disk, expired, loaded, lists, policyVars, networkVars, filter, userAllow, task>>

TakeFilter(p) ==
    /\ pending[p].at = "allowed"
    /\ pending' = [pending EXCEPT ![p] = [at |-> "filter", allow |-> @.allow, filter |-> filter]]
    /\ UNCHANGED <<disk, expired, loaded, lists, policyVars, networkVars, adblockVars, task>>

ChangeFilter(p) ==
    /\ pending[p].at = "filter"
    /\ userAllow' = [userAllow EXCEPT ![pending[p].filter] = pending[p].allow]
    /\ pending' = [pending EXCEPT ![p] = Idle]
    /\ UNCHANGED <<disk, expired, loaded, lists, policyVars, networkVars, filter, allow, task>>

RefreshStep ==
    \/ Refresh
    \/ \E staged \in SUBSET File : Load(staged)
    \/ LoadFails
    \/ Commit
    \/ \E done \in SUBSET File : CommitFails(done)
    \/ CompileFails
    \/ Configure
    \/ Install

Next ==
    \/ \E f \in File : Age(f)
    \/ RefreshStep
    \/ \E p \in Updater : (\E list \in RuleLists : Compile(p, list)) \/ SetRules(p)
    \/ \E p \in Reporter : (\E n \in Network : StoreNetwork(p, n)) \/ MarkRules(p) \/ ApplyOverride(p)
    \/ \E p \in Setter : (\E a \in Allow : StoreAllow(p, a)) \/ TakeFilter(p) \/ ChangeFilter(p)

Spec == Init /\ [][Next]_vars

-----------------------------------------------------------------------------

\* The rules in force are the list last set, whatever the refresh that ran over
\* its change had read (prepare_resources compiles raw_rules again).
RulesMatchRaw == DOMAIN rules = raw

Reporting == \E p \in Reporter : pending[p] # Idle

\* set_network: "the last applied is always the current one", and rules compiled
\* or marked around a report never miss it: with no report in progress, the
\* NETWORK-NAME conditions in force are the current network's, and so is the
\* override when its tags are loaded.
NetworkInForce ==
    ~Reporting /\ Unlocked =>
       /\ marked = network
       /\ Resolvable(loaded, Override(network)) => applied = Override(network)

\* No configure has failed since the snapshot was installed: its filter is the
\* last one built.
FilterInstalled == Unlocked /\ lists = Cardinality(DOMAIN userAllow) - 1

\* prepare_resources: "a concurrent change of the allowlist reaches them either
\* here or in set_adblock_allow": with no change in progress, the live filter
\* has the allowlist last set.
AllowInForce ==
    FilterInstalled /\ (\A p \in Setter : pending[p] = Idle) => userAllow[filter] = allow
=============================================================================
