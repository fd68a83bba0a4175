---------------------------- MODULE PolicyRules ----------------------------
(***************************************************************************)
(* The policies of one application (policy_manager_impl): how they are     *)
(* read from the configuration, copied from the base, extended by hosts    *)
(* that appear later, updated and removed at run time, and how they        *)
(* decide.  An interval map of the code is the set of the points it maps   *)
(* to; identifiers are numbers up to Top, which stands for 0xFFFF.         *)
(***************************************************************************)
EXTENDS Naturals, Sequences, FiniteSets, SequencesExt

CONSTANTS
    Top,          \* the largest identifier; also ANY_METHOD
    Users,        \* the user and group identifiers that ask
    Files,        \* [BaseFile and the hosts -> a sequence of policy documents]
    BaseFile,     \* the file every application is configured with
    Updates,      \* [credentials -> the policies they may be updated with]
    Askers,       \* the credentials of those that ask,
    Asked,        \* and the members they ask for
    MaxChanges    \* bound on updates, removals and added credentials

VARIABLES
    pm,           \* the application's policy_manager_impl
    force,        \* what the policies say that were read or received, not removed
    changes       \* updates, removals and added credentials so far

Ids == 1..Top
ANY_METHOD == Top
Credentials == Users \X Users
EmptyPolicy == [who |-> {}, allow_who |-> FALSE, requests |-> {}, offers |-> {},
                allow_what |-> FALSE]

-----------------------------------------------------------------------------
(* Reading the configuration.  A list of identifiers and ranges is a set   *)
(* of pairs <<first, last>>; "any" is the pair <<0, Top>>.                 *)

load_interval_set(tree) == UNION {r[1]..r[2] : r \in tree}

load_credential(list) ==
    UNION {load_interval_set(c.uid) \X load_interval_set(c.gid) : c \in list}

\* One entry below "requests": an instance (0 is none, Top + 1 is "any"), or
\* instances with methods, or, when those name nothing, plain instances.
RequestsOf(n) ==
    LET Legacy == (IF n.instance > Top THEN Ids ELSE {n.instance} \ {0}) \X Ids
        Methods(p) == IF load_interval_set(p.methods) = {} THEN Ids
                      ELSE load_interval_set(p.methods)
        New == UNION {load_interval_set(p.ids) \X Methods(p) : p \in n.instances}
        Plain == load_interval_set(n.plain) \X Ids
        pairs == Legacy \cup (IF Legacy \cup New = {} THEN Plain ELSE New)
    IN  IF n.service = 0 THEN {} ELSE {<<n.service, x[1], x[2]>> : x \in pairs}

\* One entry below "offers"; "any" instance ends before 0xFFFF.
OffersOf(n) ==
    LET instances == IF n.instance > Top THEN 1..(Top - 1)
                     ELSE ({n.instance} \ {0}) \cup load_interval_set(n.plain)
    IN  IF n.service = 0 THEN {} ELSE {n.service} \X instances

load_policy_body(p, element) ==
    [p EXCEPT !.requests = @ \cup UNION {RequestsOf(n) : n \in element.requests},
              !.offers = @ \cup UNION {OffersOf(n) : n \in element.offers}]

\* A document is a sequence of elements: credentials (a pair, ranges, or an
\* "allow" or "deny" list) and bodies, of which the last says allow or deny.
LoadElement(p, element) ==
    CASE element.tag = "credentials" ->
             [p EXCEPT !.who = @ \cup load_credential(element.list),
                       !.allow_who = element.kind # "deny"]
      [] element.tag = "allow" -> load_policy_body([p EXCEPT !.allow_what = TRUE], element)
      [] element.tag = "deny" -> load_policy_body([p EXCEPT !.allow_what = FALSE], element)

exist_in_any_client_policies(m, p) == p \in Range(m.policies)

load_policy(m, document) ==
    LET p == FoldLeft(LoadElement, EmptyPolicy, document)
    IN  IF exist_in_any_client_policies(m, p) THEN m
        ELSE [m EXCEPT !.policies = Append(@, p)]

load_policies(m, file) ==
    FoldLeft(load_policy, [m EXCEPT !.enabled = TRUE,
        !.check = IF file.check = "absent" THEN @ ELSE file.check = "true"], file.policies)

\* Who may be updated, with which services; only the base file says so.
load_security_update_whitelist(m, file) ==
    [m EXCEPT !.whitelist = [uids |-> load_interval_set(file.uids),
                             services |-> load_interval_set(file.services),
                             check |-> file.check_whitelist]]

NoPolicies == [enabled |-> FALSE, check |-> FALSE, policies |-> << >>,
               cache |-> {}, loaded |-> {},
               whitelist |-> [uids |-> {}, services |-> {}, check |-> FALSE]]

load(m, file, lazy) ==
    IF lazy THEN load_policies(m, file)
    ELSE load_security_update_whitelist(load_policies(m, file), file)

\* The permission cache belongs to one application and is not copied.
init_from_base(base) == [base EXCEPT !.cache = {}]

\* A host's extension is read once.
lazy_load_security(m, host) ==
    IF host \in m.loaded THEN m
    ELSE [load(m, Files[host], TRUE) EXCEPT !.loaded = @ \cup {host}]

-----------------------------------------------------------------------------
(* Changes at run time.                                                    *)

\* Bug: the cached permissions of the credentials survive the removal.
remove_security_policy_KeepsCache(m, c) ==
    [m EXCEPT !.policies = SelectSeq(@, LAMBDA p : ~(p.allow_who /\ c \in p.who))]

remove_security_policy(m, c) ==
    IF m.policies = << >> THEN m
    ELSE [m EXCEPT !.policies = SelectSeq(@, LAMBDA p : ~(p.allow_who /\ c \in p.who)),
                   !.cache = {k \in @ : k[1] # c}]

update_security_policy(m, c, policy) ==
    LET Matches(p) == p.who = {c} /\ p.allow_who = policy.allow_who
        n == SelectInSeq(m.policies, Matches)
    IN  [m EXCEPT !.policies =
             IF n = 0 THEN Append(@, policy)
             ELSE [@ EXCEPT ![n].requests = @ \cup policy.requests,
                            ![n].offers = @ \cup policy.offers],
                  !.cache = {k \in @ : k[1] # c}]

is_policy_update_allowed(m, c, policy) ==
    \/ c[1] \in m.whitelist.uids /\ \A r \in policy.requests : r[1] \in m.whitelist.services
    \/ ~m.whitelist.check

is_policy_removal_allowed(m, c) == c[1] \in m.whitelist.uids \/ ~m.whitelist.check

\* Credentials only: the policy allows nothing but lets the client in.
CredentialsOnly(c) == [EmptyPolicy EXCEPT !.who = {c}, !.allow_who = TRUE, !.allow_what = TRUE]

add_security_credentials(m, c) ==
    IF \E p \in Range(m.policies) : p.allow_who /\ c \in p.who THEN m
    ELSE [m EXCEPT !.policies = Append(@, CredentialsOnly(c))]

-----------------------------------------------------------------------------
(* Decisions.  A client is known by its credentials; one that connects     *)
(* over TCP has none and is not checked.                                   *)

Concerns(p, c) == (c \in p.who) = p.allow_who

check_credentials(m, c) ==
    \/ ~m.enabled
    \/ \E p \in Range(m.policies) : Concerns(p, c)
    \/ ~m.check

\* What one policy says of a request for a service (method 0) or a member.
Permits(p, c, key, is_request) ==
    LET is_matching == \E r \in p.requests :
            r[1] = key[1] /\ r[2] = key[2] /\ (is_request \/ r[3] = key[3])
    IN  /\ Concerns(p, c)
        /\ IF p.allow_what THEN is_matching
           ELSE ~is_matching /\ (key[3] # ANY_METHOD \/ p.requests = {})

Cached(m, c, key) == <<c, key>> \in m.cache
FoundPolicy(m, c, key, is_request) ==
    \E p \in Range(m.policies) : Permits(p, c, key, is_request)

is_client_allowed(m, c, key, is_request) ==
    \/ ~m.enabled
    \/ Cached(m, c, key)
    \/ FoundPolicy(m, c, key, is_request)
    \/ ~m.check

\* The cache remembers what a policy permitted.
AfterQuery(m, c, key, is_request) ==
    IF m.enabled /\ ~Cached(m, c, key) /\ FoundPolicy(m, c, key, is_request)
    THEN [m EXCEPT !.cache = @ \cup {<<c, key>>}] ELSE m

is_offer_allowed(m, c, offer) ==
    \/ ~m.enabled
    \/ \E p \in Range(m.policies) : Concerns(p, c) /\ p.allow_what = (offer \in p.offers)
    \/ ~m.check

-----------------------------------------------------------------------------
(* What a document says, read directly.                                    *)

LastOf(document, tags) ==
    document[CHOOSE n \in DOMAIN document : document[n].tag \in tags /\
        \A m \in DOMAIN document : document[m].tag \in tags => m <= n]

Names(r, k) == \E x \in r : x[1] <= k /\ k <= x[2]
NamesMember(n, i, m) ==
    \/ n.instance \in {i, Top + 1}
    \/ \E p \in n.instances : Names(p.ids, i) /\ (Names(p.methods, m) \/ p.methods = {})
    \/ n.instance = 0 /\ n.instances = {} /\ Names(n.plain, i)

Meaning(document) ==
    LET Elements(tags) == {e \in Range(document) : e.tag \in tags}
        bodies == Elements({"allow", "deny"})
    IN  [who |-> {c \in (0..Top) \X (0..Top) : \E e \in Elements({"credentials"}) :
                    \E l \in e.list : Names(l.uid, c[1]) /\ Names(l.gid, c[2])},
         allow_who |-> LastOf(document, {"credentials"}).kind # "deny",
         requests |-> {k \in Ids \X Ids \X Ids : \E e \in bodies : \E n \in e.requests :
                         n.service = k[1] /\ NamesMember(n, k[2], k[3])},
         offers |-> {o \in Ids \X Ids : \E e \in bodies : \E n \in e.offers :
                       n.service = o[1] /\
                       (n.instance = o[2] \/ (n.instance > Top /\ o[2] < Top) \/ Names(n.plain, o[2]))},
         allow_what |-> LastOf(document, {"allow", "deny"}).tag = "allow"]

Meanings(file) == {Meaning(d) : d \in Range(Files[file].policies)}

-----------------------------------------------------------------------------
(* An application: configured at its start, then hosts, updates, removals, *)
(* credentials and queries in any order.  force keeps, besides, what each  *)
(* policy says that was read or received and not removed since.            *)

Init ==
    /\ pm = init_from_base(load(NoPolicies, Files[BaseFile], FALSE))
    /\ force = Meanings(BaseFile)
    /\ changes = 0

LazyLoad(host) ==
    /\ host \notin pm.loaded
    /\ pm' = lazy_load_security(pm, host)
    /\ force' = force \cup Meanings(host)
    /\ UNCHANGED changes

UpdatePolicy(c, policy) ==
    /\ changes < MaxChanges
    /\ IF is_policy_update_allowed(pm, c, policy)
       THEN pm' = update_security_policy(pm, c, policy) /\ force' = force \cup {policy}
       ELSE UNCHANGED <<pm, force>>
    /\ changes' = changes + 1

RemovePolicy(c) ==
    /\ changes < MaxChanges
    /\ IF is_policy_removal_allowed(pm, c)
       THEN /\ pm' = remove_security_policy(pm, c)
            /\ force' = {p \in force : ~(p.allow_who /\ c \in p.who)}
       ELSE UNCHANGED <<pm, force>>
    /\ changes' = changes + 1

AddCredentials(c) ==
    /\ changes < MaxChanges
    /\ pm' = add_security_credentials(pm, c)
    /\ force' = IF pm' = pm THEN force ELSE force \cup {CredentialsOnly(c)}
    /\ changes' = changes + 1

AccessMember(c, key) ==
    /\ pm' = AfterQuery(pm, c, key, FALSE)
    /\ UNCHANGED <<force, changes>>

RequestService(c, s, i) ==
    /\ pm' = AfterQuery(pm, c, <<s, i, 0>>, TRUE)
    /\ UNCHANGED <<force, changes>>

Next ==
    \/ \E host \in DOMAIN Files \ {BaseFile} : LazyLoad(host)
    \/ \E c \in DOMAIN Updates : RemovePolicy(c) \/ \E policy \in Updates[c] : UpdatePolicy(c, policy)
    \/ \E c \in Askers : AddCredentials(c)
    \/ \E c \in Askers, key \in Asked : AccessMember(c, key) \/ RequestService(c, key[1], key[2])

Spec == Init /\ [][Next]_<<pm, force, changes>>

\* Whatever was read, received, removed and asked before, each decision is
\* the one the policies in force give: the cache never outlives a policy
\* (is_client_allowed, remove_security_policy, update_security_policy), and
\* reading a document element by element loses nothing (load_policy).
DecisionsFollowPolicies ==
    \A c \in Credentials, s \in Ids, i \in Ids :
        /\ \A m \in Ids : is_client_allowed(pm, c, <<s, i, m>>, FALSE) <=>
                (~pm.check \/ \E p \in force : Permits(p, c, <<s, i, m>>, FALSE))
        /\ is_client_allowed(pm, c, <<s, i, 0>>, TRUE) <=>
                (~pm.check \/ \E p \in force : Permits(p, c, <<s, i, 0>>, TRUE))
        /\ is_offer_allowed(pm, c, <<s, i>>) <=>
                (~pm.check \/ \E p \in force : Concerns(p, c) /\ p.allow_what = (<<s, i>> \in p.offers))
        /\ check_credentials(pm, c) <=> (~pm.check \/ \E p \in force : Concerns(p, c))
=============================================================================
