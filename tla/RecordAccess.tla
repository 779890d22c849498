---------------------------- MODULE RecordAccess ----------------------------
(***************************************************************************)
(* Reading records over HTTP: details, locators, playback, overlapping     *)
(* records and the exports, while policies are granted and revoked,        *)
(* principals disabled and records republished.                            *)
(*                                                                         *)
(* A request is one session: the principal and its scope are resolved, the *)
(* service reads records through the scope's filter and adds audit events, *)
(* the session commits, and only then is the client answered.  The scope   *)
(* is the one of the first step: what changes later in the request is not  *)
(* seen.  Roles and groups of a rule are spelled out as principals, and    *)
(* there is one tenant.                                                    *)
(***************************************************************************)
EXTENDS Integers, FiniteSets, FiniteSetsExt

CONSTANTS
  Handlers,        \* request threads
  PrincipalType,   \* principal -> "admin", "user" or "service_account"
  PolicyLevel,     \* policy -> its security level
  LocationPolicy,  \* location -> policy, or Unbound
  CameraSite,      \* camera -> [location, policy]
  Rows,            \* observation records that may be published
  FirstRows,       \* the ones at the start
  Ttl, MaxTime,    \* lifetime of a playback token; bound of the clock
  Rulings,         \* rules an administrator may give a policy: [allowed, denied]
  MaxChanges       \* bound: changes by administrators and workers

Unbound == "unbound"
AllPrincipals == DOMAIN PrincipalType
AllPolicies == DOMAIN PolicyLevel

\* SecurityLevel: public < internal < confidential < restricted.
Levels == 0..3

ASSUME AccessAssumption ==
  /\ PolicyLevel \in [AllPolicies -> Levels]
  /\ FirstRows \subseteq Rows
  /\ \A r \in Rows : r.level \in Levels

VARIABLES
  rules,      \* policy -> [allowed, denied]
  enabled,    \* the active principals
  rows,       \* observation_records
  clock,
  signingKey, \* the key is random unless configured: a restart changes it
  tokens,     \* the playback tokens of the last locators answer
  handler,    \* the request each thread serves
  answer,     \* history: the answer just given, the grants its principal had
              \* during the request, and the audit events committed with it
  changes

accessVars == <<rules, enabled, rows, clock, signingKey, tokens, handler, answer, changes>>

Unused == [pc |-> "idle"]
NoAnswer == [kind |-> "none", shown |-> {}, granted |-> {}, events |-> {}]

AccessInit ==
  /\ rules = [p \in AllPolicies |-> [allowed |-> AllPrincipals, denied |-> {}]]
  /\ enabled = AllPrincipals
  /\ rows = FirstRows
  /\ clock = 0 /\ signingKey = 0
  /\ tokens = {}
  /\ handler = [h \in Handlers |-> Unused]
  /\ answer = NoAnswer /\ changes = 0

-----------------------------------------------------------------------------
(* Policies *)

\* policy_permits_principal
PolicyPermits(p, who) == who \in rules[p].allowed /\ who \notin rules[p].denied

\* capabilities_for
CapabilitiesFor(who) ==
  {"observation.search", "observation.read_detail", "observation.read_locator",
   "video.playback"}
  \cup IF PrincipalType[who] = "admin" THEN {"runtime.manage"} ELSE {}

\* compute_authorized_scope
AuthorizedScope(who) ==
  LET permitted == {p \in AllPolicies : PolicyPermits(p, who)}
      locations == {l \in DOMAIN LocationPolicy : LocationPolicy[l] \in permitted}
  IN [principal |-> who,
      policies |-> permitted,
      locations |-> locations,
      cameras |-> {c \in DOMAIN CameraSite :
                     CameraSite[c].policy \in permitted \/ CameraSite[c].location \in locations},
      level |-> Max({0} \cup {PolicyLevel[p] : p \in permitted}),
      capabilities |-> CapabilitiesFor(who)]

\* authorized_observation_filter
InScope(scope, row) ==
  /\ row.camera \in scope.cameras
  /\ row.location \in scope.locations
  /\ row.policy \in scope.policies
  /\ row.level <= scope.level

AuthorizedActive(scope, ids) == {r \in rows : r.id \in ids /\ InScope(scope, r)}

-----------------------------------------------------------------------------
(* A request *)

\* resolve_principal and authorized_scope_for; ask is what the client wants.
Authorize(h, who, ask) ==
  /\ handler[h].pc = "idle"
  /\ who \in enabled
  /\ handler' = [handler EXCEPT ![h] =
       [pc |-> "serve", who |-> who, ask |-> ask, scope |-> AuthorizedScope(who),
        granted |-> {p \in AllPolicies : PolicyPermits(p, who)}]]
  /\ UNCHANGED <<rules, enabled, rows, clock, signingKey, tokens, changes>>
  /\ answer' = NoAnswer

\* The service has its answer: what is disclosed, the audit events of the
\* session, and the tokens that go out.
Served(h, shown, events, new) ==
  /\ handler' = [handler EXCEPT ![h] =
       [pc |-> "commit", who |-> @.who, ask |-> @.ask, scope |-> @.scope,
        granted |-> @.granted, shown |-> shown, events |-> events, new |-> new]]
  /\ UNCHANGED <<rules, enabled, rows, clock, signingKey, tokens, changes>>
  /\ answer' = NoAnswer

May(h, kind, capability) ==
  /\ handler[h].pc = "serve" /\ handler[h].ask.kind = kind
  /\ capability \in handler[h].scope.capabilities
Event(h, kind, r) == [who |-> handler[h].who, kind |-> kind, record |-> r.id]
Summary(h, kind, n) == [who |-> handler[h].who, kind |-> kind, record |-> n]

\* LocatorService.get_details; each locator is checked again by _build_locator
\* and carries a placeholder that no request redeems.
GetDetails(h) ==
  LET found == AuthorizedActive(handler[h].scope, handler[h].ask.ids)
  IN /\ May(h, "details", "observation.read_detail")
     /\ Served(h, found, {Event(h, "details", r) : r \in found}
                         \cup {Event(h, "locator", r) : r \in found}, {})

\* _sign: whom, which record and until when, under the key of the process
Sign(who, r) ==
  [key |-> signingKey, principal |-> who, record |-> r.id, exp |-> clock + Ttl]

\* PlaybackTokenService.issue_locators
IssueLocators(h) ==
  LET found == AuthorizedActive(handler[h].scope, handler[h].ask.ids)
  IN /\ May(h, "locators", "observation.read_locator")
     /\ Served(h, found, {Event(h, "locator", r) : r \in found},
               {Sign(handler[h].who, r) : r \in found})

\* _verify
TokenHolds(t) == t.key = signingKey /\ clock <= t.exp

\* Seeded fault: a valid token is enough.
VerifyPlaybackOnce(h) ==
  LET t == handler[h].ask.token
      found == {r \in Rows : r.id = t.record}
  IN /\ May(h, "playback", "video.playback")
     /\ TokenHolds(t) /\ t.principal = handler[h].who
     /\ Served(h, found, {Event(h, "playback", r) : r \in found}, {})

\* verify_playback: signature, expiry, principal, and the record authorized anew.
VerifyPlayback(h) ==
  LET t == handler[h].ask.token
      found == AuthorizedActive(handler[h].scope, {t.record})
  IN /\ May(h, "playback", "video.playback")
     /\ TokenHolds(t) /\ t.principal = handler[h].who
     /\ found # {}
     /\ Served(h, found, {Event(h, "playback", r) : r \in found}, {})

\* find_overlapping: other records of the video that share time with t
Overlapping(scope, t) ==
  {r \in rows : /\ r.video = t.video /\ r.id # t.id
                /\ r.from < t.to /\ r.to > t.from
                /\ InScope(scope, r)}

\* get_overlapping of an authorized record; it leaves no audit event.
GetOverlapping(h) ==
  LET target == AuthorizedActive(handler[h].scope, handler[h].ask.ids)
      found == UNION {Overlapping(handler[h].scope, t) : t \in target}
  IN /\ May(h, "overlap", "observation.read_detail")
     /\ Served(h, found, {}, {})

\* user_export and migration_export: everything in scope, audited by its number.
UserExport(h) ==
  LET found == {r \in rows : InScope(handler[h].scope, r)}
  IN /\ May(h, "user_export", "observation.search")
     /\ Served(h, found, {Summary(h, "user_export", Cardinality(found))}, {})
MigrationExport(h) ==
  LET found == {r \in rows : InScope(handler[h].scope, r)}
  IN /\ May(h, "migration_export", "runtime.manage")
     /\ Served(h, found, {Summary(h, "migration_export", Cardinality(found))}, {})

Answer(h, events) ==
  [who |-> handler[h].who, kind |-> handler[h].ask.kind, shown |-> handler[h].shown,
   granted |-> handler[h].granted, events |-> events]

\* Seeded fault: an answer is given although the audit events are lost.
RollbackFailOpen(h) ==
  /\ handler[h].pc = "commit"
  /\ answer' = Answer(h, {})
  /\ handler' = [handler EXCEPT ![h] = Unused]
  /\ UNCHANGED <<rules, enabled, rows, clock, signingKey, tokens, changes>>

\* The commit fails (a lock, a full disk, a crash): the client gets an error.
\* So does one whose request was refused.
Rollback(h) ==
  /\ handler[h].pc # "idle"
  /\ handler' = [handler EXCEPT ![h] = Unused]
  /\ UNCHANGED <<rules, enabled, rows, clock, signingKey, tokens, changes>>
  /\ answer' = NoAnswer

\* session_scope commits, then the JSON response is built.
CommitAndAnswer(h) ==
  /\ handler[h].pc = "commit"
  /\ answer' = Answer(h, handler[h].events)
  /\ tokens' = IF handler[h].new # {} THEN handler[h].new ELSE tokens
  /\ handler' = [handler EXCEPT ![h] = Unused]
  /\ UNCHANGED <<rules, enabled, rows, clock, signingKey, changes>>

-----------------------------------------------------------------------------
(* Everybody else *)

\* upsert_access_policy: a request under way has the new grants as well.
ChangeRule(p, rule) ==
  /\ changes < MaxChanges /\ rules[p] # rule
  /\ changes' = changes + 1
  /\ rules' = [rules EXCEPT ![p] = rule]
  /\ handler' = [h \in Handlers |->
       IF handler[h].pc # "idle" /\ handler[h].who \in rule.allowed \ rule.denied
       THEN [handler[h] EXCEPT !.granted = @ \cup {p}] ELSE handler[h]]
  /\ UNCHANGED <<enabled, rows, clock, signingKey, tokens>>
  /\ answer' = NoAnswer

Disable(who) ==
  /\ changes < MaxChanges /\ who \in enabled
  /\ changes' = changes + 1
  /\ enabled' = enabled \ {who}
  /\ UNCHANGED <<rules, rows, clock, signingKey, tokens, handler>>
  /\ answer' = NoAnswer

\* A worker publishes a record in the place of the one of the same segment.
Republish(row) ==
  /\ changes < MaxChanges /\ row \notin rows
  /\ changes' = changes + 1
  /\ rows' = {r \in rows : <<r.video, r.from, r.to>> # <<row.video, row.from, row.to>>}
             \cup {row}
  /\ UNCHANGED <<rules, enabled, clock, signingKey, tokens, handler>>
  /\ answer' = NoAnswer

TokenClock ==
  /\ clock < MaxTime
  /\ clock' = clock + 1
  /\ UNCHANGED <<rules, enabled, rows, signingKey, tokens, handler, changes>>
  /\ answer' = NoAnswer

RestartServer ==
  /\ changes < MaxChanges
  /\ changes' = changes + 1
  /\ signingKey' = signingKey + 1
  /\ handler' = [h \in Handlers |-> Unused]
  /\ UNCHANGED <<rules, enabled, rows, clock, tokens>>
  /\ answer' = NoAnswer

Asks ==
  {[kind |-> k, ids |-> {r.id : r \in Rows}] : k \in {"details", "locators"}}
  \cup {[kind |-> "overlap", ids |-> {r.id}] : r \in Rows}
  \cup {[kind |-> "playback", token |-> t] : t \in tokens}
  \cup {[kind |-> k] : k \in {"user_export", "migration_export"}}

AccessNext ==
  \/ \E h \in Handlers :
       \/ \E who \in AllPrincipals, ask \in Asks : Authorize(h, who, ask)
       \/ GetDetails(h) \/ IssueLocators(h) \/ VerifyPlayback(h) \/ GetOverlapping(h)
       \/ UserExport(h) \/ MigrationExport(h)
       \/ CommitAndAnswer(h) \/ Rollback(h)
  \/ \E p \in AllPolicies, rule \in Rulings : ChangeRule(p, rule)
  \/ \E who \in AllPrincipals : Disable(who)
  \/ \E row \in Rows : Republish(row)
  \/ TokenClock \/ RestartServer

AccessSpec == AccessInit /\ [][AccessNext]_accessVars

-----------------------------------------------------------------------------
(* Properties *)

\* Nothing is shown to a principal on the strength of an earlier grant: whatever
\* was revoked or republished since a token was issued, the record's policy and
\* the policy of its place are ones the principal held at some moment of this
\* very request, and one of those covers the record's level.
DisclosureIsAuthorized ==
  \A row \in answer.shown :
    /\ row.policy \in answer.granted
    /\ LocationPolicy[row.location] \in answer.granted
    /\ \E p \in answer.granted : PolicyLevel[p] >= row.level

\* Whatever fails: a record that a client saw through details, a locator or a
\* playback is named by a committed audit event, and an export is there with its
\* number of records.
DisclosureIsAudited ==
  LET Named(kind) == {e.record : e \in {f \in answer.events : f.kind = kind /\ f.who = answer.who}}
      ids == {row.id : row \in answer.shown}
  IN CASE answer.kind \in {"none", "overlap"} -> TRUE
       [] answer.kind \in {"user_export", "migration_export"} ->
            Cardinality(answer.shown) \in Named(answer.kind)
       [] answer.kind = "locators" -> ids \subseteq Named("locator")
       [] OTHER -> ids \subseteq Named(answer.kind)
=============================================================================
