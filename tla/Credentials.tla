---------------------------- MODULE Credentials ----------------------------
(***************************************************************************)
(* API keys, what their clients may reach, and the tokens issued under     *)
(* both (packages/broker/src/credentials/keys.ts, oauth/*.ts; the routes   *)
(* apps/web/app/v1/token, api/api-keys and api/oauth-clients; the hooks of *)
(* apps/web/lib/oauth.ts around Better Auth's endpoints).                  *)
(*                                                                         *)
(* Requests run concurrently, a statement at a time, and every statement   *)
(* commits by itself: none of this is in a transaction.                    *)
(***************************************************************************)
EXTENDS Naturals, FiniteSets, Absent

CONSTANTS
  Clients,
  Owners,
  Keys,        \* BOUND: ids of client_secrets
  Tokens,      \* BOUND: ids of access tokens
  Asks,        \* the requests that may be under way at once
  Asking,      \* what may be requested: a subset of AllAsking
  Robot,       \* client -> robot_user_id of a headless client, None for a delegated one
  FirstKeys,   \* client_secrets at the start
  FirstScopes, \* client -> allowed_scopes at the start, None without a policy
  FirstGrant,  \* user -> the day an approved live grant ends, 0 without one
  Wanted,      \* BOUND: the scope lists a request may ask for
  KeyLife,     \* MAX_KEY_LIFETIME_DAYS
  MaxKeys,     \* unrevoked secrets per client
  MaxDay,      \* BOUND
  MaxAsks      \* BOUND: requests begun

Envs == {"dev", "live"}
AllAsking == {"mint", "rotate", "revoke", "expiry", "promote", "demote", "token", "authorize", "refresh", "register"}

\* A row of client_secrets.
Key == [client : Clients, env : Envs, expires : 0 .. MaxDay + KeyLife + 1, revoked : BOOLEAN]

ASSUME CredentialsAssumption ==
  /\ None \notin Clients \cup Owners \cup Keys \cup Tokens \cup Envs \cup Key
  /\ IsFiniteSet(Keys) /\ Asking \subseteq AllAsking /\ Wanted \subseteq SUBSET Envs
  /\ Robot \in [Clients -> Owners \cup {None}]
  /\ FirstKeys \in [Keys -> Key \cup {None}]
  /\ FirstScopes \in [Clients -> (SUBSET Envs) \cup {None}] /\ FirstGrant \in [Owners -> Nat]
  /\ KeyLife \in Nat /\ MaxKeys \in Nat /\ MaxDay \in Nat /\ MaxAsks \in Nat

VARIABLES
  keys,      \* client_secrets
  scopes,    \* client -> allowed_scopes of its policy, None without one
  tokens,    \* oauthAccessToken
  liveGrant, \* user -> the day its approved live grant ends, 0 without one
  ask,       \* what each request is doing
  day, asks

credState == <<keys, scopes, tokens, liveGrant, ask, day>>
credVars == <<credState, asks>>

NoAsk ==
  [pc |-> "idle", op |-> "mint", client |-> None, user |-> None, key |-> None, env |-> None,
   want |-> {}, until |-> 0, allowed |-> {}, granted |-> FALSE, alone |-> TRUE, revoked |-> FALSE]

CredInit ==
  /\ keys = FirstKeys
  /\ scopes = FirstScopes
  /\ tokens = [t \in Tokens |-> None]
  /\ liveGrant = FirstGrant
  /\ ask = [r \in Asks |-> NoAsk]
  /\ day = 0 /\ asks = 0

AskAt(r, op, pc) == ask[r].op = op /\ ask[r].pc = pc
To(r, pc) == ask' = [ask EXCEPT ![r].pc = pc]
Answered(r) == ask' = [ask EXCEPT ![r] = NoAsk]
OthersBusy(r) == \E q \in Asks \ {r} : ask[q].pc # "idle"

KeysOf(c) == {k \in Keys : keys[k] # None /\ keys[k].client = c}
Unrevoked(c) == {k \in KeysOf(c) : ~keys[k].revoked}

\* getClientPolicy: no row at all is the floor.
Allowed(c) == IF scopes[c] = None THEN {"dev"} ELSE scopes[c]

---------------------------------------------------------------------------
(* oauth/env-scope.ts *)

\* resolveEnvScopes: what survives the policy and the user's grants; env:dev is the floor.
ResolveEnvScopes(requested, allowed, eligible) ==
  LET survivors == (requested \cap allowed) \ (IF eligible THEN {} ELSE {"live"})
  IN IF requested # {} /\ survivors = {} THEN allowed \cap {"dev"} ELSE survivors

\* recomputeEnvScope: what the user may have now, whatever the token has.
RecomputeEnvScope(allowed, eligible) ==
  IF eligible /\ "live" \in allowed THEN {"live"} ELSE allowed \cap {"dev"}

\* Mutant: the key's prefix is only a label.
NarrowNothing(allowed, keyEnv) == allowed
\* narrowPolicyToKeyEnv
NarrowPolicyToKeyEnv(allowed, keyEnv) == IF keyEnv = "live" THEN allowed ELSE allowed \ {"live"}

OneOf(s) == IF "live" \in s THEN "live" ELSE IF "dev" \in s THEN "dev" ELSE None

\* resolveIssuedEnvScope: exactly one env, or None.
IssuedEnvScope(requested, allowed, eligible) ==
  OneOf(IF requested = {} THEN RecomputeEnvScope(allowed, eligible)
        ELSE ResolveEnvScopes(requested, allowed, eligible))

\* hasApprovedLiveGrant
HasApprovedLiveGrant(u) == liveGrant[u] > day

---------------------------------------------------------------------------
(* Requests arrive *)

FirstPc(op) ==
  CASE op \in {"mint", "register"} -> "client"
    [] op = "token" -> "verify"
    [] op \in {"rotate", "revoke", "expiry"} -> "key"
    [] op = "promote" -> "reach"
    [] op = "demote" -> "widen"
    [] OTHER -> "policy"

\* requireRole, or the credentials of a token request, are in order.
BeginAsk(r, op, c, u, k, want, env, until) ==
  /\ ask[r].pc = "idle" /\ asks < MaxAsks /\ asks' = asks + 1
  /\ op \in Asking
  /\ ask' = [q \in Asks |->
       IF q = r THEN [pc |-> FirstPc(op), op |-> op, client |-> c, user |-> u, key |-> k, env |-> env,
                      want |-> want, until |-> until, allowed |-> {}, granted |-> FALSE, alone |-> ~OthersBusy(r),
                      revoked |-> k # None /\ keys[k].revoked]
       ELSE [ask[q] EXCEPT !.alone = @ /\ ask[q].pc = "idle"]]
  /\ UNCHANGED <<keys, scopes, tokens, liveGrant, day>>

\* POST api-keys: a client nobody has yet, and the key it asks for.
\* BOUND: for as long as a key may live, and for longer.
AskMint(r) == \E c \in Clients, env \in Envs, d \in {KeyLife, KeyLife + 1} :
  scopes[c] = None /\ BeginAsk(r, "mint", c, None, None, {}, env, day + d)
\* POST mcp/register, which is open: Better Auth has stored the application when the hook runs.
AskRegister(r) == \E c \in Clients :
  scopes[c] = None /\ BeginAsk(r, "register", c, None, None, {}, None, 0)
\* The ids that the console offers are those of the list it has loaded.  BOUND: an expiry is
\* edited to now, or to past what a key may live.
AskKey(r) == \E op \in {"rotate", "revoke", "expiry"}, k \in Keys, d \in {0, KeyLife, KeyLife + 1} :
  /\ keys[k] # None /\ (op = "revoke" => d = 0) /\ (op = "rotate" => d # 0) /\ (op = "expiry" => d # KeyLife)
  /\ BeginAsk(r, op, keys[k].client, None, k, {}, None, day + d)
AskPolicy(r) == \E op \in {"promote", "demote"}, c \in Clients :
  BeginAsk(r, op, c, None, None, {}, None, 0)
\* A headless client acts as its robot; a delegated one names a subject (None: its token does
\* not verify, or names nobody in the workspace).
AskToken(r) == \E k \in Keys, u \in Owners \cup {None}, want \in Wanted :
  /\ keys[k] # None /\ (Robot[keys[k].client] # None => u = Robot[keys[k].client])
  /\ BeginAsk(r, "token", keys[k].client, u, k, want, None, 0)
\* GET mcp/authorize with a session: want is what is asked for, env what was picked
\* of the two (wh_env).
AskAuthorize(r) == \E c \in Clients, u \in Owners, want \in Wanted, env \in Envs \cup {None} :
  (env # None => want = Envs) /\ BeginAsk(r, "authorize", c, u, None, want, env, 0)
\* POST mcp/token with a refresh token.  A token that names no env is left alone.
AskRefresh(r) == \E t \in Tokens :
  /\ tokens[t] # None /\ tokens[t].key = None /\ tokens[t].env # None
  /\ BeginAsk(r, "refresh", tokens[t].client, tokens[t].user, None, {}, None, 0)

---------------------------------------------------------------------------
(* Keys *)

\* POST api-keys: the client and its policy, before anything is known of its key.
MintClient(r) ==
  /\ AskAt(r, "mint", "client")
  /\ scopes' = [scopes EXCEPT ![ask[r].client] = IF ask[r].env = "live" THEN Envs ELSE {"dev"}]
  /\ To(r, "count")
  /\ UNCHANGED <<keys, tokens, liveGrant, day, asks>>

\* upsertClientPolicy, for a client that registered itself: both envs, for the user's grants to decide.
RegisterPolicy(r) ==
  /\ AskAt(r, "register", "client")
  /\ scopes' = [scopes EXCEPT ![ask[r].client] = Envs]
  /\ Answered(r)
  /\ UNCHANGED <<keys, tokens, liveGrant, day, asks>>

\* rotateClientSecret: the new key is for the env of the old one.
RotateRead(r) ==
  LET k == ask[r].key IN
  /\ AskAt(r, "rotate", "key")
  /\ IF keys[k].revoked THEN Answered(r)
     ELSE ask' = [ask EXCEPT ![r].pc = "count", ![r].env = keys[k].env]
  /\ UNCHANGED <<keys, scopes, tokens, liveGrant, day, asks>>

\* select count(*) ... where client_id=$1 and revoked_at is null
BelowTheCeiling(c) == Cardinality(Unrevoked(c)) < MaxKeys

\* createClientSecret: the expiry, then the count.
CountKeys(r) ==
  /\ ask[r].op \in {"mint", "rotate"} /\ ask[r].pc = "count"
  /\ IF ask[r].until <= day + KeyLife /\ BelowTheCeiling(ask[r].client)
     THEN To(r, "insert") ELSE Answered(r)
  /\ UNCHANGED <<keys, scopes, tokens, liveGrant, day, asks>>

InsertKey(r) ==
  /\ ask[r].op \in {"mint", "rotate"} /\ ask[r].pc = "insert"
  /\ \E k \in Keys :
       /\ keys[k] = None
       /\ keys' = [keys EXCEPT ![k] = [client |-> ask[r].client, env |-> ask[r].env,
                                       expires |-> ask[r].until, revoked |-> FALSE]]
  /\ Answered(r)
  /\ UNCHANGED <<scopes, tokens, liveGrant, day, asks>>

\* revokeClientSecret.  revoked is history: the key was, before the request looked at it.
RevokeKey(r) ==
  LET k == ask[r].key IN
  /\ AskAt(r, "revoke", "key")
  /\ keys' = [keys EXCEPT ![k].revoked = TRUE]
  /\ ask' = [q \in Asks |->
       IF q = r THEN NoAsk
       ELSE [ask[q] EXCEPT !.revoked = @ \/ (AskAt(q, "token", "verify") /\ ask[q].key = k)]]
  /\ UNCHANGED <<scopes, tokens, liveGrant, day, asks>>

\* PATCH api-keys/[id]: any date.
EditExpiry(r) ==
  /\ AskAt(r, "expiry", "key")
  /\ keys' = [keys EXCEPT ![ask[r].key].expires = ask[r].until]
  /\ Answered(r)
  /\ UNCHANGED <<scopes, tokens, liveGrant, day, asks>>

---------------------------------------------------------------------------
(* Policies *)

\* clientKeyEnvs: the keys that can be presented.  None at all is a client of the OAuth flow.
UsableKeys(c) == {k \in Unrevoked(c) : keys[k].expires > day}

PromoteCheck(r) ==
  LET usable == UsableKeys(ask[r].client) IN
  /\ AskAt(r, "promote", "reach")
  /\ IF usable # {} /\ \A k \in usable : keys[k].env = "dev" THEN Answered(r) ELSE To(r, "widen")
  /\ UNCHANGED <<keys, scopes, tokens, liveGrant, day, asks>>

\* setAllowedScopes: an update, of a row or of none.
SetAllowedScopes(r) ==
  LET c == ask[r].client IN
  /\ ask[r].op \in {"promote", "demote"} /\ ask[r].pc = "widen"
  /\ scopes' = IF scopes[c] = None THEN scopes
               ELSE [scopes EXCEPT ![c] = IF ask[r].op = "promote" THEN Envs ELSE {"dev"}]
  /\ Answered(r)
  /\ UNCHANGED <<keys, tokens, liveGrant, day, asks>>

---------------------------------------------------------------------------
(* Tokens *)

\* verifyClientSecret
Verifies(k) == ~keys[k].revoked /\ keys[k].expires >= day

\* verifyClientSecret, with the hash and last_used_at, and the checks on the grant type.
VerifyKey(r) ==
  /\ AskAt(r, "token", "verify")
  /\ IF Verifies(ask[r].key) THEN To(r, "policy") ELSE Answered(r)
  /\ UNCHANGED <<keys, scopes, tokens, liveGrant, day, asks>>

\* getClientPolicy; with it, for a token, the subject.
ReadPolicy(r) ==
  /\ ask[r].op \in {"token", "authorize", "refresh"} /\ ask[r].pc = "policy"
  /\ IF ask[r].user = None THEN Answered(r)
     ELSE ask' = [ask EXCEPT ![r].pc = "eligible", ![r].allowed = Allowed(ask[r].client)]
  /\ UNCHANGED <<keys, scopes, tokens, liveGrant, day, asks>>

\* POST v1/token: three gates, the key's prefix first.
ScopeOfToken(r) ==
  LET a == ask[r]
      granted == HasApprovedLiveGrant(a.user)
      env == IssuedEnvScope(a.want, NarrowPolicyToKeyEnv(a.allowed, keys[a.key].env), granted)
  IN /\ AskAt(r, "token", "eligible")
     /\ IF env = None THEN Answered(r)
        ELSE ask' = [ask EXCEPT ![r].pc = "issue", ![r].env = env, ![r].granted = granted]
     /\ UNCHANGED <<keys, scopes, tokens, liveGrant, day, asks>>

\* The before-hook of mcp/authorize.  Both envs left and none picked: off to the picker.
\* A request that names no env is not looked at, and the code names none.
ScopeOfCode(r) ==
  LET a == ask[r]
      granted == HasApprovedLiveGrant(a.user)
      left == ResolveEnvScopes(a.want, a.allowed, granted)
      picked == IF left = Envs /\ a.env # None THEN {a.env} ELSE left
  IN /\ AskAt(r, "authorize", "eligible")
     /\ IF picked = Envs THEN Answered(r)
        ELSE ask' = [ask EXCEPT ![r].pc = "issue", ![r].env = OneOf(picked), ![r].granted = granted]
     /\ UNCHANGED <<keys, scopes, tokens, liveGrant, day, asks>>

\* The after-hook of mcp/token.
ScopeOfRefresh(r) ==
  LET a == ask[r]
      granted == HasApprovedLiveGrant(a.user)
  IN
  /\ AskAt(r, "refresh", "eligible")
  /\ ask' = [ask EXCEPT ![r].pc = "issue", ![r].granted = granted,
                          ![r].env = OneOf(RecomputeEnvScope(a.allowed, granted))]
  /\ UNCHANGED <<keys, scopes, tokens, liveGrant, day, asks>>

\* The row the caller is given.  The authorization code and its exchange are Better Auth's: the
\* scopes are those of the code, however long ago it was issued.
IssueToken(r) ==
  LET a == ask[r] IN
  /\ a.pc = "issue"
  /\ \E t \in Tokens :
       /\ tokens[t] = None
       /\ tokens' = [tokens EXCEPT ![t] =
            [client |-> a.client, user |-> a.user, env |-> a.env, key |-> a.key,
             allowed |-> a.allowed, granted |-> a.granted, revoked |-> a.revoked]]
  /\ Answered(r)
  /\ UNCHANGED <<keys, scopes, liveGrant, day, asks>>

\* Grants are decided, and revoked, and expire (Access): when the next one ends is anything.
GrantChanges ==
  /\ \E u \in Owners, d \in {0, day + 1} : d # liveGrant[u] /\ liveGrant' = [liveGrant EXCEPT ![u] = d]
  /\ asks < MaxAsks /\ asks' = asks + 1
  /\ UNCHANGED <<keys, scopes, tokens, ask, day>>

DayPasses ==
  /\ day < MaxDay /\ day' = day + 1
  /\ UNCHANGED <<keys, scopes, tokens, liveGrant, ask, asks>>

CredStep(r) ==
  \/ AskMint(r) \/ AskRegister(r) \/ AskKey(r) \/ AskPolicy(r)
  \/ AskToken(r) \/ AskAuthorize(r) \/ AskRefresh(r)
  \/ MintClient(r) \/ RegisterPolicy(r) \/ RotateRead(r) \/ CountKeys(r) \/ InsertKey(r) \/ RevokeKey(r) \/ EditExpiry(r)
  \/ PromoteCheck(r) \/ SetAllowedScopes(r)
  \/ VerifyKey(r) \/ ReadPolicy(r) \/ ScopeOfToken(r) \/ ScopeOfCode(r) \/ ScopeOfRefresh(r) \/ IssueToken(r)
\* Everything has been answered, or the ids are used up.
CredDone == asks = MaxAsks /\ day = MaxDay
            /\ \A r \in Asks : ask[r].pc \in {"idle", "insert", "issue"}

CredNext == \/ \E r \in Asks : CredStep(r)
            \/ GrantChanges \/ DayPasses
            \/ CredDone /\ UNCHANGED credVars
CredSpec == CredInit /\ [][CredNext]_credVars
---------------------------------------------------------------------------
(* Properties *)

Ask ==
  [pc : {"idle", "client", "verify", "key", "reach", "widen", "policy", "count", "insert", "eligible", "issue"},
   op : AllAsking, client : Clients \cup {None}, user : Owners \cup {None}, key : Keys \cup {None},
   env : Envs \cup {None}, want : SUBSET Envs, until : 0 .. MaxDay + KeyLife + 1,
   allowed : SUBSET Envs, granted : BOOLEAN, alone : BOOLEAN, revoked : BOOLEAN]
Token ==
  [client : Clients, user : Owners, env : Envs \cup {None}, key : Keys \cup {None},
   allowed : SUBSET Envs, granted : BOOLEAN, revoked : BOOLEAN]

CredTypeOK ==
  /\ keys \in [Keys -> Key \cup {None}] /\ tokens \in [Tokens -> Token \cup {None}]
  /\ scopes \in [Clients -> (SUBSET Envs) \cup {None}] /\ liveGrant \in [Owners -> Nat]
  /\ ask \in [Asks -> Ask] /\ day \in 0 .. MaxDay /\ asks \in 0 .. MaxAsks
  /\ \A r \in Asks : ask[r].pc # "idle" =>
       /\ ask[r].client \in Clients
       /\ ask[r].op \in {"rotate", "revoke", "expiry", "token"} =>
            ask[r].key \in Keys /\ keys[ask[r].key] # None

\* env-scope.ts: "a whd_dev_ key can never yield env:live, however the policy is widened later",
\* and no token reaches live data but under a policy that allowed it, for a user who had a live
\* grant - whatever is promoted, demoted, rotated or revoked between the statements of the
\* request that got it, and whatever an earlier token of its refresh chain could reach.
LiveIsAllowed ==
  \A t \in Tokens : tokens[t] # None /\ tokens[t].env = "live" =>
    /\ "live" \in tokens[t].allowed /\ tokens[t].granted
    /\ tokens[t].key # None => keys[tokens[t].key].env = "live"

\* token-exchange.integration.test.ts: "a revoked key fails the very next request" - only a
\* request that had read the key before it was revoked still gets a token from it.
RevokedOpensNothing == \A t \in Tokens : tokens[t] # None => ~tokens[t].revoked

\* architecture.md: "A third unrevoked secret is refused."  It is, to a request that overlaps
\* no other.
AloneKeepsCeiling ==
  [][\A r \in Asks, c \in Clients : ask[r].alone /\ ask[r].client = c /\ InsertKey(r) =>
       Cardinality(Unrevoked(c)') <= MaxKeys]_credVars

\* promote/route.ts: "A promotion the client's own keys can never reach is refused rather than
\* recorded" - of a request that overlaps no other.
AlonePromotionReaches ==
  [][\A r \in Asks : ask[r].alone /\ AskAt(r, "promote", "widen") /\ SetAllowedScopes(r) =>
       \/ UsableKeys(ask[r].client) = {}
       \/ \E k \in Unrevoked(ask[r].client) : keys[k].env = "live"]_credVars

\* What architecture.md says of keys: however many requests there are, two.
TwoKeys == \A c \in Clients : Cardinality(Unrevoked(c)) <= MaxKeys

\* The promises about keys, together: whatever requests overlap, a key opens no more than its
\* policy, a revoked one nothing, and a request that was alone keeps the ceiling.
KeysCorrect ==
  /\ [](CredTypeOK /\ LiveIsAllowed /\ RevokedOpensNothing)
  /\ AloneKeepsCeiling
  /\ AlonePromotionReaches
=============================================================================
