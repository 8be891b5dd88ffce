---------------------------- MODULE CallersProofs ----------------------------
(***************************************************************************)
(* Who may call, how often, and from which pages: theorems about the keys  *)
(* and tokens of Credentials, the workspaces of Platform, the limits of    *)
(* Limits and the pages of Console, for every number of clients, keys,     *)
(* workspaces, accounts, callers and rows.                                 *)
(***************************************************************************)
EXTENDS Credentials, Limits, Platform, Console, FiniteSetTheorems, TLAPS

---------------------------------------------------------------------------
(* The inductive invariant of Credentials *)

\* Where a request of each kind can be.
AskPcs(op) ==
  IF op = "mint" THEN {"client", "count", "insert"}
  ELSE IF op = "register" THEN {"client"}
  ELSE IF op = "rotate" THEN {"key", "count", "insert"}
  ELSE IF op \in {"revoke", "expiry"} THEN {"key"}
  ELSE IF op = "promote" THEN {"reach", "widen"}
  ELSE IF op = "demote" THEN {"widen"}
  ELSE IF op = "token" THEN {"verify", "policy", "eligible", "issue"}
  ELSE {"policy", "eligible", "issue"}

Keyed == {"rotate", "revoke", "expiry", "token"}

\* What a request has found so far, of the keys ks.
AskFits(a, ks) ==
  /\ a \in Ask
  /\ a.pc # "idle" =>
       /\ a.client \in Clients /\ a.pc \in AskPcs(a.op)
       /\ a.op \in Keyed => a.key \in Keys /\ ks[a.key] # None
       /\ a.op \notin Keyed => a.key = None
       /\ a.op = "mint" \/ (a.op = "rotate" /\ a.pc # "key") => a.env \in Envs
       /\ a.pc \in {"eligible", "issue"} => a.user \in Owners
       /\ a.pc = "issue" /\ a.env = "live" =>
            "live" \in a.allowed /\ a.granted /\ (a.key # None => ks[a.key].env = "live")
       /\ a.pc \in {"policy", "eligible", "issue"} => ~a.revoked
       /\ a.pc = "verify" /\ a.revoked => ks[a.key].revoked

\* What a token was issued under.
TokenFits(t, ks) ==
  /\ t \in Token /\ ~t.revoked
  /\ t.key # None => ks[t.key] # None
  /\ t.env = "live" => "live" \in t.allowed /\ t.granted /\ (t.key # None => ks[t.key].env = "live")

\* A request by itself is the only one under way, and what it counted still holds.
ByItself(r) ==
  ask[r].pc # "idle" /\ ask[r].alone =>
    /\ \A q \in Asks \ {r} : ask[q].pc = "idle"
    /\ ask[r].pc = "insert" => Cardinality(Unrevoked(ask[r].client)) < MaxKeys
    /\ AskAt(r, "promote", "widen") =>
         \/ UsableKeys(ask[r].client) = {}
         \/ \E k \in Unrevoked(ask[r].client) : keys[k].env = "live"

CredBase ==
  /\ keys \in [Keys -> Key \cup {None}]
  /\ scopes \in [Clients -> (SUBSET Envs) \cup {None}] /\ liveGrant \in [Owners -> Nat]
  /\ day \in 0 .. MaxDay /\ asks \in 0 .. MaxAsks
  /\ DOMAIN ask = Asks /\ ask = [r \in Asks |-> ask[r]]
  /\ DOMAIN tokens = Tokens /\ tokens = [t \in Tokens |-> tokens[t]]

CredInv ==
  /\ CredBase
  /\ \A r \in Asks : AskFits(ask[r], keys)
  /\ \A t \in Tokens : tokens[t] # None => TokenFits(tokens[t], keys)
  /\ \A r \in Asks : ByItself(r)

---------------------------------------------------------------------------
(* Keys only grow *)

Grown(ks, ls) ==
  \A k \in Keys : ks[k] # None =>
    ls[k] # None /\ ls[k].env = ks[k].env /\ (ks[k].revoked => ls[k].revoked)

LEMMA FitsGrown ==
  ASSUME NEW a, NEW ks, NEW ls, AskFits(a, ks), Grown(ks, ls)
  PROVE  AskFits(a, ls)
BY CredentialsAssumption DEF AskFits, Grown, Ask, Keyed, AskPcs

LEMMA TokenGrown ==
  ASSUME NEW t, NEW ks, NEW ls, TokenFits(t, ks), Grown(ks, ls)
  PROVE  TokenFits(t, ls)
BY CredentialsAssumption DEF TokenFits, Grown, Token

LEMMA NoAskFits == \A ks : AskFits(NoAsk, ks)
BY CredentialsAssumption DEF AskFits, NoAsk, Ask, AllAsking, Keyed

---------------------------------------------------------------------------
(* The type invariant, and what the tokens promise, are parts of it *)

LEMMA CredParts == CredInv => CredTypeOK /\ LiveIsAllowed /\ RevokedOpensNothing
<1> SUFFICES ASSUME CredInv PROVE CredTypeOK /\ LiveIsAllowed /\ RevokedOpensNothing
  OBVIOUS
<1> USE DEF CredInv
<1>1. \A r \in Asks : ask[r] \in Ask
  BY DEF AskFits
<1>2. \A t \in Tokens : tokens[t] \in Token \cup {None}
  BY DEF TokenFits
<1>3. ask \in [Asks -> Ask] /\ tokens \in [Tokens -> Token \cup {None}]
  BY <1>1, <1>2 DEF CredBase
<1>4. CredTypeOK
  BY <1>3 DEF CredTypeOK, CredBase, AskFits, Keyed
<1>5. LiveIsAllowed
  BY DEF LiveIsAllowed, TokenFits
<1>6. RevokedOpensNothing
  BY DEF RevokedOpensNothing, TokenFits
<1> QED BY <1>4, <1>5, <1>6

LEMMA CredInitInv == CredInit => CredInv
<1> SUFFICES ASSUME CredInit PROVE CredInv
  OBVIOUS
<1> USE DEF CredInit
<1>1. CredBase
  BY CredentialsAssumption DEF CredBase
<1>2. \A r \in Asks : AskFits(ask[r], keys)
  BY NoAskFits
<1>3. \A r \in Asks : ByItself(r)
  BY DEF ByItself, NoAsk
<1> QED BY <1>1, <1>2, <1>3 DEF CredInv

---------------------------------------------------------------------------
(* The steps *)

\* A request that was under way moves to a, and the keys it may have changed only grew.
LEMMA MovesInv ==
  ASSUME CredInv, NEW r \in Asks, ask[r].pc # "idle", NEW a, AskFits(a, keys'),
         ask' = [ask EXCEPT ![r] = a], UNCHANGED <<liveGrant, day, asks>>,
         keys' \in [Keys -> Key \cup {None}], Grown(keys, keys'),
         scopes' \in [Clients -> (SUBSET Envs) \cup {None}],
         DOMAIN tokens' = Tokens, tokens' = [t \in Tokens |-> tokens'[t]],
         \A t \in Tokens : tokens'[t] # None => tokens'[t] = tokens[t] \/ TokenFits(tokens'[t], keys'),
         a.pc # "idle" /\ a.alone =>
           /\ ask[r].alone /\ keys' = keys
           /\ a.pc = "insert" => Cardinality(Unrevoked(a.client)) < MaxKeys
           /\ a.op = "promote" /\ a.pc = "widen" =>
                \/ UsableKeys(a.client) = {}
                \/ \E k \in Unrevoked(a.client) : keys[k].env = "live"
  PROVE  CredInv'
<1> USE DEF CredInv
<1>1. DOMAIN ask = Asks /\ ask'[r] = a /\ DOMAIN ask' = Asks /\ \A q \in Asks \ {r} : ask'[q] = ask[q]
  BY DEF CredBase
<1>2. CredBase'
  BY <1>1 DEF CredBase
<1>3. \A q \in Asks : AskFits(ask'[q], keys')
  BY <1>1, FitsGrown
<1>4. \A t \in Tokens : tokens'[t] # None => TokenFits(tokens'[t], keys')
  BY TokenGrown
<1>5. \A q \in Asks : ByItself(q)'
  <2> TAKE q \in Asks
  <2>1. CASE q # r
    BY <1>1, <2>1 DEF ByItself
  <2>2. CASE q = r
    <3>1. SUFFICES ASSUME a.pc # "idle", a.alone PROVE ByItself(r)'
      BY <1>1, <2>2 DEF ByItself
    <3>2. keys' = keys /\ day' = day /\ \A p \in Asks \ {r} : ask'[p].pc = "idle"
      BY <1>1, <3>1 DEF ByItself
    <3>3. /\ Unrevoked(a.client)' = Unrevoked(a.client)
          /\ UsableKeys(a.client)' = UsableKeys(a.client)
      BY <3>2 DEF Unrevoked, KeysOf, UsableKeys
    <3> QED BY <1>1, <3>1, <3>2, <3>3 DEF ByItself, AskAt
  <2> QED BY <2>1, <2>2
<1> QED BY <1>2, <1>3, <1>4, <1>5

LEMMA NothingGrows == \A ks : Grown(ks, ks)
BY DEF Grown

\* A request that is answered.
LEMMA AnsweredInv ==
  ASSUME CredInv, NEW r \in Asks, ask[r].pc # "idle", Answered(r), UNCHANGED <<liveGrant, day, asks>>,
         keys' \in [Keys -> Key \cup {None}], Grown(keys, keys'),
         scopes' \in [Clients -> (SUBSET Envs) \cup {None}],
         DOMAIN tokens' = Tokens, tokens' = [t \in Tokens |-> tokens'[t]],
         \A t \in Tokens : tokens'[t] # None => tokens'[t] = tokens[t] \/ TokenFits(tokens'[t], keys')
  PROVE  CredInv'
<1>1. NoAsk.pc = "idle"
  BY DEF NoAsk
<1> QED BY <1>1, NoAskFits, MovesInv DEF Answered

\* One that goes on, with what it has just read.
LEMMA GoesOnInv ==
  ASSUME CredInv, NEW r \in Asks, ask[r].pc # "idle", NEW a, AskFits(a, keys),
         ask' = [ask EXCEPT ![r] = a], UNCHANGED <<keys, tokens, liveGrant, day, asks>>,
         scopes' \in [Clients -> (SUBSET Envs) \cup {None}],
         a.alone => ask[r].alone,
         a.alone /\ a.pc = "insert" => Cardinality(Unrevoked(a.client)) < MaxKeys,
         a.alone /\ a.op = "promote" /\ a.pc = "widen" =>
           \/ UsableKeys(a.client) = {}
           \/ \E k \in Unrevoked(a.client) : keys[k].env = "live"
  PROVE  CredInv'
<1>1. keys \in [Keys -> Key \cup {None}] /\ DOMAIN tokens = Tokens /\ tokens = [t \in Tokens |-> tokens[t]]
  BY DEF CredInv, CredBase
<1>2. Grown(keys, keys') /\ AskFits(a, keys') /\ keys' = keys /\ tokens' = tokens
  BY NothingGrows
<1> QED BY <1>1, <1>2, MovesInv

\* To(r, pc) in the form of these lemmas.
LEMMA ToForm ==
  ASSUME CredInv, NEW r \in Asks, NEW pc, To(r, pc)
  PROVE  ask' = [ask EXCEPT ![r] = [ask[r] EXCEPT !.pc = pc]]
BY DEF To, CredInv, CredBase

LEMMA MintClientInv == ASSUME CredInv, NEW r \in Asks, MintClient(r) PROVE CredInv'
<1> DEFINE a == [ask[r] EXCEPT !.pc = "count"]
<1>1. ask[r] \in Ask /\ AskFits(ask[r], keys) /\ AskAt(r, "mint", "client")
  BY DEF CredInv, AskFits, MintClient
<1>2. AskFits(a, keys) /\ a.pc = "count" /\ a.alone = ask[r].alone /\ a.op = "mint"
  BY <1>1 DEF AskFits, Ask, AskAt, AskPcs, Keyed
<1>3. scopes' \in [Clients -> (SUBSET Envs) \cup {None}]
  BY DEF MintClient, CredInv, CredBase, Envs
<1>4. ask' = [ask EXCEPT ![r] = a]
  BY ToForm DEF MintClient
<1> HIDE DEF a
<1> QED BY <1>1, <1>2, <1>3, <1>4, GoesOnInv DEF AskAt, MintClient

\* One that is answered, and has changed no key and issued no token.
LEMMA RefusedInv ==
  ASSUME CredInv, NEW r \in Asks, ask[r].pc # "idle", Answered(r),
         UNCHANGED <<keys, tokens, liveGrant, day, asks>>,
         scopes' \in [Clients -> (SUBSET Envs) \cup {None}]
  PROVE  CredInv'
<1>1. keys \in [Keys -> Key \cup {None}] /\ DOMAIN tokens = Tokens /\ tokens = [t \in Tokens |-> tokens[t]]
  BY DEF CredInv, CredBase
<1>2. Grown(keys, keys') /\ keys' = keys /\ tokens' = tokens
  BY NothingGrows
<1> QED BY <1>1, <1>2, AnsweredInv

LEMMA RegisterPolicyInv == ASSUME CredInv, NEW r \in Asks, RegisterPolicy(r) PROVE CredInv'
<1>1. scopes' \in [Clients -> (SUBSET Envs) \cup {None}]
  BY DEF RegisterPolicy, CredInv, CredBase, Envs
<1> QED BY <1>1, RefusedInv DEF RegisterPolicy, AskAt

LEMMA RotateReadInv == ASSUME CredInv, NEW r \in Asks, RotateRead(r) PROVE CredInv'
<1>1. ask[r] \in Ask /\ AskFits(ask[r], keys) /\ AskAt(r, "rotate", "key") /\ ask[r].key \in Keys
      /\ keys[ask[r].key] \in Key
  BY DEF CredInv, CredBase, AskFits, RotateRead, AskAt, Keyed
<1>2. scopes' \in [Clients -> (SUBSET Envs) \cup {None}]
  BY DEF RotateRead, CredInv, CredBase
<1>3. CASE keys[ask[r].key].revoked
  BY <1>1, <1>2, <1>3, RefusedInv DEF RotateRead, AskAt
<1>4. CASE ~keys[ask[r].key].revoked
  <2> DEFINE a == [ask[r] EXCEPT !.pc = "count", !.env = keys[ask[r].key].env]
  <2>1. AskFits(a, keys) /\ a.pc = "count" /\ a.alone = ask[r].alone /\ a.op = "rotate"
    BY <1>1 DEF AskFits, Ask, Key, AskAt, AskPcs, Keyed
  <2>2. ask' = [ask EXCEPT ![r] = a]
    BY <1>4 DEF RotateRead, CredInv, CredBase
  <2> HIDE DEF a
  <2> QED BY <1>1, <1>2, <2>1, <2>2, GoesOnInv DEF AskAt, RotateRead
<1> QED BY <1>3, <1>4

LEMMA CountKeysInv == ASSUME CredInv, NEW r \in Asks, CountKeys(r) PROVE CredInv'
<1> DEFINE a == [ask[r] EXCEPT !.pc = "insert"]
<1>1. ask[r] \in Ask /\ AskFits(ask[r], keys) /\ ask[r].pc = "count" /\ ask[r].op \in {"mint", "rotate"}
  BY DEF CredInv, AskFits, CountKeys
<1>2. AskFits(a, keys) /\ a.pc = "insert" /\ a.alone = ask[r].alone /\ a.client = ask[r].client
      /\ a.op = ask[r].op
  BY <1>1 DEF AskFits, Ask, AskPcs, Keyed
<1>3. scopes' \in [Clients -> (SUBSET Envs) \cup {None}]
  BY DEF CountKeys, CredInv, CredBase
<1>4. CASE Answered(r)
  BY <1>1, <1>3, <1>4, RefusedInv DEF CountKeys
<1>5. CASE To(r, "insert") /\ BelowTheCeiling(ask[r].client)
  <2>1. ask' = [ask EXCEPT ![r] = a]
    BY <1>5, ToForm
  <2> HIDE DEF a
  <2> QED BY <1>1, <1>2, <1>3, <1>5, <2>1, GoesOnInv DEF BelowTheCeiling, CountKeys
<1> QED BY <1>4, <1>5 DEF CountKeys

LEMMA PromoteCheckInv == ASSUME CredInv, NEW r \in Asks, PromoteCheck(r) PROVE CredInv'
<1> DEFINE a == [ask[r] EXCEPT !.pc = "widen"]
<1>1. ask[r] \in Ask /\ AskFits(ask[r], keys) /\ AskAt(r, "promote", "reach")
  BY DEF CredInv, AskFits, PromoteCheck
<1>2. AskFits(a, keys) /\ a.pc = "widen" /\ a.alone = ask[r].alone /\ a.client = ask[r].client
  BY <1>1 DEF AskFits, Ask, AskAt, AskPcs, Keyed
<1>3. scopes' \in [Clients -> (SUBSET Envs) \cup {None}]
  BY DEF PromoteCheck, CredInv, CredBase
<1>4. CASE Answered(r)
  BY <1>1, <1>3, <1>4, RefusedInv DEF PromoteCheck, AskAt
<1>5. CASE To(r, "widen") /\ \/ UsableKeys(ask[r].client) = {}
                             \/ \E k \in UsableKeys(ask[r].client) : keys[k].env # "dev"
  <2>1. ask' = [ask EXCEPT ![r] = a]
    BY <1>5, ToForm
  <2>2. \A k \in UsableKeys(ask[r].client) : k \in Unrevoked(ask[r].client) /\ keys[k].env \in Envs
    BY DEF UsableKeys, Unrevoked, KeysOf, CredInv, CredBase, Key
  <2>3. \/ UsableKeys(ask[r].client) = {}
        \/ \E k \in Unrevoked(ask[r].client) : keys[k].env = "live"
    BY <1>5, <2>2 DEF Envs
  <2> HIDE DEF a
  <2> QED BY <1>1, <1>2, <1>3, <2>1, <2>3, GoesOnInv DEF AskAt, PromoteCheck
<1> QED BY <1>4, <1>5 DEF PromoteCheck

LEMMA SetAllowedScopesInv == ASSUME CredInv, NEW r \in Asks, SetAllowedScopes(r) PROVE CredInv'
<1>1. scopes' \in [Clients -> (SUBSET Envs) \cup {None}]
  BY DEF SetAllowedScopes, CredInv, CredBase, Envs
<1> QED BY <1>1, RefusedInv DEF SetAllowedScopes

LEMMA VerifyKeyInv == ASSUME CredInv, NEW r \in Asks, VerifyKey(r) PROVE CredInv'
<1> DEFINE a == [ask[r] EXCEPT !.pc = "policy"]
<1>1. ask[r] \in Ask /\ AskFits(ask[r], keys) /\ AskAt(r, "token", "verify")
  BY DEF CredInv, AskFits, VerifyKey
<1>2. scopes' \in [Clients -> (SUBSET Envs) \cup {None}]
  BY DEF VerifyKey, CredInv, CredBase
<1>3. CASE Answered(r)
  BY <1>1, <1>2, <1>3, RefusedInv DEF VerifyKey, AskAt
<1>4. CASE To(r, "policy") /\ Verifies(ask[r].key)
  <2>1. ask' = [ask EXCEPT ![r] = a]
    BY <1>4, ToForm
  <2>2. ~ask[r].revoked
    BY <1>1, <1>4 DEF AskFits, AskAt, Verifies
  <2>3. AskFits(a, keys) /\ a.pc = "policy" /\ a.alone = ask[r].alone
    BY <1>1, <2>2 DEF AskFits, Ask, AskAt, AskPcs, Keyed
  <2> HIDE DEF a
  <2> QED BY <1>1, <1>2, <2>1, <2>3, GoesOnInv DEF AskAt, VerifyKey
<1> QED BY <1>3, <1>4 DEF VerifyKey

LEMMA ReadPolicyInv == ASSUME CredInv, NEW r \in Asks, ReadPolicy(r) PROVE CredInv'
<1> DEFINE a == [ask[r] EXCEPT !.pc = "eligible", !.allowed = Allowed(ask[r].client)]
<1>1. ask[r] \in Ask /\ AskFits(ask[r], keys) /\ ask[r].pc = "policy"
      /\ ask[r].op \in {"token", "authorize", "refresh"} /\ ask[r].client \in Clients
  BY DEF CredInv, AskFits, ReadPolicy
<1>2. scopes' \in [Clients -> (SUBSET Envs) \cup {None}] /\ scopes' = scopes
  BY DEF ReadPolicy, CredInv, CredBase
<1>3. CASE ask[r].user = None
  BY <1>1, <1>2, <1>3, RefusedInv DEF ReadPolicy
<1>4. CASE ask[r].user # None
  <2>1. ask' = [ask EXCEPT ![r] = a]
    BY <1>4 DEF ReadPolicy, CredInv, CredBase
  <2>2. Allowed(ask[r].client) \in SUBSET Envs
    BY <1>1, <1>2 DEF Allowed, Envs
  <2>3. AskFits(a, keys) /\ a.pc = "eligible" /\ a.alone = ask[r].alone
    BY <1>1, <1>4, <2>2 DEF AskFits, Ask, AskPcs, Keyed
  <2> HIDE DEF a
  <2> QED BY <1>1, <1>2, <2>1, <2>3, GoesOnInv DEF ReadPolicy
<1> QED BY <1>3, <1>4

---------------------------------------------------------------------------
(* What may be issued *)

\* Whatever is asked for, live data is for a policy that allows it and a user with a live grant.
LEMMA IssuedIsAllowed ==
  ASSUME NEW requested \in SUBSET Envs, NEW allowed \in SUBSET Envs, NEW eligible \in BOOLEAN
  PROVE  /\ IssuedEnvScope(requested, allowed, eligible) \in Envs \cup {None}
         /\ IssuedEnvScope(requested, allowed, eligible) = "live" => "live" \in allowed /\ eligible
BY CredentialsAssumption DEF IssuedEnvScope, OneOf, RecomputeEnvScope, ResolveEnvScopes, Envs

\* A key for the dev env narrows its policy to it.
LEMMA NarrowedByKey ==
  ASSUME NEW allowed \in SUBSET Envs, NEW env \in Envs
  PROVE  /\ NarrowPolicyToKeyEnv(allowed, env) \in SUBSET allowed
         /\ "live" \in NarrowPolicyToKeyEnv(allowed, env) => env = "live"
BY DEF NarrowPolicyToKeyEnv, Envs

LEMMA ScopeOfTokenInv == ASSUME CredInv, NEW r \in Asks, ScopeOfToken(r) PROVE CredInv'
<1> DEFINE granted == HasApprovedLiveGrant(ask[r].user)
           narrowed == NarrowPolicyToKeyEnv(ask[r].allowed, keys[ask[r].key].env)
           env == IssuedEnvScope(ask[r].want, narrowed, granted)
           a == [ask[r] EXCEPT !.pc = "issue", !.env = env, !.granted = granted]
<1>1. ask[r] \in Ask /\ AskFits(ask[r], keys) /\ AskAt(r, "token", "eligible")
  BY DEF CredInv, AskFits, ScopeOfToken
<1>2. ask[r].key \in Keys /\ keys[ask[r].key] \in Key
  BY <1>1 DEF AskFits, AskAt, Keyed, CredInv, CredBase
<1>3. scopes' \in [Clients -> (SUBSET Envs) \cup {None}]
  BY DEF ScopeOfToken, CredInv, CredBase
<1>4. CASE env = None
  BY <1>1, <1>3, <1>4, RefusedInv DEF ScopeOfToken, AskAt
<1>5. CASE env # None
  <2>1. granted \in BOOLEAN /\ ask[r].want \in SUBSET Envs /\ ask[r].allowed \in SUBSET Envs
        /\ keys[ask[r].key].env \in Envs
    BY <1>1, <1>2 DEF HasApprovedLiveGrant, Ask, Key
  <2>2. narrowed \in SUBSET ask[r].allowed /\ ("live" \in narrowed => keys[ask[r].key].env = "live")
    BY <2>1, NarrowedByKey
  <2> HIDE DEF narrowed, granted
  <2>3. env \in Envs \cup {None} /\ (env = "live" => "live" \in narrowed /\ granted)
    BY <2>1, <2>2, IssuedIsAllowed
  <2>4. ask' = [ask EXCEPT ![r] = a]
    BY <1>5 DEF ScopeOfToken, CredInv, CredBase, narrowed, granted
  <2> HIDE DEF env
  <2>5. AskFits(a, keys) /\ a.pc = "issue" /\ a.alone = ask[r].alone
    BY <1>1, <2>1, <2>2, <2>3 DEF AskFits, Ask, AskAt, AskPcs, Keyed
  <2> HIDE DEF a
  <2> QED BY <1>1, <1>3, <2>4, <2>5, GoesOnInv DEF AskAt, ScopeOfToken
<1> QED BY <1>4, <1>5

LEMMA ScopeOfCodeInv == ASSUME CredInv, NEW r \in Asks, ScopeOfCode(r) PROVE CredInv'
<1> DEFINE granted == HasApprovedLiveGrant(ask[r].user)
           left == ResolveEnvScopes(ask[r].want, ask[r].allowed, granted)
           picked == IF left = Envs /\ ask[r].env # None THEN {ask[r].env} ELSE left
           env == OneOf(picked)
           a == [ask[r] EXCEPT !.pc = "issue", !.env = env, !.granted = granted]
<1>1. ask[r] \in Ask /\ AskFits(ask[r], keys) /\ AskAt(r, "authorize", "eligible") /\ ask[r].key = None
  BY DEF CredInv, AskFits, ScopeOfCode, AskAt, Keyed
<1>2. scopes' \in [Clients -> (SUBSET Envs) \cup {None}]
  BY DEF ScopeOfCode, CredInv, CredBase
<1>3. CASE picked = Envs
  BY <1>1, <1>2, <1>3, RefusedInv DEF ScopeOfCode, AskAt
<1>4. CASE picked # Envs
  <2>1. granted \in BOOLEAN /\ ask[r].want \in SUBSET Envs /\ ask[r].allowed \in SUBSET Envs
        /\ ask[r].env \in Envs \cup {None}
    BY <1>1 DEF HasApprovedLiveGrant, Ask
  <2>2. ask' = [ask EXCEPT ![r] = a]
    BY <1>4 DEF ScopeOfCode, CredInv, CredBase
  <2> HIDE DEF granted
  <2>3. left \in SUBSET Envs /\ ("live" \in left => "live" \in ask[r].allowed /\ granted)
    BY <2>1 DEF ResolveEnvScopes, Envs
  <2>4. env \in Envs \cup {None} /\ (env = "live" => "live" \in left)
    BY <2>1, <2>3, CredentialsAssumption DEF OneOf, Envs
  <2> HIDE DEF env
  <2>5. AskFits(a, keys) /\ a.pc = "issue" /\ a.alone = ask[r].alone
    BY <1>1, <2>1, <2>3, <2>4 DEF AskFits, Ask, AskAt, AskPcs, Keyed
  <2> HIDE DEF a
  <2> QED BY <1>1, <1>2, <2>2, <2>5, GoesOnInv DEF AskAt, ScopeOfCode
<1> QED BY <1>3, <1>4

LEMMA ScopeOfRefreshInv == ASSUME CredInv, NEW r \in Asks, ScopeOfRefresh(r) PROVE CredInv'
<1> DEFINE granted == HasApprovedLiveGrant(ask[r].user)
           env == OneOf(RecomputeEnvScope(ask[r].allowed, granted))
           a == [ask[r] EXCEPT !.pc = "issue", !.granted = granted, !.env = env]
<1>1. ask[r] \in Ask /\ AskFits(ask[r], keys) /\ AskAt(r, "refresh", "eligible") /\ ask[r].key = None
  BY DEF CredInv, AskFits, ScopeOfRefresh, AskAt, Keyed
<1>2. scopes' \in [Clients -> (SUBSET Envs) \cup {None}]
  BY DEF ScopeOfRefresh, CredInv, CredBase
<1>3. granted \in BOOLEAN /\ ask[r].allowed \in SUBSET Envs
  BY <1>1 DEF HasApprovedLiveGrant, Ask
<1>4. ask' = [ask EXCEPT ![r] = a]
  BY DEF ScopeOfRefresh, CredInv, CredBase
<1> HIDE DEF granted
<1>5. env \in Envs \cup {None} /\ (env = "live" => "live" \in ask[r].allowed /\ granted)
  BY <1>3, CredentialsAssumption DEF OneOf, RecomputeEnvScope, Envs
<1> HIDE DEF env
<1>6. AskFits(a, keys) /\ a.pc = "issue" /\ a.alone = ask[r].alone
  BY <1>1, <1>3, <1>5 DEF AskFits, Ask, AskAt, AskPcs, Keyed
<1> HIDE DEF a
<1> QED BY <1>1, <1>2, <1>4, <1>6, GoesOnInv DEF AskAt, ScopeOfRefresh

LEMMA IssueTokenInv == ASSUME CredInv, NEW r \in Asks, IssueToken(r) PROVE CredInv'
<1>1. ask[r] \in Ask /\ AskFits(ask[r], keys) /\ ask[r].pc = "issue"
  BY DEF CredInv, AskFits, IssueToken
<1>2. PICK t \in Tokens :
        /\ tokens[t] = None
        /\ tokens' = [tokens EXCEPT ![t] =
             [client |-> ask[r].client, user |-> ask[r].user, env |-> ask[r].env, key |-> ask[r].key,
              allowed |-> ask[r].allowed, granted |-> ask[r].granted, revoked |-> ask[r].revoked]]
  BY DEF IssueToken
<1> DEFINE new == [client |-> ask[r].client, user |-> ask[r].user, env |-> ask[r].env, key |-> ask[r].key,
                   allowed |-> ask[r].allowed, granted |-> ask[r].granted, revoked |-> ask[r].revoked]
<1>3. TokenFits(new, keys)
  BY <1>1 DEF AskFits, TokenFits, Ask, Token, AskPcs, Keyed, AllAsking
<1> HIDE DEF new
<1>4. /\ DOMAIN tokens' = Tokens /\ tokens' = [u \in Tokens |-> tokens'[u]]
      /\ \A u \in Tokens : tokens'[u] = tokens[u] \/ tokens'[u] = new
  BY <1>2 DEF CredInv, CredBase, new
<1>5. /\ keys' = keys /\ Grown(keys, keys') /\ keys' \in [Keys -> Key \cup {None}]
      /\ scopes' \in [Clients -> (SUBSET Envs) \cup {None}]
  BY NothingGrows DEF IssueToken, CredInv, CredBase
<1>6. \A u \in Tokens : tokens'[u] # None => tokens'[u] = tokens[u] \/ TokenFits(tokens'[u], keys')
  BY <1>3, <1>4, <1>5
<1>7. Answered(r) /\ UNCHANGED <<liveGrant, day, asks>>
  BY DEF IssueToken
<1> QED BY <1>1, <1>4, <1>5, <1>6, <1>7, AnsweredInv

LEMMA EditExpiryInv == ASSUME CredInv, NEW r \in Asks, EditExpiry(r) PROVE CredInv'
<1>1. ask[r] \in Ask /\ AskFits(ask[r], keys) /\ AskAt(r, "expiry", "key")
  BY DEF CredInv, AskFits, EditExpiry
<1>2. ask[r].key \in Keys /\ keys[ask[r].key] \in Key /\ ask[r].until \in 0 .. MaxDay + KeyLife + 1
  BY <1>1 DEF AskFits, AskAt, Keyed, CredInv, CredBase, Ask
<1>3. keys' = [keys EXCEPT ![ask[r].key].expires = ask[r].until]
      /\ keys \in [Keys -> Key \cup {None}]
  BY DEF EditExpiry, CredInv, CredBase
<1>4. keys' \in [Keys -> Key \cup {None}] /\ Grown(keys, keys')
  BY <1>2, <1>3, CredentialsAssumption DEF Key, Grown
<1>5. DOMAIN tokens = Tokens /\ tokens = [t \in Tokens |-> tokens[t]] /\ tokens' = tokens
      /\ scopes' \in [Clients -> (SUBSET Envs) \cup {None}]
  BY DEF EditExpiry, CredInv, CredBase
<1> QED BY <1>1, <1>4, <1>5, AnsweredInv DEF EditExpiry, AskAt

LEMMA InsertKeyInv == ASSUME CredInv, NEW r \in Asks, InsertKey(r) PROVE CredInv'
<1>1. ask[r] \in Ask /\ AskFits(ask[r], keys) /\ ask[r].pc = "insert" /\ ask[r].op \in {"mint", "rotate"}
  BY DEF CredInv, AskFits, InsertKey
<1>2. PICK k \in Keys :
        /\ keys[k] = None
        /\ keys' = [keys EXCEPT ![k] = [client |-> ask[r].client, env |-> ask[r].env,
                                        expires |-> ask[r].until, revoked |-> FALSE]]
  BY DEF InsertKey
<1>3. [client |-> ask[r].client, env |-> ask[r].env, expires |-> ask[r].until, revoked |-> FALSE] \in Key
  BY <1>1 DEF AskFits, Ask, Key
<1>4. keys' \in [Keys -> Key \cup {None}] /\ Grown(keys, keys')
  BY <1>2, <1>3 DEF Grown, CredInv, CredBase
<1>5. DOMAIN tokens = Tokens /\ tokens = [t \in Tokens |-> tokens[t]] /\ tokens' = tokens
      /\ scopes' \in [Clients -> (SUBSET Envs) \cup {None}]
  BY DEF InsertKey, CredInv, CredBase
<1>6. Answered(r) /\ UNCHANGED <<liveGrant, day, asks>>
  BY DEF InsertKey
<1> QED BY <1>1, <1>4, <1>5, <1>6, AnsweredInv

\* A key that is revoked: a request that has yet to look at it will find it so.
LEMMA RevokeKeyInv == ASSUME CredInv, NEW r \in Asks, RevokeKey(r) PROVE CredInv'
<1> USE DEF CredInv
<1> DEFINE k == ask[r].key
           hit(q) == AskAt(q, "token", "verify") /\ ask[q].key = k
           a(q) == [ask[q] EXCEPT !.revoked = @ \/ hit(q)]
<1>1. AskFits(ask[r], keys) /\ AskAt(r, "revoke", "key") /\ k \in Keys /\ keys[k] \in Key
  BY DEF RevokeKey, AskFits, AskAt, Keyed, CredBase
<1>2. keys' = [keys EXCEPT ![k].revoked = TRUE] /\ keys \in [Keys -> Key \cup {None}]
  BY DEF RevokeKey, CredBase
<1>3. /\ keys' \in [Keys -> Key \cup {None}] /\ Grown(keys, keys') /\ keys'[k].revoked
      /\ \A j \in Keys : keys[j] # None => keys'[j].client = keys[j].client
  <2> DEFINE row == [keys[k] EXCEPT !.revoked = TRUE]
  <2>1. row \in Key /\ row.client = keys[k].client /\ row.env = keys[k].env /\ row.revoked
    BY <1>1 DEF Key
  <2>2. \A j \in Keys : keys'[j] = IF j = k THEN row ELSE keys[j]
    BY <1>2
  <2>3. None \notin Key
    BY CredentialsAssumption
  <2> HIDE DEF row
  <2>4. keys' \in [Keys -> Key \cup {None}]
    BY <1>2, <2>1, <2>2
  <2> QED BY <1>1, <2>1, <2>2, <2>3, <2>4 DEF Grown
<1>4. DOMAIN ask' = Asks /\ ask'[r] = NoAsk /\ \A q \in Asks \ {r} : ask'[q] = a(q)
  BY DEF RevokeKey
<1>5. \A q \in Asks \ {r} : AskFits(a(q), keys')
  <2> TAKE q \in Asks \ {r}
  <2>1. AskFits(ask[q], keys') /\ ask[q] \in Ask
    BY <1>3, FitsGrown DEF AskFits
  <2>2. hit(q) \in BOOLEAN /\ (hit(q) => ask[q].pc = "verify" /\ keys'[ask[q].key].revoked)
    BY <1>3 DEF AskAt
  <2> HIDE DEF hit
  <2> QED BY <2>1, <2>2 DEF AskFits, Ask, AskPcs, Keyed
<1>6. \A q \in Asks \ {r} : a(q).pc = ask[q].pc /\ a(q).alone = ask[q].alone
  BY DEF AskFits, Ask
<1> HIDE DEF a
<1>7. \A q \in Asks : AskFits(ask'[q], keys')
  BY <1>4, <1>5, NoAskFits
<1>8. CredBase'
  <2>1. ask' = [q \in Asks |-> ask'[q]]
    BY <1>4 DEF RevokeKey
  <2> QED BY <1>3, <1>4, <2>1 DEF RevokeKey, CredBase
<1>9. \A t \in Tokens : tokens'[t] # None => TokenFits(tokens'[t], keys')
  BY <1>3, TokenGrown DEF RevokeKey
<1>10. \A q \in Asks : ByItself(q)'
  BY <1>1, <1>4, <1>6 DEF ByItself, AskAt, NoAsk
<1> QED BY <1>7, <1>8, <1>9, <1>10

\* Another request is none the worse for one that arrives.
LEMMA Overtaken ==
  ASSUME NEW x \in Ask, NEW ks, NEW alone \in BOOLEAN, AskFits(x, ks)
  PROVE  /\ AskFits([x EXCEPT !.alone = alone], ks) /\ [x EXCEPT !.alone = alone].pc = x.pc
         /\ [x EXCEPT !.alone = alone].alone = alone
<1> DEFINE y == [x EXCEPT !.alone = alone]
<1>1. /\ y \in Ask /\ y.alone = alone /\ y.pc = x.pc /\ y.op = x.op /\ y.client = x.client /\ y.user = x.user
      /\ y.key = x.key /\ y.env = x.env /\ y.allowed = x.allowed /\ y.granted = x.granted /\ y.revoked = x.revoked
  BY DEF Ask
<1> HIDE DEF y
<1>2. AskFits(y, ks) /\ y.pc = x.pc /\ y.alone = alone
  BY <1>1 DEF AskFits
<1> QED BY <1>2 DEF y

\* A request that arrives is by itself when no other is under way, and no other is any longer.
LEMMA BeginInv ==
  ASSUME CredInv, NEW r \in Asks, NEW op \in AllAsking, NEW c \in Clients, NEW u \in Owners \cup {None},
         NEW k \in Keys \cup {None}, NEW want \in SUBSET Envs, NEW env \in Envs \cup {None},
         NEW until \in 0 .. MaxDay + KeyLife + 1, BeginAsk(r, op, c, u, k, want, env, until),
         op \in Keyed => k \in Keys /\ keys[k] # None, op \notin Keyed => k = None,
         op = "mint" => env \in Envs
  PROVE  CredInv'
<1> USE DEF CredInv
<1> DEFINE new == [pc |-> FirstPc(op), op |-> op, client |-> c, user |-> u, key |-> k, env |-> env,
                   want |-> want, until |-> until, allowed |-> {}, granted |-> FALSE,
                   alone |-> ~OthersBusy(r), revoked |-> k # None /\ keys[k].revoked]
           old(q) == [ask[q] EXCEPT !.alone = @ /\ ask[q].pc = "idle"]
<1>1. DOMAIN ask' = Asks /\ ask'[r] = new /\ \A q \in Asks \ {r} : ask'[q] = old(q)
  BY DEF BeginAsk
<1>2. UNCHANGED <<keys, scopes, tokens, liveGrant, day>> /\ asks' \in 0 .. MaxAsks
  BY CredentialsAssumption DEF BeginAsk, CredBase
<1>3. /\ FirstPc(op) \in AskPcs(op) /\ FirstPc(op) \notin {"idle", "count", "insert", "eligible", "issue"}
      /\ FirstPc(op) = "policy" => op \notin Keyed
      /\ FirstPc(op) = "verify" => op = "token"
      /\ FirstPc(op) = "widen" => op = "demote"
      /\ FirstPc(op) \in {"client", "verify", "key", "reach", "widen", "policy"}
      /\ FirstPc(op) = "key" \/ op # "rotate"
  BY DEF FirstPc, AskPcs, AllAsking, Keyed
<1>4. keys[k] \in Key \/ k = None
  BY DEF CredBase, Keyed
<1>5. new.alone \in BOOLEAN /\ new.revoked \in BOOLEAN
  BY <1>4 DEF Key, OthersBusy
<1>6. AskFits(new, keys)
  BY <1>3, <1>4, <1>5 DEF AskFits, Ask, Keyed
<1>7. new.alone => \A q \in Asks \ {r} : ask[q].pc = "idle"
  BY DEF OthersBusy
<1>8. new.pc = FirstPc(op) /\ new.op = op
  OBVIOUS
<1> HIDE DEF new
<1>9. \A q \in Asks \ {r} : /\ AskFits(old(q), keys) /\ old(q).pc = ask[q].pc
                            /\ old(q).alone => ask[q].pc = "idle"
  <2> TAKE q \in Asks \ {r}
  <2>1. ask[q] \in Ask /\ AskFits(ask[q], keys)
    BY DEF AskFits
  <2>2. (ask[q].alone /\ ask[q].pc = "idle") \in BOOLEAN
    BY <2>1 DEF Ask
  <2>3. old(q) = [ask[q] EXCEPT !.alone = ask[q].alone /\ ask[q].pc = "idle"]
    OBVIOUS
  <2> QED BY <2>1, <2>2, <2>3, Overtaken
<1> HIDE DEF old
<1>10. \A q \in Asks : AskFits(ask'[q], keys')
  BY <1>1, <1>2, <1>6, <1>9
<1>11. CredBase'
  <2>1. ask' = [q \in Asks |-> ask'[q]]
    BY DEF BeginAsk
  <2> QED BY <1>1, <1>2, <2>1 DEF CredBase
<1>12. \A q \in Asks : ByItself(q)'
  <2> TAKE q \in Asks
  <2>1. CASE q = r
    BY <1>1, <1>3, <1>7, <1>8, <1>9, <2>1 DEF ByItself, AskAt
  <2>2. CASE q # r
    BY <1>1, <1>9, <2>2 DEF ByItself
  <2> QED BY <2>1, <2>2
<1> QED BY <1>2, <1>10, <1>11, <1>12

\* When a request may want a key to expire.
LEMMA UntilFits ==
  ASSUME CredInv, NEW d \in {0, KeyLife, KeyLife + 1}
  PROVE  day + d \in 0 .. MaxDay + KeyLife + 1 /\ 0 \in 0 .. MaxDay + KeyLife + 1
BY CredentialsAssumption DEF CredInv, CredBase

LEMMA ArriveInv ==
  ASSUME CredInv, NEW r \in Asks,
         \/ AskMint(r) \/ AskRegister(r) \/ AskKey(r) \/ AskPolicy(r)
         \/ AskToken(r) \/ AskAuthorize(r) \/ AskRefresh(r)
  PROVE  CredInv'
<1>1. 0 \in 0 .. MaxDay + KeyLife + 1 /\ {} \in SUBSET Envs
  BY CredentialsAssumption
<1>2. ASSUME AskMint(r) PROVE CredInv'
  <2>1. PICK c \in Clients, env \in Envs, d \in {KeyLife, KeyLife + 1} :
          BeginAsk(r, "mint", c, None, None, {}, env, day + d)
    BY <1>2 DEF AskMint
  <2>2. day + d \in 0 .. MaxDay + KeyLife + 1
    BY UntilFits
  <2> QED BY <1>1, <2>1, <2>2, BeginInv DEF AllAsking, Keyed
<1>3. ASSUME AskRegister(r) PROVE CredInv'
  <2>1. PICK c \in Clients : BeginAsk(r, "register", c, None, None, {}, None, 0)
    BY <1>3 DEF AskRegister
  <2> QED BY <1>1, <2>1, BeginInv DEF AllAsking, Keyed
<1>4. ASSUME AskKey(r) PROVE CredInv'
  <2>1. PICK op \in {"rotate", "revoke", "expiry"}, k \in Keys, d \in {0, KeyLife, KeyLife + 1} :
          keys[k] # None /\ BeginAsk(r, op, keys[k].client, None, k, {}, None, day + d)
    BY <1>4 DEF AskKey
  <2>2. day + d \in 0 .. MaxDay + KeyLife + 1
    BY UntilFits
  <2>3. keys[k].client \in Clients
    BY <2>1 DEF CredInv, CredBase, Key
  <2> QED BY <1>1, <2>1, <2>2, <2>3, BeginInv DEF AllAsking, Keyed
<1>5. ASSUME AskPolicy(r) PROVE CredInv'
  <2>1. PICK op \in {"promote", "demote"}, c \in Clients : BeginAsk(r, op, c, None, None, {}, None, 0)
    BY <1>5 DEF AskPolicy
  <2> QED BY <1>1, <2>1, BeginInv DEF AllAsking, Keyed
<1>6. ASSUME AskToken(r) PROVE CredInv'
  <2>1. PICK k \in Keys, u \in Owners \cup {None}, want \in Wanted :
          keys[k] # None /\ BeginAsk(r, "token", keys[k].client, u, k, want, None, 0)
    BY <1>6 DEF AskToken
  <2>2. keys[k].client \in Clients /\ want \in SUBSET Envs
    BY <2>1, CredentialsAssumption DEF CredInv, CredBase, Key
  <2> QED BY <1>1, <2>1, <2>2, BeginInv DEF AllAsking, Keyed
<1>7. ASSUME AskAuthorize(r) PROVE CredInv'
  <2>1. PICK c \in Clients, u \in Owners, want \in Wanted, env \in Envs \cup {None} :
          BeginAsk(r, "authorize", c, u, None, want, env, 0)
    BY <1>7 DEF AskAuthorize
  <2>2. want \in SUBSET Envs
    BY CredentialsAssumption
  <2> QED BY <1>1, <2>1, <2>2, BeginInv DEF AllAsking, Keyed
<1>8. ASSUME AskRefresh(r) PROVE CredInv'
  <2>1. PICK t \in Tokens : /\ tokens[t] # None
                            /\ BeginAsk(r, "refresh", tokens[t].client, tokens[t].user, None, {}, None, 0)
    BY <1>8 DEF AskRefresh
  <2>2. tokens[t].client \in Clients /\ tokens[t].user \in Owners
    BY <2>1 DEF CredInv, TokenFits, Token
  <2> QED BY <1>1, <2>1, <2>2, BeginInv DEF AllAsking, Keyed
<1> QED BY <1>2, <1>3, <1>4, <1>5, <1>6, <1>7, <1>8

\* Time, and grants, take no key away.
LEMMA OutsideInv == ASSUME CredInv, GrantChanges \/ DayPasses PROVE CredInv'
<1> USE DEF CredInv
<1>1. UNCHANGED <<keys, scopes, tokens, ask>> /\ day' \in 0 .. MaxDay /\ day' \in {day, day + 1} /\ asks' \in 0 .. MaxAsks
  BY CredentialsAssumption DEF GrantChanges, DayPasses, CredBase
<1>2. liveGrant' \in [Owners -> Nat]
  BY CredentialsAssumption DEF GrantChanges, DayPasses, CredBase
<1>3. CredBase'
  BY <1>1, <1>2 DEF CredBase
<1>4. \A c : Unrevoked(c)' = Unrevoked(c)
  BY <1>1 DEF Unrevoked, KeysOf
<1>5. \A c : UsableKeys(c)' \subseteq UsableKeys(c)
  <2> TAKE c
  <2>1. \A k \in Unrevoked(c) : keys[k].expires \in Nat /\ day \in Nat
    BY CredentialsAssumption DEF Unrevoked, KeysOf, CredBase, Key
  <2> QED BY <1>1, <1>4, <2>1 DEF UsableKeys
<1>6. \A r \in Asks : ByItself(r)'
  BY <1>1, <1>4, <1>5 DEF ByItself, AskAt
<1> QED BY <1>1, <1>3, <1>6

LEMMA CredStepInv == CredInv /\ [CredNext]_credVars => CredInv'
<1> SUFFICES ASSUME CredInv, [CredNext]_credVars PROVE CredInv'
  OBVIOUS
<1>1. ASSUME NEW r \in Asks, CredStep(r) PROVE CredInv'
  BY <1>1, ArriveInv, MintClientInv, RegisterPolicyInv, RotateReadInv, CountKeysInv, InsertKeyInv,
     RevokeKeyInv, EditExpiryInv, PromoteCheckInv, SetAllowedScopesInv, VerifyKeyInv, ReadPolicyInv,
     ScopeOfTokenInv, ScopeOfCodeInv, ScopeOfRefreshInv, IssueTokenInv DEF CredStep
<1>2. ASSUME UNCHANGED credVars PROVE CredInv'
  <2>1. UNCHANGED <<keys, scopes, tokens, liveGrant, ask, day, asks>>
    BY <1>2 DEF credVars, credState
  <2>2. CredBase'
    BY <2>1 DEF CredInv, CredBase
  <2>3. \A r \in Asks : ByItself(r)'
    BY <2>1 DEF CredInv, ByItself, AskAt, Unrevoked, KeysOf, UsableKeys
  <2> QED BY <2>1, <2>2, <2>3 DEF CredInv
<1> QED BY <1>1, <1>2, OutsideInv DEF CredNext

LEMMA CredInvAlways == CredSpec => []CredInv
BY CredInitInv, CredStepInv, PTL DEF CredSpec

\* The check that createClientSecret makes is still true when the key of a request by itself is
\* stored.
LEMMA CeilingStep ==
  ASSUME CredInv, NEW r \in Asks, NEW c \in Clients, ask[r].alone, ask[r].client = c, InsertKey(r)
  PROVE  Cardinality(Unrevoked(c)') <= MaxKeys
<1>1. Cardinality(Unrevoked(c)) < MaxKeys
  BY DEF InsertKey, CredInv, ByItself
<1>2. PICK k \in Keys :
        /\ keys[k] = None
        /\ keys' = [keys EXCEPT ![k] = [client |-> c, env |-> ask[r].env,
                                        expires |-> ask[r].until, revoked |-> FALSE]]
  BY DEF InsertKey
<1>3. Unrevoked(c)' \subseteq Unrevoked(c) \cup {k}
  <2>1. \A j \in Keys \ {k} : keys'[j] = keys[j]
    BY <1>2 DEF CredInv, CredBase
  <2> QED BY <2>1 DEF Unrevoked, KeysOf
<1>4. IsFiniteSet(Unrevoked(c)) /\ k \notin Unrevoked(c)
  BY <1>2, CredentialsAssumption, FS_Subset DEF Unrevoked, KeysOf
<1>5. /\ IsFiniteSet(Unrevoked(c) \cup {k})
      /\ Cardinality(Unrevoked(c) \cup {k}) = Cardinality(Unrevoked(c)) + 1
  BY <1>4, FS_AddElement
<1>6. Cardinality(Unrevoked(c)') <= Cardinality(Unrevoked(c) \cup {k})
  BY <1>3, <1>5, FS_Subset
<1>7. Cardinality(Unrevoked(c)) \in Nat /\ Cardinality(Unrevoked(c)') \in Nat
  BY <1>3, <1>4, <1>5, FS_Subset, FS_CardinalityType
<1> QED BY <1>1, <1>5, <1>6, <1>7, CredentialsAssumption

\* Whatever requests overlap, no token reaches live data that its policy, its key and its user's
\* grants did not all allow, a revoked key opens nothing, and a request that was alone keeps the
\* ceiling on keys and records no promotion its keys cannot reach.
THEOREM KeysCorrectAlways == CredSpec => KeysCorrect
<1>1. CredInv /\ [CredNext]_credVars =>
        [\A r \in Asks, c \in Clients : ask[r].alone /\ ask[r].client = c /\ InsertKey(r) =>
           Cardinality(Unrevoked(c)') <= MaxKeys]_credVars
  BY CeilingStep
<1>2. CredInv /\ [CredNext]_credVars =>
        [\A r \in Asks : ask[r].alone /\ AskAt(r, "promote", "widen") /\ SetAllowedScopes(r) =>
           \/ UsableKeys(ask[r].client) = {}
           \/ \E k \in Unrevoked(ask[r].client) : keys[k].env = "live"]_credVars
  BY DEF CredInv, ByItself, AskAt
<1> QED BY <1>1, <1>2, CredParts, CredInvAlways, PTL
        DEF CredSpec, KeysCorrect, AloneKeepsCeiling, AlonePromotionReaches

---------------------------------------------------------------------------
(* The inductive invariant of Platform *)

\* Where a request of each kind can be.
CallPcs(op) ==
  IF op = "create" THEN {"insert", "member", "manage", "audit"}
  ELSE IF op = "delete" THEN {"audit", "data_synth", "data_live", "drop"}
  ELSE IF op = "seed" THEN {"wipe", "generate"}
  ELSE IF op = "client" THEN {"policy"}
  ELSE IF op = "switch" THEN {"session"}
  ELSE {"store"}

CallRecord ==
  [pc : {"idle", "insert", "member", "manage", "audit", "data_synth", "data_live", "drop", "wipe",
         "generate", "policy", "session", "store"},
   op : AllOperations, ws : Ids \cup {None}, who : PlatformKeys \cup People \cup {None},
   app : Apps \cup {None}, nr : Nat, quiet : BOOLEAN]

CallFits(x) == x \in CallRecord /\ (x.pc # "idle" => x.ws \in Ids /\ x.pc \in CallPcs(x.op))

\* A request that no other overlaps: what it looked up is still so.
Undisturbed(r) ==
  call[r].pc # "idle" /\ call[r].quiet =>
    /\ \A q \in Calls \ {r} : call[q].pc = "idle"
    /\ call[r].op \in {"seed", "write"} => call[r].ws \in here /\ call[r].nr = made[call[r].ws]

\* The rows that such a request stores are of the workspace there is now.
QuietRows(w) == {d \in rows : d.quiet /\ d.ws = w}
OfThisOne == \A d \in rows : d.quiet => d.ws \in here /\ d.nr = made[d.ws]

\* What a deletion has swept stays swept of them.
SweptSoFar(r) ==
  call[r].op = "delete" =>
    /\ call[r].pc = "data_live" => \A d \in QuietRows(call[r].ws) : d.schema = "data_live"
    /\ call[r].pc = "drop" => QuietRows(call[r].ws) = {}

\* The creations and the deletions that are still to come of the requests under way.
Creating == {r \in Calls : call[r].op = "create" /\ call[r].pc = "insert"}
Deleting(w) == {r \in Calls : call[r].op = "delete" /\ call[r].ws = w /\ call[r].pc \in {"data_synth", "data_live", "drop"}}

CreationsBounded == \A w \in Ids : made[w] + Cardinality(Creating) <= requests + 1
DeletionsAhead ==
  \A w \in Ids :
    made[w] + Cardinality(Deleting(w)) <= trail[<<"deleted", w>>] + (IF w \in here THEN 1 ELSE 0)

PlatBase ==
  /\ made \in [Ids -> Nat] /\ here \subseteq Ids /\ belongs \subseteq here \X People
  /\ manages \in [PlatformKeys -> (SUBSET Ids) \cup {None}] /\ pinned \in [Apps -> here \cup {None}]
  /\ rows \subseteq [ws : Ids, schema : Schemas, nr : Nat, quiet : BOOLEAN] /\ named \subseteq here
  /\ active \in [People -> Ids] /\ trail \in [{"created", "deleted"} \X Ids -> Nat]
  /\ requests \in 0 .. MaxRequests
  /\ DOMAIN call = Calls /\ call = [r \in Calls |-> call[r]]

PlatInv ==
  /\ PlatBase
  /\ \A r \in Calls : CallFits(call[r]) /\ Undisturbed(r) /\ SweptSoFar(r)
  /\ OfThisOne
  /\ CreationsBounded
  /\ DeletionsAhead

LEMMA NoCallFits == CallFits(NoCall) /\ NoCall.pc = "idle"
BY PlatformAssumption DEF CallFits, NoCall, CallRecord, AllOperations

---------------------------------------------------------------------------
(* Counts of the requests under way *)

LEMMA CallsFinite ==
  /\ \A S \in SUBSET Calls : IsFiniteSet(S) /\ Cardinality(S) \in Nat
  /\ \A S, T \in SUBSET Calls : S \subseteq T => Cardinality(S) <= Cardinality(T)
  /\ \A S \in SUBSET Calls : \A r \in Calls \ S : Cardinality(S \cup {r}) = Cardinality(S) + 1
<1>1. \A S \in SUBSET Calls : IsFiniteSet(S) /\ Cardinality(S) \in Nat
  BY PlatformAssumption, FS_Subset, FS_CardinalityType
<1>2. \A S, T \in SUBSET Calls : S \subseteq T => Cardinality(S) <= Cardinality(T)
  BY <1>1, FS_Subset
<1>3. \A S \in SUBSET Calls : \A r \in Calls \ S : Cardinality(S \cup {r}) = Cardinality(S) + 1
  BY <1>1, FS_AddElement
<1> QED BY <1>1, <1>2, <1>3

LEMMA CreatingCounted == Creating \in SUBSET Calls /\ Cardinality(Creating) \in Nat
BY CallsFinite DEF Creating

LEMMA DeletingCounted == \A w : Deleting(w) \in SUBSET Calls /\ Cardinality(Deleting(w)) \in Nat
BY CallsFinite DEF Deleting

\* A request that is not, or no longer, about to create or to delete is not counted.
LEMMA CountsDrop ==
  ASSUME PlatInv, NEW r \in Calls, NEW x, call' = [call EXCEPT ![r] = x],
         x.op = "create" /\ x.pc = "insert" => r \in Creating,
         x.op = "delete" /\ x.pc \in {"data_synth", "data_live", "drop"} => r \in Deleting(x.ws)
  PROVE  /\ Creating' \in SUBSET Calls /\ Cardinality(Creating)' \in Nat
         /\ Cardinality(Creating)' <= Cardinality(Creating)
         /\ \A w : /\ Cardinality(Deleting(w)') \in Nat
                   /\ Cardinality(Deleting(w)') <= Cardinality(Deleting(w))
<1>1. DOMAIN call' = Calls /\ call'[r] = x /\ \A q \in Calls \ {r} : call'[q] = call[q]
  BY DEF PlatInv, PlatBase
<1>2. Creating' \subseteq Creating /\ Creating \in SUBSET Calls
  BY <1>1 DEF Creating
<1>3. \A w : Deleting(w)' \subseteq Deleting(w) /\ Deleting(w) \in SUBSET Calls
  BY <1>1 DEF Deleting
<1> QED BY <1>2, <1>3, CallsFinite

---------------------------------------------------------------------------
(* The steps *)

\* The tables, whatever the requests are doing.
TablesOK ==
  /\ made \in [Ids -> Nat] /\ here \subseteq Ids /\ belongs \subseteq here \X People
  /\ manages \in [PlatformKeys -> (SUBSET Ids) \cup {None}] /\ pinned \in [Apps -> here \cup {None}]
  /\ rows \subseteq [ws : Ids, schema : Schemas, nr : Nat, quiet : BOOLEAN] /\ named \subseteq here
  /\ active \in [People -> Ids] /\ trail \in [{"created", "deleted"} \X Ids -> Nat]

\* A request that was under way moves to x.
LEMMA MovesOn ==
  ASSUME PlatInv, NEW r \in Calls, call[r].pc # "idle", NEW x, CallFits(x),
         call' = [call EXCEPT ![r] = x], requests' = requests, TablesOK',
         x.pc # "idle" => x.op = call[r].op /\ x.ws = call[r].ws /\ x.nr = call[r].nr /\ x.quiet = call[r].quiet,
         x.pc # "idle" /\ x.op \in {"seed", "write"} => UNCHANGED <<made, here>>,
         \A d \in rows' \ rows : d.quiet => call[r].quiet,
         x.op = "delete" /\ x.pc = "data_live" =>
           \A d \in rows' : d.quiet /\ d.ws = x.ws => d.schema = "data_live",
         x.op = "delete" /\ x.pc = "drop" => \A d \in rows' : ~(d.quiet /\ d.ws = x.ws),
         OfThisOne', CreationsBounded', DeletionsAhead'
  PROVE  PlatInv'
<1> USE DEF PlatInv
<1>1. DOMAIN call' = Calls /\ call'[r] = x /\ \A q \in Calls \ {r} : call'[q] = call[q]
  BY DEF PlatBase
<1>2. PlatBase'
  BY <1>1 DEF PlatBase, TablesOK
<1>3. \A q \in Calls : CallFits(call'[q])
  BY <1>1
<1>4. \A q \in Calls : Undisturbed(q)'
  BY <1>1 DEF Undisturbed
<1>5. \A q \in Calls : SweptSoFar(q)'
  <2> TAKE q \in Calls
  <2>1. CASE q = r
    <3>1. x = call'[q]
      BY <1>1, <2>1
    <3> QED BY <3>1 DEF SweptSoFar, QuietRows
  <2>2. CASE q # r /\ call[q].pc # "idle"
    <3>1. ~call[r].quiet
      BY <2>2 DEF Undisturbed
    <3>2. \A w : QuietRows(w)' \subseteq QuietRows(w)
      BY <3>1 DEF QuietRows
    <3> QED BY <1>1, <2>2, <3>2 DEF SweptSoFar
  <2>3. CASE q # r /\ call[q].pc = "idle"
    BY <1>1, <2>3 DEF SweptSoFar
  <2> QED BY <2>1, <2>2, <2>3
<1> QED BY <1>2, <1>3, <1>4, <1>5

\* One that leaves the workspaces as they are, and no row behind.
LEMMA PlainStep ==
  ASSUME PlatInv, NEW r \in Calls, call[r].pc # "idle", NEW x, CallFits(x),
         call' = [call EXCEPT ![r] = x], UNCHANGED <<made, here, requests>>, TablesOK',
         rows' \subseteq rows,
         \A w \in Ids : trail'[<<"deleted", w>>] = trail[<<"deleted", w>>],
         x.pc # "idle" => x.op = call[r].op /\ x.ws = call[r].ws /\ x.nr = call[r].nr /\ x.quiet = call[r].quiet,
         x.op = "create" => x.pc # "insert",
         x.op = "delete" => x.pc = "idle"
  PROVE  PlatInv'
<1> USE DEF PlatInv
<1>1. /\ Cardinality(Creating)' \in Nat /\ Cardinality(Creating)' <= Cardinality(Creating)
      /\ \A w : /\ Cardinality(Deleting(w)') \in Nat
                /\ Cardinality(Deleting(w)') <= Cardinality(Deleting(w))
  BY CountsDrop
<1>2. CreationsBounded'
  BY <1>1, CreatingCounted, PlatformAssumption DEF CreationsBounded, PlatBase
<1>3. DeletionsAhead'
  <2> SUFFICES ASSUME NEW w \in Ids
               PROVE  made[w] + Cardinality(Deleting(w)') <=
                        trail[<<"deleted", w>>] + (IF w \in here THEN 1 ELSE 0)
    BY DEF DeletionsAhead
  <2>1. trail[<<"deleted", w>>] \in Nat /\ made[w] \in Nat
    BY DEF PlatBase
  <2> HIDE DEF PlatInv
  <2>2. made[w] + Cardinality(Deleting(w)) <= trail[<<"deleted", w>>] + (IF w \in here THEN 1 ELSE 0)
    BY DEF DeletionsAhead, PlatInv
  <2> QED BY <1>1, <2>1, <2>2, DeletingCounted
<1>4. OfThisOne'
  BY DEF OfThisOne
<1> QED BY <1>2, <1>3, <1>4, MovesOn

\* EndsCall and MoveTo in the form of these lemmas.
LEMMA MoveForm ==
  ASSUME PlatInv, NEW r \in Calls, NEW pc, MoveTo(r, pc)
  PROVE  call' = [call EXCEPT ![r] = [call[r] EXCEPT !.pc = pc]]
BY DEF MoveTo, PlatInv, PlatBase

LEMMA MovedCall ==
  ASSUME NEW x, CallFits(x), x.pc # "idle", NEW pc \in CallPcs(x.op)
  PROVE  /\ CallFits([x EXCEPT !.pc = pc]) /\ [x EXCEPT !.pc = pc].pc = pc
         /\ [x EXCEPT !.pc = pc].op = x.op /\ [x EXCEPT !.pc = pc].ws = x.ws
         /\ [x EXCEPT !.pc = pc].nr = x.nr /\ [x EXCEPT !.pc = pc].quiet = x.quiet
         /\ [x EXCEPT !.pc = pc].who = x.who
<1>1. pc \in {"idle", "insert", "member", "manage", "audit", "data_synth", "data_live", "drop", "wipe",
              "generate", "policy", "session", "store"}
  BY DEF CallPcs
<1> QED BY <1>1 DEF CallFits, CallRecord

LEMMA PlainEnd ==
  ASSUME PlatInv, NEW r \in Calls, call[r].pc # "idle", EndsCall(r),
         UNCHANGED <<made, here, requests>>, TablesOK', rows' \subseteq rows,
         \A w \in Ids : trail'[<<"deleted", w>>] = trail[<<"deleted", w>>]
  PROVE  PlatInv'
<1>1. NoCall.op = "create"
  BY DEF NoCall
<1> QED BY <1>1, NoCallFits, PlainStep DEF EndsCall

LEMMA PlainMove ==
  ASSUME PlatInv, NEW r \in Calls, call[r].pc # "idle", NEW pc \in CallPcs(call[r].op), MoveTo(r, pc),
         UNCHANGED <<made, here, requests>>, TablesOK', rows' \subseteq rows,
         \A w \in Ids : trail'[<<"deleted", w>>] = trail[<<"deleted", w>>],
         call[r].op = "create" => pc # "insert", call[r].op # "delete"
  PROVE  PlatInv'
<1> DEFINE x == [call[r] EXCEPT !.pc = pc]
<1>1. CallFits(call[r])
  BY DEF PlatInv
<1>2. CallFits(x) /\ x.pc = pc /\ x.op = call[r].op /\ x.ws = call[r].ws /\ x.nr = call[r].nr /\ x.quiet = call[r].quiet
  BY <1>1, MovedCall
<1>3. call' = [call EXCEPT ![r] = x]
  BY MoveForm
<1> HIDE DEF x
<1> QED BY <1>2, <1>3, PlainStep

LEMMA TablesUnchanged ==
  ASSUME PlatInv, UNCHANGED <<made, here, belongs, manages, pinned, rows, named, active, trail>>
  PROVE  TablesOK'
BY DEF PlatInv, PlatBase, TablesOK

LEMMA SwitchInv == ASSUME PlatInv, NEW r \in Calls, Switch(r) PROVE PlatInv'
<1>1. CallFits(call[r]) /\ call[r].pc # "idle" /\ call[r].ws \in Ids
  BY DEF PlatInv, CallFits, Switch, OfCall
<1>2. TablesOK'
  BY <1>1 DEF Switch, PlatInv, PlatBase, TablesOK
<1> QED BY <1>1, <1>2, PlainEnd DEF Switch

LEMMA FirstAdminInv == ASSUME PlatInv, NEW r \in Calls, FirstAdmin(r) PROVE PlatInv'
<1>1. CallFits(call[r]) /\ call[r].pc # "idle" /\ call[r].op = "create"
  BY DEF PlatInv, CallFits, FirstAdmin, OfCall
<1>2. TablesOK'
  BY <1>1 DEF FirstAdmin, PlatInv, PlatBase, TablesOK
<1>3. "manage" \in CallPcs(call[r].op)
  BY <1>1 DEF CallPcs
<1> QED BY <1>1, <1>2, <1>3, PlainEnd, PlainMove DEF FirstAdmin

LEMMA AppendManagedInv == ASSUME PlatInv, NEW r \in Calls, AppendManaged(r) PROVE PlatInv'
<1>1. CallFits(call[r]) /\ call[r].pc # "idle" /\ call[r].op = "create" /\ call[r].ws \in Ids
  BY DEF PlatInv, CallFits, AppendManaged, OfCall
<1>2. manages' \in [PlatformKeys -> (SUBSET Ids) \cup {None}]
  BY <1>1 DEF AppendManaged, ToAppend, PlatInv, PlatBase
<1>3. TablesOK'
  BY <1>2 DEF AppendManaged, PlatInv, PlatBase, TablesOK
<1>4. "audit" \in CallPcs(call[r].op)
  BY <1>1 DEF CallPcs
<1> QED BY <1>1, <1>3, <1>4, PlainMove DEF AppendManaged

LEMMA Audited ==
  ASSUME PlatInv, NEW op \in {"created", "deleted"}, NEW w \in Ids, Audit(op, w)
  PROVE  /\ trail' \in [{"created", "deleted"} \X Ids -> Nat]
         /\ \A v \in Ids : trail'[<<"deleted", v>>] =
              IF op = "deleted" /\ v = w THEN trail[<<"deleted", v>>] + 1 ELSE trail[<<"deleted", v>>]
<1> DEFINE D == {"created", "deleted"} \X Ids
<1>1. trail \in [D -> Nat] /\ trail' = [trail EXCEPT ![<<op, w>>] = @ + 1]
  BY DEF Audit, PlatInv, PlatBase
<1>2. <<op, w>> \in D /\ \A v \in Ids : <<"deleted", v>> \in D
  OBVIOUS
<1>3. \A v : <<"deleted", v>> = <<op, w>> <=> op = "deleted" /\ v = w
  OBVIOUS
<1> HIDE DEF D
<1>4. /\ trail' \in [D -> Nat]
      /\ \A e \in D : trail'[e] = IF e = <<op, w>> THEN trail[e] + 1 ELSE trail[e]
  BY <1>1, <1>2
<1> QED BY <1>2, <1>3, <1>4 DEF D

LEMMA AuditCreationInv == ASSUME PlatInv, NEW r \in Calls, AuditCreation(r) PROVE PlatInv'
<1>1. CallFits(call[r]) /\ call[r].pc # "idle" /\ call[r].ws \in Ids
  BY DEF PlatInv, CallFits, AuditCreation, OfCall
<1>2. /\ trail' \in [{"created", "deleted"} \X Ids -> Nat]
      /\ \A v \in Ids : trail'[<<"deleted", v>>] = trail[<<"deleted", v>>]
  BY <1>1, Audited DEF AuditCreation
<1>3. TablesOK'
  BY <1>2 DEF AuditCreation, PlatInv, PlatBase, TablesOK
<1> QED BY <1>1, <1>2, <1>3, PlainEnd DEF AuditCreation

LEMMA WipeInv == ASSUME PlatInv, NEW r \in Calls, Wipe(r) PROVE PlatInv'
<1>1. CallFits(call[r]) /\ call[r].pc # "idle" /\ call[r].op = "seed"
  BY DEF PlatInv, CallFits, Wipe, OfCall
<1>2. rows' \subseteq rows
  BY DEF Wipe
<1>3. TablesOK'
  BY <1>2 DEF Wipe, PlatInv, PlatBase, TablesOK
<1>4. "generate" \in CallPcs(call[r].op)
  BY <1>1 DEF CallPcs
<1> QED BY <1>1, <1>2, <1>3, <1>4, PlainMove DEF Wipe

LEMMA EquipInv == ASSUME PlatInv, NEW r \in Calls, Equip(r) PROVE PlatInv'
<1>1. CallFits(call[r]) /\ call[r].pc # "idle"
  BY DEF PlatInv, CallFits, Equip, OfCall
<1>2. pinned' \in [Apps -> here \cup {None}]
  BY DEF Equip, PlatInv, PlatBase
<1>3. TablesOK'
  BY <1>2 DEF Equip, PlatInv, PlatBase, TablesOK
<1> QED BY <1>1, <1>3, PlainEnd DEF Equip

LEMMA StopsInv == ASSUME PlatInv, NEW r \in Calls, Stops(r) PROVE PlatInv'
<1>1. TablesOK'
  BY TablesUnchanged DEF Stops
<1> QED BY <1>1, PlainEnd DEF Stops

\* Rows that a request by itself stores are of the workspace it found, which is still there.
LEMMA StoredInv ==
  ASSUME PlatInv, NEW r \in Calls, call[r].pc # "idle", call[r].op \in {"seed", "write"}, EndsCall(r),
         NEW schema \in Schemas,
         rows' = rows \cup {[ws |-> call[r].ws, schema |-> schema, nr |-> call[r].nr, quiet |-> call[r].quiet]},
         UNCHANGED <<made, here, belongs, manages, pinned, active, trail, requests>>, named' \subseteq here
  PROVE  PlatInv'
<1> DEFINE d == [ws |-> call[r].ws, schema |-> schema, nr |-> call[r].nr, quiet |-> call[r].quiet]
<1>1. CallFits(call[r]) /\ call[r].ws \in Ids /\ call[r].nr \in Nat /\ call[r].quiet \in BOOLEAN
  BY DEF PlatInv, CallFits, CallRecord
<1>2. TablesOK'
  BY <1>1 DEF PlatInv, PlatBase, TablesOK
<1>3. call' = [call EXCEPT ![r] = NoCall] /\ NoCall.op = "create" /\ NoCall.pc = "idle"
  BY DEF EndsCall, NoCall
<1>4. OfThisOne'
  <2>1. call[r].quiet => call[r].ws \in here /\ call[r].nr = made[call[r].ws]
    BY DEF PlatInv, Undisturbed
  <2>2. d.ws = call[r].ws /\ d.nr = call[r].nr /\ d.quiet = call[r].quiet
    OBVIOUS
  <2>3. OfThisOne /\ rows' = rows \cup {d}
    BY DEF PlatInv
  <2> HIDE DEF d
  <2> QED BY <2>1, <2>2, <2>3 DEF OfThisOne
<1>5. /\ Cardinality(Creating)' \in Nat /\ Cardinality(Creating)' <= Cardinality(Creating)
      /\ \A w : /\ Cardinality(Deleting(w)') \in Nat
                /\ Cardinality(Deleting(w)') <= Cardinality(Deleting(w))
  BY <1>3, CountsDrop
<1>6. CreationsBounded'
  BY <1>5, CreatingCounted, PlatformAssumption DEF CreationsBounded, PlatBase, PlatInv
<1>7. DeletionsAhead'
  <2> SUFFICES ASSUME NEW w \in Ids
               PROVE  made[w] + Cardinality(Deleting(w)') <=
                        trail[<<"deleted", w>>] + (IF w \in here THEN 1 ELSE 0)
    BY DEF DeletionsAhead
  <2>1. trail[<<"deleted", w>>] \in Nat /\ made[w] \in Nat
    BY DEF PlatBase, PlatInv
  <2>2. made[w] + Cardinality(Deleting(w)) <= trail[<<"deleted", w>>] + (IF w \in here THEN 1 ELSE 0)
    BY DEF DeletionsAhead, PlatInv
  <2> QED BY <1>5, <2>1, <2>2, DeletingCounted
<1>8. \A e \in rows' \ rows : e.quiet => call[r].quiet
  OBVIOUS
<1> QED BY <1>2, <1>3, <1>4, <1>6, <1>7, <1>8, NoCallFits, MovesOn

LEMMA StoreRowsInv == ASSUME PlatInv, NEW r \in Calls, StoreRows(r) PROVE PlatInv'
<1>1. call[r].pc # "idle" /\ call[r].op = "write" /\ EndsCall(r)
  BY DEF StoreRows, OfCall
<1>2. CASE call[r].ws \in here
  <2>1. named' \subseteq here
    BY <1>2 DEF StoreRows, PlatInv, PlatBase
  <2> QED BY <1>1, <1>2, <2>1, StoredInv DEF StoreRows, Schemas
<1>3. CASE call[r].ws \notin here
  <2>1. TablesOK'
    BY <1>3, TablesUnchanged DEF StoreRows
  <2> QED BY <1>1, <1>3, <2>1, PlainEnd DEF StoreRows
<1> QED BY <1>2, <1>3

LEMMA GenerateInv == ASSUME PlatInv, NEW r \in Calls, Generate(r) PROVE PlatInv'
<1>1. call[r].pc # "idle" /\ call[r].op = "seed" /\ EndsCall(r) /\ named' \subseteq here
  BY DEF Generate, OfCall, PlatInv, PlatBase
<1> QED BY <1>1, StoredInv DEF Generate, Schemas

\* The insert of a new workspace: the request that was about to make it has.
LEMMA InsertWorkspaceInv == ASSUME PlatInv, NEW r \in Calls, InsertWorkspace(r) PROVE PlatInv'
<1> DEFINE w == call[r].ws
<1>1. CallFits(call[r]) /\ call[r].pc = "insert" /\ call[r].op = "create" /\ w \in Ids
  BY DEF PlatInv, CallFits, InsertWorkspace, OfCall
<1>2. CASE w \in here
  <2>1. TablesOK' /\ EndsCall(r)
    BY <1>2, TablesUnchanged DEF InsertWorkspace
  <2> QED BY <1>1, <1>2, <2>1, PlainEnd DEF InsertWorkspace
<1>3. CASE w \notin here
  <2> DEFINE x == [call[r] EXCEPT !.pc = "member"]
  <2>1. made' = [made EXCEPT ![w] = @ + 1] /\ here' = here \cup {w} /\ MoveTo(r, "member")
        /\ UNCHANGED <<belongs, manages, pinned, rows, named, active, trail, requests>>
    BY <1>3 DEF InsertWorkspace
  <2>2. /\ CallFits(x) /\ x.pc = "member" /\ x.op = call[r].op /\ x.ws = w /\ x.nr = call[r].nr
        /\ x.quiet = call[r].quiet
    BY <1>1, MovedCall DEF CallPcs
  <2>3. call' = [call EXCEPT ![r] = x]
    BY <2>1, MoveForm
  <2> HIDE DEF x
  <2>4. /\ made \in [Ids -> Nat] /\ made'[w] = made[w] + 1
        /\ made' \in [Ids -> Nat] /\ \A v \in Ids \ {w} : made'[v] = made[v]
    BY <1>1, <2>1 DEF PlatInv, PlatBase
  <2>5. TablesOK'
    BY <1>1, <2>1, <2>4 DEF PlatInv, PlatBase, TablesOK
  <2>6. OfThisOne'
    <3>1. \A d \in rows : d.quiet => d.ws \in here /\ d.ws \in Ids /\ d.nr = made[d.ws]
      BY DEF PlatInv, PlatBase, OfThisOne
    <3> HIDE DEF w
    <3> QED BY <1>3, <2>1, <2>4, <3>1 DEF OfThisOne
  <2>7. /\ Creating' \in SUBSET Calls /\ r \notin Creating' /\ Creating = Creating' \cup {r}
    BY <1>1, <2>2, <2>3 DEF Creating, PlatInv, PlatBase
  <2>8. Cardinality(Creating) = Cardinality(Creating') + 1 /\ Cardinality(Creating') \in Nat
    BY <2>7, CallsFinite
  <2>9. CreationsBounded'
    <3> SUFFICES ASSUME NEW v \in Ids PROVE made'[v] + Cardinality(Creating') <= requests + 1
      BY <2>1 DEF CreationsBounded
    <3>1. made[v] \in Nat /\ made'[v] <= made[v] + 1 /\ made'[v] \in Nat /\ requests \in Nat
      BY <2>4, PlatformAssumption DEF PlatInv, PlatBase
    <3>2. made[v] + Cardinality(Creating) <= requests + 1
      BY DEF PlatInv, CreationsBounded
    <3> QED BY <2>8, <3>1, <3>2
  <2>10. DeletionsAhead'
    <3> SUFFICES ASSUME NEW v \in Ids
                 PROVE  made'[v] + Cardinality(Deleting(v)') <=
                          trail[<<"deleted", v>>] + (IF v \in here' THEN 1 ELSE 0)
      BY <2>1 DEF DeletionsAhead
    <3>1. trail[<<"deleted", v>>] \in Nat /\ made[v] \in Nat
      BY DEF PlatBase, PlatInv
    <3>2. made[v] + Cardinality(Deleting(v)) <= trail[<<"deleted", v>>] + (IF v \in here THEN 1 ELSE 0)
      BY DEF DeletionsAhead, PlatInv
    <3>3. Cardinality(Deleting(v)') \in Nat /\ Cardinality(Deleting(v)') <= Cardinality(Deleting(v))
      BY <1>1, <2>2, <2>3, CountsDrop
    <3>4. IF v = w THEN made'[v] = made[v] + 1 /\ v \notin here /\ v \in here'
          ELSE made'[v] = made[v] /\ (v \in here' <=> v \in here)
      BY <1>3, <2>1, <2>4
    <3> QED BY <3>1, <3>2, <3>3, <3>4, DeletingCounted
  <2> QED BY <1>1, <2>1, <2>2, <2>3, <2>5, <2>6, <2>9, <2>10, MovesOn
<1> QED BY <1>2, <1>3

\* A deletion puts its event in the trail before it is counted.
LEMMA AuditDeletionInv == ASSUME PlatInv, NEW r \in Calls, AuditDeletion(r) PROVE PlatInv'
<1> DEFINE w == call[r].ws
           x == [call[r] EXCEPT !.pc = "data_synth"]
<1>1. CallFits(call[r]) /\ call[r].pc = "audit" /\ call[r].op = "delete" /\ w \in Ids
  BY DEF PlatInv, CallFits, AuditDeletion, OfCall
<1>2. /\ CallFits(x) /\ x.pc = "data_synth" /\ x.op = call[r].op /\ x.ws = w /\ x.nr = call[r].nr
      /\ x.quiet = call[r].quiet
  BY <1>1, MovedCall DEF CallPcs
<1>3. call' = [call EXCEPT ![r] = x] /\ UNCHANGED <<made, here, belongs, manages, pinned, rows, named, active, requests>>
  BY MoveForm DEF AuditDeletion
<1>4. /\ trail' \in [{"created", "deleted"} \X Ids -> Nat]
      /\ \A v \in Ids : trail'[<<"deleted", v>>] = IF v = w THEN trail[<<"deleted", v>>] + 1 ELSE trail[<<"deleted", v>>]
  BY <1>1, Audited DEF AuditDeletion
<1> HIDE DEF x
<1>5. TablesOK'
  BY <1>3, <1>4 DEF PlatInv, PlatBase, TablesOK
<1>6. OfThisOne'
  BY <1>3 DEF OfThisOne, PlatInv
<1>7. Creating' = Creating
  BY <1>1, <1>2, <1>3 DEF Creating, PlatInv, PlatBase
<1>8. CreationsBounded'
  BY <1>3, <1>7 DEF CreationsBounded, PlatInv
<1>9. DeletionsAhead'
  <2> SUFFICES ASSUME NEW v \in Ids
               PROVE  made[v] + Cardinality(Deleting(v)') <=
                        trail'[<<"deleted", v>>] + (IF v \in here THEN 1 ELSE 0)
    BY <1>3 DEF DeletionsAhead
  <2>1. trail[<<"deleted", v>>] \in Nat /\ made[v] \in Nat
    BY DEF PlatBase, PlatInv
  <2>2. made[v] + Cardinality(Deleting(v)) <= trail[<<"deleted", v>>] + (IF v \in here THEN 1 ELSE 0)
    BY DEF DeletionsAhead, PlatInv
  <2>3. CASE v = w
    <3>1. r \notin Deleting(v) /\ Deleting(v)' = Deleting(v) \cup {r}
      BY <1>1, <1>2, <1>3, <2>3 DEF Deleting, PlatInv, PlatBase
    <3>2. Cardinality(Deleting(v)') = Cardinality(Deleting(v)) + 1
      BY <3>1, CallsFinite, DeletingCounted
    <3> QED BY <1>4, <2>1, <2>2, <2>3, <3>2, DeletingCounted
  <2>4. CASE v # w
    <3>1. Deleting(v)' = Deleting(v)
      BY <1>1, <1>2, <1>3, <2>4 DEF Deleting, PlatInv, PlatBase
    <3> QED BY <1>4, <2>1, <2>2, <2>4, <3>1, DeletingCounted
  <2> QED BY <2>3, <2>4
<1> QED BY <1>1, <1>2, <1>3, <1>5, <1>6, <1>8, <1>9, MovesOn

LEMMA SweepSchemaInv == ASSUME PlatInv, NEW r \in Calls, SweepSchema(r) PROVE PlatInv'
<1> DEFINE w == call[r].ws
<1>1. PICK schema \in Schemas :
        /\ OfCall(r, "delete", schema) /\ rows' = rows \ Swept(w, schema)
        /\ MoveTo(r, IF schema = "data_synth" THEN "data_live" ELSE "drop")
        /\ UNCHANGED <<made, here, belongs, manages, pinned, named, active, trail, requests>>
  BY DEF SweepSchema
<1> DEFINE pc == IF schema = "data_synth" THEN "data_live" ELSE "drop"
           x == [call[r] EXCEPT !.pc = pc]
<1>2. CallFits(call[r]) /\ call[r].pc = schema /\ call[r].op = "delete" /\ w \in Ids /\ call[r].pc # "idle"
  BY <1>1 DEF PlatInv, CallFits, OfCall, Schemas
<1>3. /\ CallFits(x) /\ x.pc = pc /\ x.op = call[r].op /\ x.ws = w /\ x.nr = call[r].nr
      /\ x.quiet = call[r].quiet
  BY <1>2, MovedCall DEF CallPcs
<1>4. call' = [call EXCEPT ![r] = x]
  BY <1>1, MoveForm
<1> HIDE DEF x
<1>5. rows' \subseteq rows
  BY <1>1
<1>6. TablesOK'
  BY <1>1, <1>5 DEF PlatInv, PlatBase, TablesOK
<1>7. OfThisOne'
  BY <1>1, <1>5 DEF OfThisOne, PlatInv
<1>8. r \in Deleting(x.ws)
  BY <1>2, <1>3 DEF Deleting, Schemas
<1>9. /\ Cardinality(Creating)' \in Nat /\ Cardinality(Creating)' <= Cardinality(Creating)
      /\ \A v : /\ Cardinality(Deleting(v)') \in Nat
                /\ Cardinality(Deleting(v)') <= Cardinality(Deleting(v))
  BY <1>2, <1>3, <1>4, <1>8, CountsDrop
<1>10. CreationsBounded'
  BY <1>1, <1>9, CreatingCounted, PlatformAssumption DEF CreationsBounded, PlatBase, PlatInv
<1>11. DeletionsAhead'
  <2> SUFFICES ASSUME NEW v \in Ids
               PROVE  made[v] + Cardinality(Deleting(v)') <=
                        trail[<<"deleted", v>>] + (IF v \in here THEN 1 ELSE 0)
    BY <1>1 DEF DeletionsAhead
  <2>1. trail[<<"deleted", v>>] \in Nat /\ made[v] \in Nat
    BY DEF PlatBase, PlatInv
  <2>2. made[v] + Cardinality(Deleting(v)) <= trail[<<"deleted", v>>] + (IF v \in here THEN 1 ELSE 0)
    BY DEF DeletionsAhead, PlatInv
  <2> QED BY <1>9, <2>1, <2>2, DeletingCounted
<1>12. schema = "data_synth" => \A d \in rows' : d.quiet /\ d.ws = x.ws => d.schema = "data_live"
  <2>1. \A d \in rows : d.schema \in Schemas
    BY DEF PlatInv, PlatBase
  <2> QED BY <1>1, <1>3, <2>1 DEF Swept, Schemas
<1>13. schema = "data_live" => \A d \in rows' : ~(d.quiet /\ d.ws = x.ws)
  <2>1. schema = "data_live" => \A d \in QuietRows(w) : d.schema = "data_live"
    BY <1>2 DEF PlatInv, SweptSoFar
  <2> QED BY <1>1, <1>3, <2>1 DEF QuietRows, Swept
<1> QED BY <1>1, <1>2, <1>3, <1>4, <1>5, <1>6, <1>7, <1>10, <1>11, <1>12, <1>13, MovesOn DEF Schemas

\* The row goes when nothing that a request by itself stored is left.
LEMMA DropWorkspaceInv == ASSUME PlatInv, NEW r \in Calls, DropWorkspace(r) PROVE PlatInv'
<1> DEFINE w == call[r].ws
<1>1. CallFits(call[r]) /\ call[r].pc = "drop" /\ call[r].op = "delete" /\ w \in Ids /\ EndsCall(r)
      /\ UNCHANGED <<made, manages, rows, named, active, trail, requests>>
  BY DEF PlatInv, CallFits, DropWorkspace, OfCall
<1>2. CASE w \in named
  <2>1. TablesOK'
    BY <1>2, TablesUnchanged DEF DropWorkspace
  <2> QED BY <1>1, <1>2, <2>1, PlainEnd DEF DropWorkspace
<1>3. CASE w \notin named
  <2>1. here' = here \ {w} /\ belongs' = {m \in belongs : m[1] # w} /\ pinned' = PoliciesWithout(w)
    BY <1>3 DEF DropWorkspace
  <2>2. TablesOK'
    <3>1. belongs' \subseteq here' \X People
      BY <2>1 DEF PlatInv, PlatBase
    <3>2. pinned' \in [Apps -> here' \cup {None}]
      BY <2>1 DEF PoliciesWithout, PlatInv, PlatBase
    <3>3. here' \subseteq Ids /\ named' \subseteq here'
      BY <1>1, <1>3, <2>1 DEF PlatInv, PlatBase
    <3> QED BY <1>1, <3>1, <3>2, <3>3 DEF PlatInv, PlatBase, TablesOK
  <2>3. call' = [call EXCEPT ![r] = NoCall] /\ NoCall.op = "create" /\ NoCall.pc = "idle"
    BY <1>1 DEF EndsCall, NoCall
  <2>4. OfThisOne'
    <3>1. QuietRows(w) = {}
      BY <1>1 DEF PlatInv, SweptSoFar
    <3> QED BY <1>1, <2>1, <3>1 DEF OfThisOne, PlatInv, QuietRows
  <2>5. /\ Cardinality(Creating)' \in Nat /\ Cardinality(Creating)' <= Cardinality(Creating)
        /\ \A v : /\ Cardinality(Deleting(v)') \in Nat
                  /\ Cardinality(Deleting(v)') <= Cardinality(Deleting(v))
    BY <2>3, CountsDrop
  <2>6. CreationsBounded'
    BY <1>1, <2>5, CreatingCounted, PlatformAssumption DEF CreationsBounded, PlatBase, PlatInv
  <2>7. DeletionsAhead'
    <3> SUFFICES ASSUME NEW v \in Ids
                 PROVE  made[v] + Cardinality(Deleting(v)') <=
                          trail[<<"deleted", v>>] + (IF v \in here' THEN 1 ELSE 0)
      BY <1>1 DEF DeletionsAhead
    <3>1. trail[<<"deleted", v>>] \in Nat /\ made[v] \in Nat
      BY DEF PlatBase, PlatInv
    <3>2. made[v] + Cardinality(Deleting(v)) <= trail[<<"deleted", v>>] + (IF v \in here THEN 1 ELSE 0)
      BY DEF DeletionsAhead, PlatInv
    <3>3. CASE v = w
      <4>1. r \notin Deleting(v)' /\ Deleting(v) = Deleting(v)' \cup {r} /\ Deleting(v)' \in SUBSET Calls
        BY <1>1, <2>3, <3>3 DEF Deleting, PlatInv, PlatBase
      <4>2. Cardinality(Deleting(v)) = Cardinality(Deleting(v)') + 1
        BY <4>1, CallsFinite
      <4> QED BY <2>1, <2>5, <3>1, <3>2, <3>3, <4>2
    <3>4. CASE v # w
      BY <2>1, <2>5, <3>1, <3>2, <3>4, DeletingCounted
    <3> QED BY <3>3, <3>4
  <2> QED BY <1>1, <2>2, <2>3, <2>4, <2>6, <2>7, NoCallFits, MovesOn
<1> QED BY <1>2, <1>3

---------------------------------------------------------------------------
(* Requests that arrive *)

\* Where a session or a client acts is a workspace that is there.
LEMMA ResolvedIsHere ==
  ASSUME PlatInv, NEW u \in People, NEW requested \in Ids \cup {None}, ResolveWorkspace(u, requested) # None
  PROVE  ResolveWorkspace(u, requested) \in here
<1>1. MembershipsOf(u) \subseteq here
  BY DEF MembershipsOf, PlatInv, PlatBase
<1>2. CASE requested # None
  BY <1>1, <1>2 DEF ResolveWorkspace
<1>3. CASE requested = None
  <2>1. \E w \in Ids : MembershipsOf(u) = {w}
    BY <1>3 DEF ResolveWorkspace
  <2> QED BY <1>1, <1>3, <2>1 DEF ResolveWorkspace
<1> QED BY <1>2, <1>3

LEMMA ClientIsHere ==
  ASSUME PlatInv, NEW u \in People, NEW c \in Apps, ClientWorkspace(c, u) # None
  PROVE  ClientWorkspace(c, u) \in here
<1>1. pinned[c] \in here \cup {None}
  BY DEF PlatInv, PlatBase
<1>2. ResolveWorkspace(u, None) # None => ResolveWorkspace(u, None) \in here
  BY ResolvedIsHere
<1> QED BY <1>1, <1>2 DEF ClientWorkspace

LEMMA BeginsInv ==
  ASSUME PlatInv, NEW r \in Calls, NEW op \in AllOperations, NEW pc \in CallPcs(op), NEW w \in Ids,
         NEW who \in PlatformKeys \cup People \cup {None}, NEW c \in Apps \cup {None},
         BeginCall(r, op, pc, w, who, c),
         op = "delete" => pc = "audit", op \in {"seed", "write"} => w \in here
  PROVE  PlatInv'
<1> USE DEF PlatInv
<1> DEFINE all == \A x \in Calls : call[x].pc = "idle"
           new == [pc |-> pc, op |-> op, ws |-> w, who |-> who, app |-> c, nr |-> made[w], quiet |-> all]
           old(q) == [call[q] EXCEPT !.quiet = @ /\ call[q].pc = "idle"]
<1>1. /\ DOMAIN call' = Calls /\ call' = [q \in Calls |-> call'[q]] /\ call'[r] = new
      /\ \A q \in Calls \ {r} : call'[q] = old(q)
  BY DEF BeginCall
<1>2. /\ UNCHANGED <<made, here, belongs, manages, pinned, rows, named, active, trail>>
      /\ requests' = requests + 1 /\ requests' \in 0 .. MaxRequests /\ requests \in Nat /\ call[r].pc = "idle"
  BY PlatformAssumption DEF BeginCall, PlatBase
<1>3. /\ CallFits(new) /\ new.pc = pc /\ new.op = op /\ new.ws = w /\ new.nr = made[w]
      /\ new.quiet => \A q \in Calls : call[q].pc = "idle"
  <2>1. made[w] \in Nat
    BY DEF PlatBase
  <2> QED BY <2>1 DEF CallFits, CallRecord, CallPcs
<1> HIDE DEF new
<1>4. \A q \in Calls \ {r} :
        /\ CallFits(old(q)) /\ old(q).pc = call[q].pc /\ old(q).op = call[q].op /\ old(q).ws = call[q].ws
        /\ old(q).quiet => call[q].pc = "idle"
  BY DEF CallFits, CallRecord
<1> HIDE DEF old
<1>5. PlatBase'
  BY <1>1, <1>2 DEF PlatBase
<1>6. \A q \in Calls : CallFits(call'[q])
  BY <1>1, <1>3, <1>4
<1>7. \A q \in Calls : Undisturbed(q)'
  <2> TAKE q \in Calls
  <2>1. CASE q = r
    <3>1. SUFFICES ASSUME new.quiet PROVE /\ \A p \in Calls \ {r} : call'[p].pc = "idle"
                                          /\ op \in {"seed", "write"} => w \in here' /\ made[w] = made'[w]
      BY <1>1, <1>3, <2>1 DEF Undisturbed
    <3> QED BY <1>1, <1>2, <1>3, <1>4, <3>1
  <2>2. CASE q # r
    BY <1>1, <1>4, <2>2 DEF Undisturbed
  <2> QED BY <2>1, <2>2
<1>8. \A q \in Calls : SweptSoFar(q)'
  <2>1. \A v : QuietRows(v)' = QuietRows(v)
    BY <1>2 DEF QuietRows
  <2> QED BY <1>1, <1>3, <1>4, <2>1 DEF SweptSoFar
<1>9. OfThisOne'
  BY <1>2 DEF OfThisOne
<1>10. CreationsBounded'
  <2>1. Creating' \subseteq Creating \cup {r} /\ Creating \in SUBSET Calls /\ r \notin Creating
    BY <1>1, <1>2, <1>3, <1>4 DEF Creating
  <2>2. Cardinality(Creating') <= Cardinality(Creating) + 1 /\ Cardinality(Creating') \in Nat
    <3>1. Creating' \in SUBSET Calls /\ Creating \cup {r} \in SUBSET Calls /\ r \in Calls \ Creating
      BY <2>1
    <3>2. Cardinality(Creating \cup {r}) = Cardinality(Creating) + 1
      BY <2>1, <3>1, CallsFinite
    <3> QED BY <2>1, <3>1, <3>2, CallsFinite
  <2> SUFFICES ASSUME NEW v \in Ids PROVE made[v] + Cardinality(Creating') <= requests + 1 + 1
    BY <1>2 DEF CreationsBounded
  <2>3. made[v] + Cardinality(Creating) <= requests + 1 /\ made[v] \in Nat
    BY DEF CreationsBounded, PlatBase
  <2> QED BY <1>2, <2>2, <2>3, CreatingCounted
<1>11. DeletionsAhead'
  <2>1. \A v \in Ids : Deleting(v)' = Deleting(v)
    BY <1>1, <1>2, <1>3, <1>4 DEF Deleting
  <2> QED BY <1>2, <2>1 DEF DeletionsAhead
<1> QED BY <1>5, <1>6, <1>7, <1>8, <1>9, <1>10, <1>11

LEMMA AskPlatformInv == ASSUME PlatInv, NEW r \in Calls, AskPlatform(r) PROVE PlatInv'
<1>1. PICK k \in PlatformKeys, w \in Ids, op \in {"create", "delete", "seed", "client"} :
        /\ op # "create" => w \in here
        /\ BeginCall(r, op, IF op = "create" THEN "insert" ELSE IF op = "delete" THEN "audit"
                            ELSE IF op = "seed" THEN "wipe" ELSE "policy", w, k, None)
  BY DEF AskPlatform
<1> DEFINE pc == IF op = "create" THEN "insert" ELSE IF op = "delete" THEN "audit"
                 ELSE IF op = "seed" THEN "wipe" ELSE "policy"
<1>2. pc \in CallPcs(op) /\ op \in AllOperations /\ (op = "delete" => pc = "audit") /\ op # "write"
  BY DEF CallPcs, AllOperations
<1>3. BeginCall(r, op, pc, w, k, None)
  BY <1>1
<1> HIDE DEF pc
<1> QED BY <1>1, <1>2, <1>3, BeginsInv

LEMMA AskDataInv == ASSUME PlatInv, NEW r \in Calls, AskData(r) PROVE PlatInv'
<1>1. PICK u \in People, c \in Apps \cup {None} :
        LET w == IF c = None THEN ResolveWorkspace(u, active[u]) ELSE ClientWorkspace(c, u)
        IN w # None /\ BeginCall(r, "write", "store", w, u, c)
  BY DEF AskData
<1> DEFINE w == IF c = None THEN ResolveWorkspace(u, active[u]) ELSE ClientWorkspace(c, u)
<1>2. active[u] \in Ids \cup {None}
  BY DEF PlatInv, PlatBase
<1>3. w # None /\ BeginCall(r, "write", "store", w, u, c)
  BY <1>1
<1>4. w \in here
  BY <1>2, <1>3, ResolvedIsHere, ClientIsHere
<1>5. w \in Ids
  BY <1>4 DEF PlatInv, PlatBase
<1> HIDE DEF w
<1> QED BY <1>3, <1>4, <1>5, BeginsInv DEF CallPcs, AllOperations

LEMMA AskSwitchInv == ASSUME PlatInv, NEW r \in Calls, AskSwitch(r) PROVE PlatInv'
<1>1. PICK u \in People, w \in Ids : BeginCall(r, "switch", "session", w, u, None)
  BY DEF AskSwitch
<1> QED BY <1>1, BeginsInv DEF CallPcs, AllOperations

LEMMA PlatInitInv == PlatInit => PlatInv
<1> SUFFICES ASSUME PlatInit PROVE PlatInv
  OBVIOUS
<1> USE DEF PlatInit
<1>1. \A r \in Calls : call[r] = NoCall
  OBVIOUS
<1>2. pinned \in [Apps -> here \cup {None}]
  BY PlatformAssumption
<1>3. belongs \subseteq here \X People
  <2>1. \A m \in FirstMembers : \E w \in Ids, u \in People : m = <<w, u>>
    BY PlatformAssumption
  <2>2. \A w \in Ids, u \in People : <<w, u>> \in FirstMembers => w \in here
    OBVIOUS
  <2>3. SUFFICES ASSUME NEW m \in FirstMembers PROVE m \in here \X People
    OBVIOUS
  <2>4. PICK w \in Ids, u \in People : m = <<w, u>>
    BY <2>1
  <2> QED BY <2>2, <2>4
<1>4. PlatBase
  <2>1. made \in [Ids -> Nat] /\ here \subseteq Ids /\ rows = {} /\ named = {} /\ requests = 0
    OBVIOUS
  <2>2. manages \in [PlatformKeys -> (SUBSET Ids) \cup {None}] /\ active \in [People -> Ids]
        /\ 0 \in 0 .. MaxRequests
    BY PlatformAssumption
  <2>3. trail \in [{"created", "deleted"} \X Ids -> Nat]
    OBVIOUS
  <2>4. DOMAIN call = Calls /\ call = [r \in Calls |-> call[r]]
    OBVIOUS
  <2> QED BY <1>2, <1>3, <2>1, <2>2, <2>3, <2>4 DEF PlatBase
<1>5. \A r \in Calls : CallFits(call[r]) /\ Undisturbed(r) /\ SweptSoFar(r)
  BY <1>1, NoCallFits DEF Undisturbed, SweptSoFar, NoCall
<1>6. Creating = {} /\ \A w \in Ids : Deleting(w) = {}
  BY <1>1, NoCallFits DEF Creating, Deleting
<1>7. CreationsBounded
  <2>1. Cardinality(Creating) = 0 /\ requests = 0 /\ \A w \in Ids : made[w] \in {0, 1}
    BY <1>6, FS_EmptySet
  <2> QED BY <2>1 DEF CreationsBounded
<1>8. DeletionsAhead
  <2>1. \A w \in Ids : trail[<<"deleted", w>>] = 0 /\ made[w] = IF w \in here THEN 1 ELSE 0
    <3> TAKE w \in Ids
    <3>1. <<"deleted", w>> \in {"created", "deleted"} \X Ids
      OBVIOUS
    <3>2. trail[<<"deleted", w>>] = 0
      BY <3>1
    <3>3. w \in here <=> \E u \in People : <<w, u>> \in FirstMembers
      OBVIOUS
    <3> QED BY <3>2, <3>3
  <2>2. \A w \in Ids : Cardinality(Deleting(w)) = 0
    BY <1>6, FS_EmptySet
  <2>3. \A w \in Ids : made[w] + Cardinality(Deleting(w)) <= trail[<<"deleted", w>>] + (IF w \in here THEN 1 ELSE 0)
    <3> TAKE w \in Ids
    <3>1. CASE w \in here
      BY <2>1, <2>2, <3>1
    <3>2. CASE w \notin here
      BY <2>1, <2>2, <3>2
    <3> QED BY <3>1, <3>2
  <2> QED BY <2>3 DEF DeletionsAhead
<1>9. OfThisOne
  BY DEF OfThisOne
<1> QED BY <1>4, <1>5, <1>7, <1>8, <1>9 DEF PlatInv

LEMMA PlatStepInv == PlatInv /\ [PlatNext]_platVars => PlatInv'
<1> SUFFICES ASSUME PlatInv, [PlatNext]_platVars PROVE PlatInv'
  OBVIOUS
<1>1. ASSUME NEW r \in Calls, PlatStep(r) PROVE PlatInv'
  BY <1>1, AskPlatformInv, AskDataInv, AskSwitchInv, SwitchInv, StoreRowsInv, InsertWorkspaceInv,
     FirstAdminInv, AppendManagedInv, AuditCreationInv, AuditDeletionInv, SweepSchemaInv,
     DropWorkspaceInv, WipeInv, GenerateInv, EquipInv, StopsInv DEF PlatStep
<1>2. ASSUME UNCHANGED platVars PROVE PlatInv'
  <2>1. UNCHANGED <<made, here, belongs, manages, pinned, rows, named, active, trail, call, requests>>
    BY <1>2 DEF platVars, platState
  <2>2. PlatBase'
    BY <2>1 DEF PlatInv, PlatBase
  <2>3. \A r \in Calls : Undisturbed(r)' /\ SweptSoFar(r)'
    BY <2>1 DEF PlatInv, Undisturbed, SweptSoFar, QuietRows
  <2>4. OfThisOne' /\ CreationsBounded' /\ DeletionsAhead'
    BY <2>1 DEF PlatInv, OfThisOne, CreationsBounded, DeletionsAhead, Creating, Deleting
  <2> QED BY <2>1, <2>2, <2>3, <2>4 DEF PlatInv
<1> QED BY <1>1, <1>2 DEF PlatNext

LEMMA PlatInvAlways == PlatSpec => []PlatInv
BY PlatInitInv, PlatStepInv, PTL DEF PlatSpec

LEMMA PlatParts == PlatInv => PlatTypeOK /\ StartsEmpty /\ DeletionsRecorded
<1> SUFFICES ASSUME PlatInv PROVE PlatTypeOK /\ StartsEmpty /\ DeletionsRecorded
  OBVIOUS
<1>1. \A w \in Ids : made[w] \in 0 .. MaxRequests + 1
  <2> TAKE w \in Ids
  <2>1. made[w] \in Nat /\ requests \in 0 .. MaxRequests /\ made[w] + Cardinality(Creating) <= requests + 1
    BY DEF PlatInv, PlatBase, CreationsBounded
  <2> QED BY <2>1, CreatingCounted, PlatformAssumption
<1>2. PlatTypeOK
  BY <1>1 DEF PlatInv, PlatBase, PlatTypeOK
<1>3. StartsEmpty
  BY DEF PlatInv, OfThisOne, StartsEmpty
<1>4. DeletionsRecorded
  <2> SUFFICES ASSUME NEW w \in Ids PROVE made[w] - (IF w \in here THEN 1 ELSE 0) <= trail[<<"deleted", w>>]
    BY DEF DeletionsRecorded
  <2>1. made[w] + Cardinality(Deleting(w)) <= trail[<<"deleted", w>>] + (IF w \in here THEN 1 ELSE 0)
    BY DEF PlatInv, DeletionsAhead
  <2>2. made[w] \in Nat /\ trail[<<"deleted", w>>] \in Nat
    BY DEF PlatInv, PlatBase
  <2> QED BY <2>1, <2>2, DeletingCounted
<1> QED BY <1>2, <1>3, <1>4

\* Only the creation that it asked for adds to what a key manages.
LEMMA ManagesStep ==
  ASSUME PlatInv, PlatNext, NEW k \in PlatformKeys, NEW w \in Ids, manages[k] # None,
         w \in manages'[k] \ manages[k]
  PROVE  \E r \in Calls : call[r].who = k /\ AppendManaged(r) /\ call[r].ws = w
<1>1. PICK r \in Calls : PlatStep(r)
  BY DEF PlatNext
<1>2. manages' # manages
  OBVIOUS
<1>3. AppendManaged(r)
  <2>1. AskPlatform(r) \/ AskData(r) \/ AskSwitch(r) => UNCHANGED manages
    BY DEF AskPlatform, AskData, AskSwitch, BeginCall
  <2> QED BY <1>1, <1>2, <2>1 DEF PlatStep, Switch, StoreRows, InsertWorkspace, FirstAdmin, AuditCreation,
        AuditDeletion, SweepSchema, DropWorkspace, Wipe, Generate, Equip, Stops
<1>4. k \in ToAppend(call[r].who) /\ manages'[k] = manages[k] \cup {call[r].ws}
  BY <1>2, <1>3 DEF AppendManaged
<1> QED BY <1>3, <1>4 DEF ToAppend

\* However requests overlap and wherever one stops: a workspace that reuses an id starts empty but
\* for requests that another overlapped, a workspace that has gone has left its deletion in the
\* trail, and a scoped key manages only what it has created itself.
THEOREM WorkspacesCorrectAlways == PlatSpec => WorkspacesCorrect
<1>1. PlatInv /\ [PlatNext]_platVars =>
        [\A k \in PlatformKeys, w \in Ids :
           (IF manages[k] = None THEN FALSE ELSE w \in manages'[k] \ manages[k]) =>
             \E r \in Calls : call[r].who = k /\ AppendManaged(r) /\ call[r].ws = w]_platVars
  BY ManagesStep
<1> QED BY <1>1, PlatParts, PlatInvAlways, PTL DEF PlatSpec, WorkspacesCorrect, ManagesItsOwn

---------------------------------------------------------------------------
(* The inductive invariant of the lock *)

\* The times of a sequence that are later than t - d.
Late(times, t, d) == {i \in DOMAIN times : times[i] + d > t}

\* The sign-ins of an account that have guessed wrong and are not counted, and those that may.
Guessed(a) == {s \in Attempts : signIn[s].account = a /\ signIn[s].pc \in {"collect", "count"}}
Trying(a) == {s \in Attempts : signIn[s].account = a /\ signIn[s].pc = "verify"}

MostGuesses == MaxFailures + Cardinality(Attempts) - 1

\* A row, against n guesses within the window and m later than its last failure, of which g are
\* not counted yet.
RowFits(row, t, g, n, m) ==
  /\ row = None => n <= g
  /\ row # None =>
       /\ row.last <= t /\ m <= g
       /\ row.failures < MaxFailures => row.until = 0 /\ n <= row.failures + g
       /\ row.failures >= MaxFailures => row.until = row.last + LockTime

\* The row of an account, against its guesses at the times given, when v more sign-ins are past
\* the check.
AccountFits(row, times, t, g, v) ==
  /\ \A i \in DOMAIN times : times[i] <= t
  /\ RowFits(row, t, g, Cardinality(Late(times, t, LockTime)), Cardinality(Late(times, row.last, 0)))
  /\ Cardinality(Late(times, t, LockTime)) + v <= MostGuesses
  /\ \A u \in 0 .. t : Within(times, u, LockTime) <= MostGuesses

\* A sign-in is answered in time, and one that is about to be counted has collected.
SignInFits(s) ==
  signIn[s].pc # "idle" =>
    /\ signIn[s].account \in Accounts
    /\ signIn[s].since <= now /\ now <= signIn[s].since + RequestTime
    /\ signIn[s].pc = "count" /\ failed[signIn[s].account] # None =>
         signIn[s].since <= failed[signIn[s].account].last + LockTime

LockTypeOK ==
  /\ failed \in [Accounts -> [failures : Nat, last : 0 .. MaxTime, until : 0 .. MaxTime + LockTime] \cup {None}]
  /\ signIn \in [Attempts -> [pc : {"idle", "verify", "forget", "collect", "count"},
                              account : Accounts \cup {None}, right : BOOLEAN, since : 0 .. MaxTime]]
  /\ guesses \in [Accounts -> Seq(0 .. MaxTime)]
  /\ now \in 0 .. MaxTime /\ signIns \in 0 .. MaxSignIns

LockInv ==
  /\ LockTypeOK
  /\ \A s \in Attempts : SignInFits(s)
  /\ \A a \in Accounts :
       AccountFits(failed[a], guesses[a], now, Cardinality(Guessed(a)), Cardinality(Trying(a)))

---------------------------------------------------------------------------
(* The inductive invariant of the window *)

\* The calls let through before the window began, less than its length ago, and in it.
Before(times, w) == {i \in DOMAIN times : times[i] + WindowTime < w.resetAt /\ times[i] + 2 * WindowTime > w.resetAt}
During(times, w) == {i \in DOMAIN times : times[i] + WindowTime >= w.resetAt}

CallerFits(w, times, t) ==
  /\ \A i \in DOMAIN times : times[i] <= t
  /\ w = None =>
       /\ \A i \in DOMAIN times : times[i] < t
       /\ Cardinality(Late(times, t, WindowTime)) <= CallsPerWindow
  /\ w # None =>
       /\ w.count \in 1 .. CallsPerWindow /\ w.resetAt \in Nat /\ w.resetAt <= t + WindowTime
       /\ \A i \in DOMAIN times : times[i] < w.resetAt
       /\ Cardinality(During(times, w)) <= w.count
       /\ Cardinality(Before(times, w)) <= CallsPerWindow
  /\ \A u \in 0 .. t : Within(times, u, WindowTime) <= 2 * CallsPerWindow

RateInv ==
  /\ windows \in [Callers -> [count : 1 .. CallsPerWindow, resetAt : Nat] \cup {None}]
  /\ passed \in [Callers -> Seq(0 .. MaxTime)] /\ now \in 0 .. MaxTime /\ arrivals \in 0 .. MaxArrivals
  /\ \A c \in Callers : CallerFits(windows[c], passed[c], now)
  /\ TrackedBounded

LimitInv == LockInv /\ RateInv

---------------------------------------------------------------------------
(* Spans of time *)

LEMMA Indices ==
  ASSUME NEW times \in Seq(Nat)
  PROVE  \A S \in SUBSET DOMAIN times : IsFiniteSet(S) /\ Cardinality(S) \in Nat
<1>1. DOMAIN times = 1 .. Len(times) /\ Len(times) \in Int
  OBVIOUS
<1>2. IsFiniteSet(DOMAIN times)
  BY <1>1, FS_Interval
<1> QED BY <1>2, FS_Subset, FS_CardinalityType

LEMMA FewerIndices ==
  ASSUME NEW times \in Seq(Nat)
  PROVE  \A S, T \in SUBSET DOMAIN times : S \subseteq T => Cardinality(S) <= Cardinality(T)
BY Indices, FS_Subset

LEMMA LateCounted ==
  ASSUME NEW times \in Seq(Nat), NEW t \in Nat, NEW d \in Nat
  PROVE  Late(times, t, d) \in SUBSET DOMAIN times /\ Cardinality(Late(times, t, d)) \in Nat
BY Indices DEF Late

LEMMA WithinCounted ==
  ASSUME NEW times \in Seq(Nat), NEW t \in Nat, NEW d \in Nat
  PROVE  Within(times, t, d) \in Nat /\ Within(times, t, d) <= Cardinality(Late(times, t, d))
<1> DEFINE S == {i \in DOMAIN times : times[i] <= t /\ times[i] + d > t}
<1>1. S \subseteq Late(times, t, d) /\ S \in SUBSET DOMAIN times
  BY DEF Late
<1> QED BY <1>1, LateCounted, Indices, FewerIndices DEF Within

\* A later span that does not begin earlier holds no more.
LEMMA LateFewer ==
  ASSUME NEW times \in Seq(Nat), NEW t \in Nat, NEW d \in Nat, NEW u \in Nat, NEW e \in Nat, t + e <= u + d
  PROVE  Cardinality(Late(times, u, e)) <= Cardinality(Late(times, t, d))
<1>1. \A i \in DOMAIN times : times[i] \in Nat
  OBVIOUS
<1>2. Late(times, u, e) \subseteq Late(times, t, d)
  BY <1>1 DEF Late
<1> QED BY <1>2, LateCounted, FewerIndices

LEMMA NothingLate ==
  ASSUME NEW times, NEW t, NEW d, \A i \in DOMAIN times : ~(times[i] + d > t)
  PROVE  Cardinality(Late(times, t, d)) = 0
<1>1. Late(times, t, d) = {}
  BY DEF Late
<1> QED BY <1>1, FS_EmptySet

LEMMA AppendedIndices ==
  ASSUME NEW times \in Seq(Nat), NEW x \in Nat
  PROVE  /\ Append(times, x) \in Seq(Nat) /\ DOMAIN Append(times, x) = DOMAIN times \cup {Len(times) + 1}
         /\ Len(times) + 1 \notin DOMAIN times /\ Append(times, x)[Len(times) + 1] = x
         /\ \A i \in DOMAIN times : Append(times, x)[i] = times[i]
OBVIOUS

\* One more time is one more at most.
LEMMA LateAppended ==
  ASSUME NEW times \in Seq(Nat), NEW x \in Nat, NEW t \in Nat, NEW d \in Nat
  PROVE  Cardinality(Late(Append(times, x), t, d)) <= Cardinality(Late(times, t, d)) + 1
<1> DEFINE n == Len(times) + 1
           S == Late(times, t, d)
<1>1. Late(Append(times, x), t, d) \subseteq S \cup {n} /\ n \notin S
  BY AppendedIndices DEF Late
<1>2. IsFiniteSet(S) /\ Cardinality(S) \in Nat
  BY Indices, LateCounted
<1>3. IsFiniteSet(S \cup {n}) /\ Cardinality(S \cup {n}) = Cardinality(S) + 1
  BY <1>1, <1>2, FS_AddElement
<1> QED BY <1>1, <1>3, FS_Subset

\* A span that ended before it holds what it held.
LEMMA WithinAppended ==
  ASSUME NEW times \in Seq(Nat), NEW x \in Nat, NEW u \in Nat, NEW d \in Nat, u < x
  PROVE  Within(Append(times, x), u, d) = Within(times, u, d)
<1>1. {i \in DOMAIN Append(times, x) : Append(times, x)[i] <= u /\ Append(times, x)[i] + d > u}
        = {i \in DOMAIN times : times[i] <= u /\ times[i] + d > u}
  BY AppendedIndices
<1> QED BY <1>1 DEF Within

---------------------------------------------------------------------------
(* The lock *)

LEMMA Mosts == MostGuesses \in Nat /\ MaxFailures \in Nat /\ LockTime \in Nat /\ Cardinality(Attempts) \in Nat
               /\ MostGuesses = MaxFailures + Cardinality(Attempts) - 1 /\ MaxFailures > 1
BY LimitsAssumption, FS_CardinalityType DEF MostGuesses

\* Once the window has gone by since the last failure, what is in it came after that failure.
LEMMA QuietSince ==
  ASSUME NEW times \in Seq(Nat), NEW t \in Nat, NEW last \in Nat, last + LockTime <= t
  PROVE  Cardinality(Late(times, t, LockTime)) <= Cardinality(Late(times, last, 0)) /\ Cardinality(Late(times, last, 0)) \in Nat
<1>1. LockTime \in Nat /\ 0 \in Nat /\ last + LockTime <= t + 0
  BY Mosts
<1>2. Cardinality(Late(times, t, LockTime)) <= Cardinality(Late(times, last, 0))
  BY ONLY <1>1, LateFewer, times \in Seq(Nat), t \in Nat, last \in Nat
<1> QED BY <1>1, <1>2, LateCounted

\* What the lock lets through: an account that is not locked has few guesses in the window.
LEMMA NotLockedFew ==
  ASSUME NEW row \in Failure \cup {None}, NEW times \in Seq(Nat), NEW t \in Nat, NEW g \in Nat, NEW v \in Nat,
         AccountFits(row, times, t, g, v), ~(row # None /\ row.until > t)
  PROVE  Cardinality(Late(times, t, LockTime)) <= MaxFailures - 1 + g
<1> DEFINE n == Cardinality(Late(times, t, LockTime))
           m == Cardinality(Late(times, row.last, 0))
<1>1. RowFits(row, t, g, n, m)
  BY DEF AccountFits
<1>2. n \in Nat
  BY LateCounted, Mosts
<1>3. row # None => row.last \in Nat /\ row.failures \in Nat /\ row.until \in Nat
  BY DEF Failure
<1>4. row # None /\ row.last + LockTime <= t => n <= m /\ m \in Nat
  BY <1>3, QuietSince
<1> HIDE DEF n, m
<1>5. n <= MaxFailures - 1 + g
  <2>1. CASE row = None
    <3>1. n <= g
      BY <1>1, <2>1 DEF RowFits
    <3> QED BY <1>2, <3>1, Mosts
  <2>2. CASE row # None /\ row.failures < MaxFailures
    <3>1. n <= row.failures + g
      BY <1>1, <2>2 DEF RowFits
    <3> QED BY <1>2, <1>3, <2>2, <3>1, Mosts
  <2>3. CASE row # None /\ row.failures >= MaxFailures
    <3>1. row.until = row.last + LockTime /\ m <= g
      BY <1>1, <2>3 DEF RowFits
    <3> QED BY <1>2, <1>3, <1>4, <2>3, <3>1, Mosts
  <2> QED BY <1>3, <2>1, <2>2, <2>3, Mosts
<1> QED BY <1>5 DEF n

\* CheckLock
LEMMA OneMoreTries ==
  ASSUME NEW row \in Failure \cup {None}, NEW times \in Seq(Nat), NEW t \in Nat, NEW g \in Nat, NEW v \in Nat,
         AccountFits(row, times, t, g, v), ~(row # None /\ row.until > t), g + v + 1 <= Cardinality(Attempts)
  PROVE  AccountFits(row, times, t, g, v + 1)
<1> DEFINE n == Cardinality(Late(times, t, LockTime))
<1>1. n <= MaxFailures - 1 + g /\ n \in Nat
  BY NotLockedFew, LateCounted, Mosts
<1> HIDE DEF n
<1>2. n + (v + 1) <= MostGuesses
  BY <1>1, Mosts
<1> USE DEF n
<1> QED BY <1>2 DEF AccountFits

\* Fewer sign-ins under way.
LEMMA OneLessTries ==
  ASSUME NEW row, NEW times \in Seq(Nat), NEW t \in Nat, NEW g \in Nat, NEW v \in Nat, NEW u \in Nat, u <= v,
         AccountFits(row, times, t, g, v)
  PROVE  AccountFits(row, times, t, g, u)
<1> DEFINE n == Cardinality(Late(times, t, LockTime))
<1>1. n \in Nat /\ n + v <= MostGuesses
  BY LateCounted, Mosts DEF AccountFits
<1> HIDE DEF n
<1>2. n + u <= MostGuesses
  BY <1>1, Mosts
<1> USE DEF n
<1> QED BY <1>2 DEF AccountFits

\* Verify, of a wrong password.
LEMMA OneMoreGuess ==
  ASSUME NEW row \in Failure \cup {None}, NEW times \in Seq(Nat), NEW t \in Nat, NEW g \in Nat, NEW v \in Nat, v > 0,
         AccountFits(row, times, t, g, v)
  PROVE  AccountFits(row, Append(times, t), t, g + 1, v - 1)
<1> DEFINE new == Append(times, t)
           n == Cardinality(Late(times, t, LockTime))
           m == Cardinality(Late(times, row.last, 0))
           n2 == Cardinality(Late(new, t, LockTime))
           m2 == Cardinality(Late(new, row.last, 0))
<1>1. new \in Seq(Nat) /\ \A i \in DOMAIN new : new[i] <= t
  BY AppendedIndices DEF AccountFits
<1>2. n \in Nat /\ n2 \in Nat /\ n2 <= n + 1
  BY <1>1, LateAppended, LateCounted, Mosts
<1>3. row # None => row.last \in Nat /\ row.failures \in Nat
  BY DEF Failure
<1>4. row # None => m \in Nat /\ m2 \in Nat /\ m2 <= m + 1
  BY <1>1, <1>3, LateAppended, LateCounted
<1>5. RowFits(row, t, g, n, m) /\ n + v <= MostGuesses /\ \A u \in 0 .. t : Within(times, u, LockTime) <= MostGuesses
  BY DEF AccountFits
<1>6. Within(new, t, LockTime) \in Nat /\ Within(new, t, LockTime) <= n2
  BY <1>1, WithinCounted, Mosts
<1>7. \A u \in 0 .. t : u # t => Within(new, u, LockTime) <= MostGuesses
  <2> TAKE u \in 0 .. t
  <2> HAVE u # t
  <2>1. u \in Nat /\ u < t
    OBVIOUS
  <2> QED BY <1>5, <2>1, WithinAppended, Mosts
<1> HIDE DEF new, n, m, n2, m2
<1>8. RowFits(row, t, g + 1, n2, m2)
  <2>1. RowFits(row, t, g, n, m)
    BY <1>5
  <2> QED BY <1>2, <1>3, <1>4, <2>1 DEF RowFits
<1>11. n2 + (v - 1) <= MostGuesses
  <2>1. n + v <= MostGuesses
    BY <1>5
  <2> QED BY <1>2, <2>1, Mosts
<1>9. Within(new, t, LockTime) <= MostGuesses
  BY <1>2, <1>6, <1>11, Mosts
<1>10. \A u \in 0 .. t : Within(new, u, LockTime) <= MostGuesses
  BY <1>7, <1>9
<1> QED BY <1>1, <1>8, <1>10, <1>11 DEF AccountFits, new, n2, m2

\* Forget
LEMMA AllForgotten ==
  ASSUME NEW t \in Nat, NEW g \in Nat, NEW v \in Nat, v <= Cardinality(Attempts)
  PROVE  AccountFits(None, <<>>, t, g, v)
<1>1. \A u, d : Cardinality(Late(<<>>, u, d)) = 0
  BY NothingLate
<1>2. \A u \in 0 .. t : Within(<<>>, u, LockTime) = 0
  <2>1. \A u : {i \in DOMAIN <<>> : <<>>[i] <= u /\ <<>>[i] + LockTime > u} = {}
    OBVIOUS
  <2> QED BY <2>1, FS_EmptySet DEF Within
<1> QED BY <1>1, <1>2, Mosts DEF AccountFits, RowFits

\* Collect
LEMMA RowDropped ==
  ASSUME NEW row \in Failure, NEW times \in Seq(Nat), NEW t \in Nat, NEW g \in Nat, NEW v \in Nat,
         AccountFits(row, times, t, g, v), row.last + LockTime < t
  PROVE  AccountFits(None, times, t, g, v)
<1> DEFINE n == Cardinality(Late(times, t, LockTime))
           m == Cardinality(Late(times, row.last, 0))
<1>1. row # None /\ row.last \in Nat
  BY LimitsAssumption DEF Failure
<1>2. n <= m /\ n \in Nat /\ m \in Nat
  <2>1. row.last + LockTime <= t
    BY <1>1, Mosts
  <2> QED BY <1>1, <2>1, QuietSince, LateCounted, Mosts
<1>3. RowFits(row, t, g, n, m)
  BY DEF AccountFits
<1> HIDE DEF n, m
<1>4. n <= g
  BY <1>1, <1>2, <1>3 DEF RowFits
<1>5. RowFits(None, t, g, n, Cardinality(Late(times, None.last, 0)))
  BY <1>4 DEF RowFits
<1> USE DEF n
<1> QED BY <1>5 DEF AccountFits

\* CountFailure: the row that it leaves holds the guess that it counts.
LEMMA OneMoreCounted ==
  ASSUME NEW row \in Failure \cup {None}, NEW times \in Seq(Nat), NEW t \in Nat, NEW g \in Nat, NEW v \in Nat, g > 0,
         AccountFits(row, times, t, g, v), NEW new \in Failure,
         new.last = t,
         row = None => new.failures = 1 /\ new.until = 0,
         row # None => /\ new.failures = row.failures + 1
                       /\ new.until = IF new.failures >= MaxFailures THEN t + LockTime ELSE row.until
  PROVE  AccountFits(new, times, t, g - 1, v)
<1> DEFINE n == Cardinality(Late(times, t, LockTime))
           m == Cardinality(Late(times, row.last, 0))
           m2 == Cardinality(Late(times, new.last, 0))
<1>1. new # None
  BY LimitsAssumption
<1>2. row # None => row.failures \in Nat
  BY DEF Failure
<1>3. m2 = 0
  <2>1. \A i \in DOMAIN times : times[i] <= t /\ times[i] \in Nat
    BY DEF AccountFits
  <2> QED BY <2>1, NothingLate
<1>4. n \in Nat
  BY LateCounted, Mosts
<1>5. RowFits(row, t, g, n, m)
  BY DEF AccountFits
<1> HIDE DEF n, m, m2
<1>6. new.last \in Nat /\ new.failures \in Nat /\ new.until \in Nat
  BY DEF Failure
<1>7. new.failures < MaxFailures => new.until = 0 /\ n <= new.failures + (g - 1)
  <2>1. CASE row = None
    <3>1. n <= g
      BY <1>5, <2>1 DEF RowFits
    <3> QED BY <1>4, <2>1, <3>1
  <2>2. CASE row # None
    <3> HAVE new.failures < MaxFailures
    <3>1. row.failures < MaxFailures /\ new.failures = row.failures + 1 /\ new.until = row.until
      BY <1>2, <1>6, <2>2, Mosts
    <3>2. row.until = 0 /\ n <= row.failures + g
      BY <1>5, <2>2, <3>1 DEF RowFits
    <3> QED BY <1>2, <1>4, <2>2, <3>1, <3>2
  <2> QED BY <2>1, <2>2
<1>8. new.failures >= MaxFailures => new.until = t + LockTime
  BY <1>6, Mosts
<1>9. RowFits(new, t, g - 1, n, m2)
  BY <1>1, <1>3, <1>7, <1>8 DEF RowFits
<1> USE DEF n, m2
<1> QED BY <1>9 DEF AccountFits

\* Time
LEMMA LaterFits ==
  ASSUME NEW row \in Failure \cup {None}, NEW times \in Seq(Nat), NEW t \in Nat, NEW g \in Nat, NEW v \in Nat,
         AccountFits(row, times, t, g, v)
  PROVE  AccountFits(row, times, t + 1, g, v)
<1> DEFINE n == Cardinality(Late(times, t, LockTime))
           m == Cardinality(Late(times, row.last, 0))
           n2 == Cardinality(Late(times, t + 1, LockTime))
<1>1. n2 <= n /\ n2 \in Nat /\ n \in Nat
  <2>1. t + 1 \in Nat /\ t + LockTime <= (t + 1) + LockTime
    BY Mosts
  <2> QED BY <2>1, LateFewer, LateCounted, Mosts
<1>2. \A i \in DOMAIN times : times[i] \in Nat /\ times[i] <= t + 1
  BY DEF AccountFits
<1>3. row # None => row.last \in Nat /\ row.failures \in Nat
  BY DEF Failure
<1>4. RowFits(row, t, g, n, m) /\ n + v <= MostGuesses /\ \A u \in 0 .. t : Within(times, u, LockTime) <= MostGuesses
  BY DEF AccountFits
<1>5. Within(times, t + 1, LockTime) \in Nat /\ Within(times, t + 1, LockTime) <= n2
  <2>1. t + 1 \in Nat
    OBVIOUS
  <2> QED BY <2>1, WithinCounted, Mosts
<1> HIDE DEF n, m, n2
<1>9. RowFits(row, t + 1, g, n2, m)
  <2>1. RowFits(row, t, g, n, m)
    BY <1>4
  <2> QED BY <1>1, <1>3, <2>1 DEF RowFits
<1>6. n2 + v <= MostGuesses
  <2>1. n + v <= MostGuesses
    BY <1>4
  <2> QED BY <1>1, <2>1, Mosts
<1>7. Within(times, t + 1, LockTime) <= MostGuesses
  BY <1>1, <1>5, <1>6, Mosts
<1>8. \A u \in 0 .. t + 1 : Within(times, u, LockTime) <= MostGuesses
  BY <1>4, <1>7
<1> USE DEF n2, m
<1> QED BY <1>2, <1>6, <1>8, <1>9 DEF AccountFits
---------------------------------------------------------------------------
(* The steps of a sign-in *)

Rows == [failures : Nat, last : 0 .. MaxTime, until : 0 .. MaxTime + LockTime]
SignIns == [pc : {"idle", "verify", "forget", "collect", "count"},
            account : Accounts \cup {None}, right : BOOLEAN, since : 0 .. MaxTime]

LEMMA Bounds == MaxTime \in Nat /\ LockTime \in Nat /\ RequestTime \in Nat /\ MaxFailures \in Nat
                /\ CallsPerWindow \in Nat /\ WindowTime \in Nat /\ MaxTracked \in Nat /\ MaxSignIns \in Nat /\ MaxArrivals \in Nat
                /\ CallsPerWindow > 0 /\ WindowTime > 0
BY LimitsAssumption

LEMMA AFailure == \A row \in Rows : row \in Failure /\ row # None
<1>1. Rows \subseteq Failure
  BY Bounds DEF Rows, Failure
<1> QED BY <1>1, LimitsAssumption

\* Two sets of sign-ins that have none in common.
LEMMA Apart ==
  ASSUME NEW S \in SUBSET Attempts, NEW T \in SUBSET Attempts, S \cap T = {}
  PROVE  /\ IsFiniteSet(S) /\ IsFiniteSet(T) /\ Cardinality(S) \in Nat /\ Cardinality(T) \in Nat
         /\ Cardinality(S) + Cardinality(T) <= Cardinality(Attempts)
<1>1. IsFiniteSet(S) /\ IsFiniteSet(T) /\ IsFiniteSet(Attempts)
  BY FS_Subset, LimitsAssumption
<1>2. Cardinality(S) \in Nat /\ Cardinality(T) \in Nat /\ Cardinality(Attempts) \in Nat
  BY <1>1, FS_CardinalityType
<1>3. Cardinality(S \cup T) = Cardinality(S) + Cardinality(T)
  <2>1. Cardinality(S \cup T) = Cardinality(S) + Cardinality(T) - Cardinality(S \cap T)
    BY <1>1, FS_Union
  <2>2. Cardinality(S \cap T) = 0
    BY FS_EmptySet
  <2> QED BY <1>2, <2>1, <2>2
<1>4. Cardinality(S \cup T) <= Cardinality(Attempts)
  BY <1>1, FS_Subset
<1> QED BY <1>1, <1>2, <1>3, <1>4

LEMMA UnderWay ==
  ASSUME NEW a
  PROVE  /\ Guessed(a) \in SUBSET Attempts /\ Trying(a) \in SUBSET Attempts /\ Guessed(a) \cap Trying(a) = {}
         /\ Cardinality(Guessed(a)) \in Nat /\ Cardinality(Trying(a)) \in Nat
         /\ IsFiniteSet(Guessed(a)) /\ IsFiniteSet(Trying(a))
         /\ Cardinality(Guessed(a)) + Cardinality(Trying(a)) <= Cardinality(Attempts)
<1>1. Guessed(a) \in SUBSET Attempts /\ Trying(a) \in SUBSET Attempts /\ Guessed(a) \cap Trying(a) = {}
  BY DEF Guessed, Trying
<1> QED BY <1>1, Apart

\* What one sign-in does to the two sets.
LEMMA OneSignIn ==
  ASSUME LockTypeOK, NEW s \in Attempts, NEW r \in SignIns, signIn' = [signIn EXCEPT ![s] = r], NEW a
  PROVE  /\ Guessed(a)' = (Guessed(a) \ {s}) \cup (IF r.account = a /\ r.pc \in {"collect", "count"} THEN {s} ELSE {})
         /\ Trying(a)' = (Trying(a) \ {s}) \cup (IF r.account = a /\ r.pc = "verify" THEN {s} ELSE {})
         /\ signIn' \in [Attempts -> SignIns] /\ signIn'[s] = r /\ \A o \in Attempts : o # s => signIn'[o] = signIn[o]
<1>1. signIn \in [Attempts -> SignIns]
  BY DEF LockTypeOK, SignIns
<1>2. signIn' \in [Attempts -> SignIns] /\ signIn'[s] = r /\ \A o \in Attempts : o # s => signIn'[o] = signIn[o]
  BY <1>1
<1> QED BY <1>2 DEF Guessed, Trying

\* The facts that every step needs.
LEMMA LockFacts ==
  ASSUME LockInv
  PROVE  /\ now \in Nat /\ now <= MaxTime /\ failed \in [Accounts -> Rows \cup {None}] /\ signIn \in [Attempts -> SignIns]
         /\ guesses \in [Accounts -> Seq(0 .. MaxTime)]
         /\ \A a \in Accounts : /\ failed[a] \in Failure \cup {None} /\ guesses[a] \in Seq(Nat)
                                /\ AccountFits(failed[a], guesses[a], now, Cardinality(Guessed(a)), Cardinality(Trying(a)))
         /\ \A s \in Attempts : SignInFits(s)
<1>1. failed \in [Accounts -> Rows \cup {None}] /\ signIn \in [Attempts -> SignIns] /\ guesses \in [Accounts -> Seq(0 .. MaxTime)]
  BY DEF LockInv, LockTypeOK, Rows, SignIns
<1>2. now \in Nat /\ now <= MaxTime
  BY Bounds DEF LockInv, LockTypeOK
<1>3. \A a \in Accounts : failed[a] \in Failure \cup {None}
  BY <1>1, AFailure
<1>4. \A a \in Accounts : guesses[a] \in Seq(Nat)
  <2>1. Seq(0 .. MaxTime) \subseteq Seq(Nat)
    BY Bounds
  <2> QED BY <1>1, <2>1
<1> QED BY <1>1, <1>2, <1>3, <1>4 DEF LockInv

LEMMA CheckLockFits ==
  ASSUME LockInv, NEW s \in Attempts, CheckLock(s)
  PROVE  LockInv'
<1>1. PICK b \in Accounts, right \in BOOLEAN :
        /\ signIn[s].pc = "idle" /\ signIns < MaxSignIns /\ signIns' = signIns + 1 /\ ~LockedOut(b)
        /\ signIn' = [signIn EXCEPT ![s] = [pc |-> "verify", account |-> b, right |-> right, since |-> now]]
        /\ UNCHANGED <<failed, guesses, rateVars, now, arrivals>>
  BY DEF CheckLock
<1> DEFINE r == [pc |-> "verify", account |-> b, right |-> right, since |-> now]
<1>2. r \in SignIns /\ r.pc = "verify" /\ r.account = b /\ r.since = now
  BY LockFacts, Bounds DEF SignIns
<1> HIDE DEF r
<1>3. signIn' = [signIn EXCEPT ![s] = r] /\ LockTypeOK
  BY <1>1 DEF r, LockInv
<1>4. s \notin Guessed(b) /\ s \notin Trying(b) /\ \A a : s \notin Guessed(a) /\ s \notin Trying(a)
  BY <1>1 DEF Guessed, Trying
<1>5. \A a : Guessed(a)' = Guessed(a) /\ (a # b => Trying(a)' = Trying(a))
  <2> TAKE a
  <2>1. Guessed(a)' = (Guessed(a) \ {s}) \cup {}
    BY <1>2, <1>3, OneSignIn
  <2>2. a # b => Trying(a)' = (Trying(a) \ {s}) \cup {}
    BY <1>2, <1>3, OneSignIn
  <2> QED BY <1>4, <2>1, <2>2
<1>6. Trying(b)' = Trying(b) \cup {s}
  <2>1. Trying(b)' = (Trying(b) \ {s}) \cup {s}
    BY <1>2, <1>3, OneSignIn
  <2> QED BY <2>1
<1>7. Cardinality(Trying(b)') = Cardinality(Trying(b)) + 1 /\ Cardinality(Guessed(b)) + Cardinality(Trying(b)) + 1 <= Cardinality(Attempts)
  <2>1. Cardinality(Trying(b)') = Cardinality(Trying(b)) + 1 /\ Cardinality(Trying(b)) \in Nat /\ Cardinality(Guessed(b)) \in Nat
    BY <1>4, <1>6, FS_AddElement, UnderWay
  <2>2. (Trying(b) \cup {s}) \in SUBSET Attempts /\ Guessed(b) \cap (Trying(b) \cup {s}) = {} /\ Guessed(b) \in SUBSET Attempts
    BY <1>4, UnderWay
  <2>3. Cardinality(Guessed(b)) + Cardinality(Trying(b) \cup {s}) <= Cardinality(Attempts)
    BY <2>2, Apart
  <2> QED BY <1>6, <2>1, <2>3, Mosts
<1>8. \A a \in Accounts : AccountFits(failed'[a], guesses'[a], now', Cardinality(Guessed(a)'), Cardinality(Trying(a)'))
  <2> SUFFICES ASSUME NEW a \in Accounts
               PROVE  AccountFits(failed[a], guesses[a], now, Cardinality(Guessed(a)), Cardinality(Trying(a)'))
    BY <1>1, <1>5
  <2>1. CASE a # b
    BY <2>1, <1>5, LockFacts
  <2>2. CASE a = b
    <3>1. AccountFits(failed[b], guesses[b], now, Cardinality(Guessed(b)), Cardinality(Trying(b)) + 1)
      BY <1>1, <1>7, LockFacts, UnderWay, OneMoreTries DEF LockedOut
    <3> QED BY <2>2, <3>1, <1>7
  <2> QED BY <2>1, <2>2
<1>9. LockTypeOK'
  BY <1>1, <1>2, <1>3, OneSignIn, Bounds DEF LockTypeOK, SignIns
<1>10. \A o \in Attempts : SignInFits(o)'
  <2> TAKE o \in Attempts
  <2>1. CASE o = s
    <3>1. signIn'[o].pc = "verify" /\ signIn'[o].account = b /\ signIn'[o].since = now /\ now' = now
      BY <1>1, <1>2, <1>3, <2>1, OneSignIn
    <3> QED BY <3>1, LockFacts, Bounds DEF SignInFits
  <2>2. CASE o # s
    BY <1>1, <1>2, <1>3, <2>2, OneSignIn, LockFacts DEF SignInFits
  <2> QED BY <2>1, <2>2
<1> QED BY <1>8, <1>9, <1>10 DEF LockInv

LEMMA VerifyFits ==
  ASSUME LockInv, NEW s \in Attempts, Verify(s)
  PROVE  LockInv'
<1> SUFFICES ASSUME NEW b, b = signIn[s].account
             PROVE  LockInv'
  OBVIOUS
<1> DEFINE r == [signIn[s] EXCEPT !.pc = IF signIn[s].right THEN "forget" ELSE "collect"]
<1>1. signIn[s] \in SignIns /\ signIn[s].pc = "verify" /\ SignInFits(s)
  BY LockFacts DEF Verify
<1>2. b \in Accounts
  BY <1>1 DEF SignInFits
<1>3. r \in SignIns /\ r.account = b /\ r.since = signIn[s].since /\ r.pc = IF signIn[s].right THEN "forget" ELSE "collect"
  BY <1>1 DEF SignIns
<1>4. signIn' = [signIn EXCEPT ![s] = r] /\ LockTypeOK
  BY DEF Verify, LockInv
<1>5. UNCHANGED <<failed, now, signIns>> /\ guesses' = IF signIn[s].right THEN guesses ELSE [guesses EXCEPT ![b] = Append(@, now)]
  BY DEF Verify
<1>6. /\ s \in Trying(b) /\ s \notin Guessed(b) /\ \A a : s \notin Guessed(a)
      /\ \A a : a # b => s \notin Trying(a)
  BY <1>1 DEF Guessed, Trying
<1> HIDE DEF r
<1>7. \A a : a # b => Guessed(a)' = Guessed(a) /\ Trying(a)' = Trying(a)
  <2> TAKE a
  <2> HAVE a # b
  <2>1. Guessed(a)' = (Guessed(a) \ {s}) \cup {} /\ Trying(a)' = (Trying(a) \ {s}) \cup {}
    BY <1>3, <1>4, OneSignIn
  <2> QED BY <1>6, <2>1
<1>8. Trying(b)' = Trying(b) \ {s} /\ Guessed(b)' = IF signIn[s].right THEN Guessed(b) ELSE Guessed(b) \cup {s}
  <2>1. Trying(b)' = (Trying(b) \ {s}) \cup {}
    BY <1>3, <1>4, OneSignIn
  <2>2. Guessed(b)' = (Guessed(b) \ {s}) \cup (IF signIn[s].right THEN {} ELSE {s})
    <3>1. CASE signIn[s].right
      <4>1. r.pc = "forget" /\ r.pc \notin {"collect", "count"}
        BY <1>3, <3>1
      <4> QED BY <1>3, <1>4, <3>1, <4>1, OneSignIn
    <3>2. CASE ~signIn[s].right
      <4>1. r.pc = "collect" /\ r.pc \in {"collect", "count"}
        BY <1>3, <3>2
      <4> QED BY <1>3, <1>4, <3>2, <4>1, OneSignIn
    <3> QED BY <3>1, <3>2
  <2> QED BY <1>6, <2>1, <2>2
<1>9. /\ Cardinality(Trying(b)') = Cardinality(Trying(b)) - 1 /\ Cardinality(Trying(b)) > 0
      /\ Cardinality(Guessed(b)') = IF signIn[s].right THEN Cardinality(Guessed(b)) ELSE Cardinality(Guessed(b)) + 1
  <2>1. IsFiniteSet(Trying(b)) /\ IsFiniteSet(Guessed(b)) /\ Cardinality(Trying(b)) \in Nat /\ Cardinality(Guessed(b)) \in Nat
    BY UnderWay
  <2>2. Cardinality(Trying(b) \ {s}) = Cardinality(Trying(b)) - 1 /\ Cardinality(Trying(b) \ {s}) \in Nat
    BY <1>6, <2>1, FS_RemoveElement, FS_CardinalityType
  <2>3. Cardinality(Guessed(b) \cup {s}) = Cardinality(Guessed(b)) + 1
    BY <1>6, <2>1, FS_AddElement
  <2> QED BY <1>8, <2>1, <2>2, <2>3
<1>10. \A a \in Accounts : AccountFits(failed'[a], guesses'[a], now', Cardinality(Guessed(a)'), Cardinality(Trying(a)'))
  <2> TAKE a \in Accounts
  <2>0. failed'[a] = failed[a] /\ now' = now
    BY <1>5
  <2>1. CASE a # b
    <3>1. guesses'[a] = guesses[a]
      BY <1>2, <1>5, <2>1, LockFacts
    <3> QED BY <2>0, <2>1, <3>1, <1>7, LockFacts
  <2>2. CASE a = b /\ signIn[s].right
    <3>1. guesses'[b] = guesses[b]
      BY <1>5, <2>2
    <3>2. AccountFits(failed[b], guesses[b], now, Cardinality(Guessed(b)), Cardinality(Trying(b)) - 1)
      BY <1>2, <1>9, LockFacts, UnderWay, OneLessTries
    <3> QED BY <2>0, <2>2, <3>1, <3>2, <1>9
  <2>3. CASE a = b /\ ~signIn[s].right
    <3>1. guesses'[b] = Append(guesses[b], now)
      BY <1>2, <1>5, <2>3, LockFacts
    <3>2. AccountFits(failed[b], Append(guesses[b], now), now, Cardinality(Guessed(b)) + 1, Cardinality(Trying(b)) - 1)
      BY <1>2, <1>9, LockFacts, UnderWay, OneMoreGuess
    <3> QED BY <2>0, <2>3, <3>1, <3>2, <1>9
  <2> QED BY <2>1, <2>2, <2>3
<1>11. LockTypeOK'
  <2>1. guesses' \in [Accounts -> Seq(0 .. MaxTime)]
    <3>1. CASE signIn[s].right
      BY <3>1, <1>5, LockFacts
    <3>2. CASE ~signIn[s].right
      <4>1. now \in 0 .. MaxTime /\ guesses[b] \in Seq(0 .. MaxTime)
        BY <1>2, LockFacts, Bounds
      <4>2. Append(guesses[b], now) \in Seq(0 .. MaxTime)
        BY <4>1
      <4> QED BY <3>2, <4>2, <1>2, <1>5, LockFacts
    <3> QED BY <3>1, <3>2
  <2> QED BY <2>1, <1>3, <1>4, <1>5, OneSignIn DEF LockTypeOK, SignIns
<1>12. \A o \in Attempts : SignInFits(o)'
  <2> TAKE o \in Attempts
  <2>1. CASE o = s
    <3>1. signIn'[o].pc # "count" /\ signIn'[o].account = b /\ signIn'[o].since = signIn[s].since /\ now' = now
      BY <1>3, <1>4, <1>5, <2>1, OneSignIn
    <3> QED BY <3>1, <1>1, <1>2 DEF SignInFits
  <2>2. CASE o # s
    BY <1>3, <1>4, <1>5, <2>2, OneSignIn, LockFacts DEF SignInFits
  <2> QED BY <2>1, <2>2
<1> QED BY <1>10, <1>11, <1>12 DEF LockInv

\* A step that leaves the sets of every account alone.
LEMMA SameSets ==
  ASSUME LockTypeOK, NEW s \in Attempts, NEW r \in SignIns, signIn' = [signIn EXCEPT ![s] = r],
         r.account = signIn[s].account,
         r.pc = "verify" <=> signIn[s].pc = "verify",
         r.pc \in {"collect", "count"} <=> signIn[s].pc \in {"collect", "count"}, NEW a
  PROVE  Guessed(a)' = Guessed(a) /\ Trying(a)' = Trying(a)
<1>1. signIn \in [Attempts -> SignIns]
  BY DEF LockTypeOK, SignIns
<1>2. signIn' \in [Attempts -> SignIns] /\ signIn'[s] = r /\ \A o \in Attempts : o # s => signIn'[o] = signIn[o]
  BY <1>1
<1> QED BY <1>2 DEF Guessed, Trying

LEMMA ForgetFits ==
  ASSUME LockInv, NEW s \in Attempts, Forget(s)
  PROVE  LockInv'
<1> SUFFICES ASSUME NEW b, b = signIn[s].account
             PROVE  LockInv'
  OBVIOUS
<1>1. signIn[s] \in SignIns /\ signIn[s].pc = "forget" /\ SignInFits(s)
  BY LockFacts DEF Forget
<1>2. b \in Accounts
  BY <1>1 DEF SignInFits
<1>3. NoSignIn \in SignIns /\ NoSignIn.pc = "idle"
  BY Bounds DEF SignIns, NoSignIn
<1>4. signIn' = [signIn EXCEPT ![s] = NoSignIn] /\ LockTypeOK
  BY DEF Forget, LockInv
<1>5. /\ UNCHANGED <<now, signIns>> /\ failed' = [failed EXCEPT ![b] = None]
      /\ guesses' = [guesses EXCEPT ![b] = <<>>]
  BY DEF Forget
<1>6. \A a : s \notin Trying(a) /\ s \notin Guessed(a)
  BY <1>1 DEF Guessed, Trying
<1>7. \A a : Guessed(a)' = Guessed(a) /\ Trying(a)' = Trying(a)
  <2> TAKE a
  <2>1. Guessed(a)' = (Guessed(a) \ {s}) \cup {} /\ Trying(a)' = (Trying(a) \ {s}) \cup {}
    BY <1>3, <1>4, OneSignIn
  <2> QED BY <1>6, <2>1
<1>8. \A a \in Accounts : AccountFits(failed'[a], guesses'[a], now', Cardinality(Guessed(a)'), Cardinality(Trying(a)'))
  <2> TAKE a \in Accounts
  <2>0. now' = now /\ Guessed(a)' = Guessed(a) /\ Trying(a)' = Trying(a)
    BY <1>5, <1>7
  <2>1. CASE a # b
    <3>1. guesses'[a] = guesses[a] /\ failed'[a] = failed[a]
      BY <1>5, <2>1, LockFacts
    <3> QED BY <2>0, <3>1, LockFacts
  <2>2. CASE a = b
    <3>1. guesses'[a] = <<>> /\ failed'[a] = None
      BY <1>5, <2>2, LockFacts
    <3>2. Cardinality(Trying(a)) <= Cardinality(Attempts)
      BY UnderWay, Mosts
    <3>3. AccountFits(None, <<>>, now, Cardinality(Guessed(a)), Cardinality(Trying(a)))
      BY <3>2, LockFacts, UnderWay, AllForgotten
    <3> QED BY <2>0, <3>1, <3>3
  <2> QED BY <2>1, <2>2
<1>9. LockTypeOK'
  <2>1. <<>> \in Seq(0 .. MaxTime)
    OBVIOUS
  <2>2. guesses' \in [Accounts -> Seq(0 .. MaxTime)] /\ failed' \in [Accounts -> Rows \cup {None}]
    BY <2>1, <1>5, LockFacts
  <2> QED BY <2>2, <1>3, <1>4, <1>5, OneSignIn DEF LockTypeOK, SignIns, Rows
<1>10. \A o \in Attempts : SignInFits(o)'
  <2> TAKE o \in Attempts
  <2>1. CASE o = s
    BY <1>3, <1>4, <2>1, OneSignIn DEF SignInFits
  <2>2. CASE o # s
    <3>1. signIn'[o] = signIn[o] /\ now' = now /\ SignInFits(o)
      BY <1>3, <1>4, <1>5, <2>2, OneSignIn, LockFacts
    <3>2. \A a \in Accounts : failed'[a] # None => failed'[a] = failed[a]
      BY <1>5, LockFacts
    <3> QED BY <3>1, <3>2 DEF SignInFits
  <2> QED BY <2>1, <2>2
<1> QED BY <1>8, <1>9, <1>10 DEF LockInv

\* The lock of a row that says something ends when its window does.
LEMMA LockEndFits ==
  ASSUME NEW row \in Failure, NEW times, NEW t \in Nat, NEW g, NEW v, AccountFits(row, times, t, g, v)
  PROVE  /\ row.last <= t /\ (row.until = 0 \/ row.until = row.last + LockTime)
         /\ (row.failures >= MaxFailures => row.until = row.last + LockTime) /\ (row.failures < MaxFailures => row.until = 0)
<1>1. row # None /\ row.failures \in Nat /\ row.last \in Nat /\ row.until \in Nat
  BY LimitsAssumption DEF Failure
<1>2. RowFits(row, t, g, Cardinality(Late(times, t, LockTime)), Cardinality(Late(times, row.last, 0)))
  BY DEF AccountFits
<1> QED BY <1>1, <1>2, Mosts DEF RowFits

LEMMA CollectFits ==
  ASSUME LockInv, NEW s \in Attempts, Collect(s)
  PROVE  LockInv'
<1> DEFINE r == [signIn[s] EXCEPT !.pc = "count"]
<1>1. signIn[s] \in SignIns /\ signIn[s].pc = "collect" /\ SignInFits(s)
  BY LockFacts DEF Collect
<1>2. r \in SignIns /\ r.pc = "count" /\ r.account = signIn[s].account /\ r.since = signIn[s].since
  BY <1>1 DEF SignIns
<1>3. signIn' = [signIn EXCEPT ![s] = r] /\ LockTypeOK
  BY DEF Collect, LockInv
<1>4. UNCHANGED <<guesses, now, signIns>> /\ failed' = [a \in Accounts |-> IF SaysNothing(a) THEN None ELSE failed[a]]
  BY DEF Collect
<1> HIDE DEF r
<1>5. \A a : Guessed(a)' = Guessed(a) /\ Trying(a)' = Trying(a)
  BY <1>1, <1>2, <1>3, SameSets
<1>6. \A a \in Accounts : AccountFits(failed'[a], guesses'[a], now', Cardinality(Guessed(a)'), Cardinality(Trying(a)'))
  <2> TAKE a \in Accounts
  <2>0. now' = now /\ guesses'[a] = guesses[a] /\ Guessed(a)' = Guessed(a) /\ Trying(a)' = Trying(a)
    BY <1>4, <1>5
  <2>1. CASE SaysNothing(a)
    <3>1. failed[a] \in Failure /\ failed[a].last + LockTime < now /\ failed'[a] = None
      BY <1>4, <2>1, LockFacts DEF SaysNothing
    <3>2. AccountFits(None, guesses[a], now, Cardinality(Guessed(a)), Cardinality(Trying(a)))
      BY <3>1, LockFacts, UnderWay, RowDropped
    <3> QED BY <2>0, <3>1, <3>2
  <2>2. CASE ~SaysNothing(a)
    <3>1. failed'[a] = failed[a]
      BY <1>4, <2>2
    <3> QED BY <2>0, <3>1, LockFacts
  <2> QED BY <2>1, <2>2
<1>7. LockTypeOK'
  <2>1. failed' \in [Accounts -> Rows \cup {None}]
    BY <1>4, LockFacts
  <2> QED BY <2>1, <1>2, <1>3, <1>4, OneSignIn DEF LockTypeOK, SignIns, Rows
<1>8. \A o \in Attempts : SignInFits(o)'
  <2> TAKE o \in Attempts
  <2>1. CASE o = s
    <3> DEFINE b == signIn[s].account
    <3>1. signIn'[o].pc = "count" /\ signIn'[o].account = b /\ signIn'[o].since = signIn[s].since /\ now' = now
      BY <1>2, <1>3, <1>4, <2>1, OneSignIn
    <3>2. b \in Accounts /\ signIn[s].since <= now /\ now <= signIn[s].since + RequestTime /\ signIn[s].since \in Nat
      BY <1>1, Bounds DEF SignInFits, SignIns
    <3>3. failed'[b] # None => signIn[s].since <= failed'[b].last + LockTime
      <4> HAVE failed'[b] # None
      <4>1. ~SaysNothing(b) /\ failed'[b] = failed[b] /\ failed[b] # None /\ failed[b] \in Failure
        BY <1>4, <3>2, LockFacts
      <4>2. failed[b].last \in Nat /\ failed[b].until \in Nat /\ now \in Nat
        BY <4>1, LockFacts DEF Failure
      <4>3. failed[b].until = 0 \/ failed[b].until = failed[b].last + LockTime
        BY <3>2, <4>1, LockFacts, LockEndFits
      <4>4. now <= failed[b].last + LockTime
        BY <4>1, <4>2, <4>3, Bounds DEF SaysNothing
      <4> QED BY <3>2, <4>1, <4>2, <4>4, Bounds
    <3> HIDE DEF b
    <3> QED BY <3>1, <3>2, <3>3 DEF SignInFits
  <2>2. CASE o # s
    <3>1. signIn'[o] = signIn[o] /\ now' = now /\ SignInFits(o)
      BY <1>2, <1>3, <1>4, <2>2, OneSignIn, LockFacts
    <3>2. \A a \in Accounts : failed'[a] # None => failed'[a] = failed[a]
      BY <1>4
    <3> QED BY <3>1, <3>2 DEF SignInFits
  <2> QED BY <2>1, <2>2
<1> QED BY <1>6, <1>7, <1>8 DEF LockInv

LEMMA CountFailureFits ==
  ASSUME LockInv, NEW s \in Attempts, CountFailure(s)
  PROVE  LockInv'
<1> SUFFICES ASSUME NEW b, b = signIn[s].account
             PROVE  LockInv'
  OBVIOUS
<1> DEFINE row == failed[b]
           new == IF row = None THEN [failures |-> 1, last |-> now, until |-> 0]
                  ELSE [failures |-> row.failures + 1, last |-> now, until |-> LockedUntil(row.failures + 1, row.until)]
<1>1. signIn[s] \in SignIns /\ signIn[s].pc = "count" /\ SignInFits(s)
  BY LockFacts DEF CountFailure
<1>2. b \in Accounts
  BY <1>1 DEF SignInFits
<1>3. NoSignIn \in SignIns /\ NoSignIn.pc = "idle"
  BY Bounds DEF SignIns, NoSignIn
<1>4. signIn' = [signIn EXCEPT ![s] = NoSignIn] /\ LockTypeOK
  BY DEF CountFailure, LockInv
<1>5. UNCHANGED <<now, signIns, guesses>> /\ failed' = [failed EXCEPT ![b] = new]
  BY DEF CountFailure
<1>6. row \in Rows \cup {None} /\ now \in 0 .. MaxTime
  BY <1>2, LockFacts, Bounds
<1>7. /\ new \in Rows /\ new.last = now
      /\ row = None => new.failures = 1 /\ new.until = 0
      /\ row # None => /\ new.failures = row.failures + 1
                       /\ new.until = IF new.failures >= MaxFailures THEN now + LockTime ELSE row.until
  <2>1. CASE row = None
    <3>1. new = [failures |-> 1, last |-> now, until |-> 0] /\ 0 \in 0 .. MaxTime + LockTime
      BY <2>1, Bounds
    <3> QED BY <2>1, <3>1, <1>6, Bounds DEF Rows
  <2>2. CASE row # None
    <3>1. new = [failures |-> row.failures + 1, last |-> now, until |-> LockedUntil(row.failures + 1, row.until)]
      BY <2>2
    <3>2. row.failures \in Nat /\ row.until \in 0 .. MaxTime + LockTime
      BY <1>6, <2>2 DEF Rows
    <3>3. /\ LockedUntil(row.failures + 1, row.until) = IF row.failures + 1 >= MaxFailures THEN now + LockTime ELSE row.until
          /\ LockedUntil(row.failures + 1, row.until) \in 0 .. MaxTime + LockTime
      BY <1>6, <3>2, Bounds DEF LockedUntil
    <3> HIDE DEF row, new
    <3> QED BY <2>2, <3>1, <3>2, <3>3, <1>6 DEF Rows
  <2> QED BY <2>1, <2>2
<1> HIDE DEF new
<1>8. \A a : s \notin Trying(a) /\ (a # b => s \notin Guessed(a))
  BY <1>1 DEF Guessed, Trying
<1>9. s \in Guessed(b)
  BY <1>1 DEF Guessed
<1>10. \A a : Trying(a)' = Trying(a) /\ Guessed(a)' = Guessed(a) \ {s}
  <2> TAKE a
  <2>1. Guessed(a)' = (Guessed(a) \ {s}) \cup {} /\ Trying(a)' = (Trying(a) \ {s}) \cup {}
    BY <1>3, <1>4, OneSignIn
  <2> QED BY <1>8, <2>1
<1>11. Cardinality(Guessed(b) \ {s}) = Cardinality(Guessed(b)) - 1 /\ Cardinality(Guessed(b)) > 0
  <2>1. IsFiniteSet(Guessed(b)) /\ Cardinality(Guessed(b)) \in Nat
    BY UnderWay
  <2>2. Cardinality(Guessed(b) \ {s}) = Cardinality(Guessed(b)) - 1 /\ Cardinality(Guessed(b) \ {s}) \in Nat
    BY <1>9, <2>1, FS_RemoveElement, FS_CardinalityType
  <2> QED BY <2>1, <2>2
<1>12. \A a \in Accounts : AccountFits(failed'[a], guesses'[a], now', Cardinality(Guessed(a)'), Cardinality(Trying(a)'))
  <2> TAKE a \in Accounts
  <2>0. now' = now /\ guesses'[a] = guesses[a] /\ Trying(a)' = Trying(a) /\ Guessed(a)' = Guessed(a) \ {s}
    BY <1>5, <1>10
  <2>1. CASE a # b
    <3>1. failed'[a] = failed[a] /\ Guessed(a) \ {s} = Guessed(a)
      BY <1>5, <1>8, <2>1, LockFacts
    <3> QED BY <2>0, <3>1, LockFacts
  <2>2. CASE a = b
    <3>1. failed'[a] = new
      BY <1>2, <1>5, <2>2, LockFacts
    <3>2. AccountFits(row, guesses[b], now, Cardinality(Guessed(b)), Cardinality(Trying(b))) /\ guesses[b] \in Seq(Nat)
          /\ row \in Failure \cup {None} /\ now \in Nat
      BY <1>2, LockFacts
    <3>3. new \in Failure
      BY <1>7, AFailure
    <3>4. Cardinality(Guessed(b)) \in Nat /\ Cardinality(Trying(b)) \in Nat
      BY UnderWay
    <3> HIDE DEF row
    <3>5. AccountFits(new, guesses[b], now, Cardinality(Guessed(b)) - 1, Cardinality(Trying(b)))
      BY <1>7, <1>11, <3>2, <3>3, <3>4, OneMoreCounted
    <3> QED BY <1>11, <2>0, <2>2, <3>1, <3>5
  <2> QED BY <2>1, <2>2
<1>13. LockTypeOK'
  <2>1. failed' \in [Accounts -> Rows \cup {None}]
    BY <1>5, <1>7, LockFacts
  <2> QED BY <2>1, <1>3, <1>4, <1>5, OneSignIn DEF LockTypeOK, SignIns, Rows
<1>14. \A o \in Attempts : SignInFits(o)'
  <2> TAKE o \in Attempts
  <2>1. CASE o = s
    BY <1>3, <1>4, <2>1, OneSignIn DEF SignInFits
  <2>2. CASE o # s
    <3>1. signIn'[o] = signIn[o] /\ now' = now /\ SignInFits(o) /\ signIn[o].since \in Nat
      BY <1>3, <1>4, <1>5, <2>2, OneSignIn, LockFacts, Bounds DEF SignIns
    <3>2. \A a \in Accounts : failed'[a] # None => failed'[a] = failed[a] \/ failed'[a].last = now
      BY <1>2, <1>5, <1>7, LockFacts
    <3>3. now \in Nat /\ LockTime \in Nat
      BY LockFacts, Bounds
    <3>4. signIn[o].pc # "idle" => signIn[o].since <= now + LockTime
      BY <3>1, <3>3 DEF SignInFits
    <3> QED BY <3>1, <3>2, <3>4 DEF SignInFits
  <2> QED BY <2>1, <2>2
<1> QED BY <1>12, <1>13, <1>14 DEF LockInv

LEMMA LaterLocks ==
  ASSUME LockInv, LimitTick
  PROVE  LockInv'
<1>1. /\ now < MaxTime /\ now' = now + 1 /\ UNCHANGED <<failed, signIn, guesses, signIns>>
      /\ \A s \in Attempts : signIn[s].pc # "idle" => now < signIn[s].since + RequestTime
  BY DEF LimitTick, lockVars
<1>2. \A a : Guessed(a)' = Guessed(a) /\ Trying(a)' = Trying(a)
  BY <1>1 DEF Guessed, Trying
<1>3. \A a \in Accounts : AccountFits(failed'[a], guesses'[a], now', Cardinality(Guessed(a)'), Cardinality(Trying(a)'))
  <2> TAKE a \in Accounts
  <2>1. AccountFits(failed[a], guesses[a], now + 1, Cardinality(Guessed(a)), Cardinality(Trying(a)))
    BY LockFacts, UnderWay, LaterFits
  <2> QED BY <1>1, <1>2, <2>1
<1>4. LockTypeOK'
  BY <1>1, Bounds DEF LockInv, LockTypeOK
<1>5. \A o \in Attempts : SignInFits(o)'
  <2> TAKE o \in Attempts
  <2>1. SignInFits(o) /\ signIn[o].since \in Nat /\ now \in Nat
    BY LockFacts, Bounds DEF SignIns
  <2>2. signIn[o].pc # "idle" => signIn[o].since <= now + 1 /\ now + 1 <= signIn[o].since + RequestTime
    BY <1>1, <2>1, Bounds DEF SignInFits
  <2> QED BY <1>1, <2>1, <2>2 DEF SignInFits
<1> QED BY <1>3, <1>4, <1>5 DEF LockInv

LEMMA OtherLocks ==
  ASSUME LockInv, UNCHANGED <<lockVars, now, signIns>>
  PROVE  LockInv'
<1>1. UNCHANGED <<failed, signIn, guesses, now, signIns>>
  BY DEF lockVars
<1>2. \A a : Guessed(a)' = Guessed(a) /\ Trying(a)' = Trying(a)
  BY <1>1 DEF Guessed, Trying
<1> QED BY <1>1, <1>2 DEF LockInv, LockTypeOK, SignInFits

LEMMA LockInit == LimitInit => LockInv
<1> SUFFICES ASSUME LimitInit PROVE LockInv
  OBVIOUS
<1>1. LockTypeOK
  BY Bounds DEF LimitInit, LockTypeOK, NoSignIn
<1>2. \A s \in Attempts : SignInFits(s)
  BY DEF LimitInit, NoSignIn, SignInFits
<1>3. \A a \in Accounts : AccountFits(failed[a], guesses[a], now, Cardinality(Guessed(a)), Cardinality(Trying(a)))
  <2> TAKE a \in Accounts
  <2>1. failed[a] = None /\ guesses[a] = <<>> /\ now = 0
    BY DEF LimitInit
  <2>2. Cardinality(Trying(a)) <= Cardinality(Attempts)
    BY UnderWay, Mosts
  <2>3. AccountFits(None, <<>>, 0, Cardinality(Guessed(a)), Cardinality(Trying(a)))
    BY <2>2, UnderWay, AllForgotten
  <2> QED BY <2>1, <2>3
<1> QED BY <1>1, <1>2, <1>3 DEF LockInv

LEMMA LockStep == LockInv /\ [LimitNext]_limitVars => LockInv'
<1> SUFFICES ASSUME LockInv, [LimitNext]_limitVars PROVE LockInv'
  OBVIOUS
<1>1. CASE \E s \in Attempts : CheckLock(s) \/ Verify(s) \/ Forget(s) \/ Collect(s) \/ CountFailure(s)
  BY <1>1, CheckLockFits, VerifyFits, ForgetFits, CollectFits, CountFailureFits
<1>2. CASE \E c \in Callers : RateLimit(c)
  BY <1>2, OtherLocks DEF RateLimit
<1>3. CASE Restart
  BY <1>3, OtherLocks DEF Restart
<1>4. CASE LimitTick
  BY <1>4, LaterLocks
<1>5. CASE UNCHANGED limitVars
  BY <1>5, OtherLocks DEF limitVars
<1> QED BY <1>1, <1>2, <1>3, <1>4, <1>5 DEF LimitNext

---------------------------------------------------------------------------
(* What the invariant of the lock says *)

LEMMA LockPromises == LockInv => GuessesBounded
<1> SUFFICES ASSUME LockInv, NEW a \in Accounts, NEW t \in 0 .. now
             PROVE  Within(guesses[a], t, LockTime) <= MaxFailures + Cardinality(Attempts) - 1
  BY DEF GuessesBounded
<1> QED BY LockFacts DEF AccountFits, MostGuesses

LEMMA OldFailuresStep ==
  ASSUME LockInv, NEW a \in Accounts, NEW s \in Attempts,
         signIn[s].account = a /\ CountFailure(s) /\ failed[a] # None
  PROVE  now <= failed[a].last + LockTime + RequestTime
<1>1. SignInFits(s) /\ signIn[s].pc = "count" /\ signIn[s] \in SignIns /\ failed[a] \in Failure
  BY LockFacts DEF CountFailure
<1>2. signIn[s].since \in Nat /\ failed[a].last \in Nat /\ now \in Nat
  BY <1>1, LockFacts, Bounds DEF SignIns, Failure
<1>3. now <= signIn[s].since + RequestTime /\ signIn[s].since <= failed[a].last + LockTime
  BY <1>1 DEF SignInFits
<1> QED BY <1>2, <1>3, Bounds

LEMMA LockStandsStep ==
  ASSUME LockInv, [LimitNext]_limitVars, NEW a \in Accounts, LockedOut(a), now' = now
  PROVE  \/ failed'[a] # None /\ failed'[a].until >= failed[a].until
         \/ \E s \in Attempts : signIn[s].account = a /\ Forget(s)
<1>1. failed[a] \in Failure /\ failed[a] # None /\ failed[a].until > now
  BY LockFacts DEF LockedOut
<1>2. failed[a].until \in Nat /\ failed[a].last \in Nat /\ failed[a].failures \in Nat /\ now \in Nat
  BY <1>1, LockFacts DEF Failure
<1>3. failed[a].failures >= MaxFailures /\ failed[a].until = failed[a].last + LockTime /\ failed[a].last <= now
  <2>1. AccountFits(failed[a], guesses[a], now, Cardinality(Guessed(a)), Cardinality(Trying(a)))
    BY LockFacts
  <2>2. /\ failed[a].last <= now /\ (failed[a].until = 0 \/ failed[a].until = failed[a].last + LockTime)
        /\ (failed[a].failures < MaxFailures => failed[a].until = 0)
    BY <1>1, <1>2, <2>1, LockEndFits
  <2> QED BY <1>1, <1>2, <2>2, Bounds
<1>4. CASE failed' = failed
  BY <1>1, <1>2, <1>4
<1>5. ASSUME NEW s \in Attempts, Forget(s)
      PROVE  \/ failed'[a] # None /\ failed'[a].until >= failed[a].until
             \/ \E o \in Attempts : signIn[o].account = a /\ Forget(o)
  <2>1. CASE signIn[s].account = a
    BY <1>5, <2>1
  <2>2. CASE signIn[s].account # a
    <3>1. failed'[a] = failed[a]
      BY <1>5, <2>2, LockFacts DEF Forget
    <3> QED BY <1>1, <1>2, <3>1
  <2> QED BY <2>1, <2>2
<1>6. ASSUME NEW s \in Attempts, Collect(s)
      PROVE  failed'[a] # None /\ failed'[a].until >= failed[a].until
  <2>1. ~SaysNothing(a)
    BY <1>1, <1>2 DEF SaysNothing
  <2>2. failed'[a] = failed[a]
    BY <1>6, <2>1 DEF Collect
  <2> QED BY <1>1, <1>2, <2>2
<1>7. ASSUME NEW s \in Attempts, CountFailure(s)
      PROVE  failed'[a] # None /\ failed'[a].until >= failed[a].until
  <2>1. CASE signIn[s].account # a
    <3>1. failed'[a] = failed[a]
      BY <1>7, <2>1, LockFacts DEF CountFailure
    <3> QED BY <1>1, <1>2, <3>1
  <2>2. CASE signIn[s].account = a
    <3> DEFINE new == [failures |-> failed[a].failures + 1, last |-> now, until |-> LockedUntil(failed[a].failures + 1, failed[a].until)]
    <3>1. failed'[a] = new
      BY <1>1, <1>7, <2>2, LockFacts DEF CountFailure
    <3>2. LockedUntil(failed[a].failures + 1, failed[a].until) = now + LockTime
      BY <1>2, <1>3, Bounds DEF LockedUntil
    <3>3. new.until = now + LockTime /\ new \in Failure /\ new # None
      BY <1>2, <3>2, Bounds, LimitsAssumption DEF Failure
    <3>4. now + LockTime >= failed[a].until
      BY <1>2, <1>3, Bounds
    <3> HIDE DEF new
    <3> QED BY <3>1, <3>3, <3>4
  <2> QED BY <2>1, <2>2
<1>8. CASE \E s \in Attempts : CheckLock(s) \/ Verify(s) \/ Forget(s) \/ Collect(s) \/ CountFailure(s)
  <2> SUFFICES ASSUME NEW s \in Attempts, CheckLock(s) \/ Verify(s) \/ Forget(s) \/ Collect(s) \/ CountFailure(s)
               PROVE  \/ failed'[a] # None /\ failed'[a].until >= failed[a].until
                      \/ \E o \in Attempts : signIn[o].account = a /\ Forget(o)
    BY <1>8
  <2>1. CASE CheckLock(s) \/ Verify(s)
    BY <2>1, <1>4 DEF CheckLock, Verify
  <2>2. CASE Forget(s)
    BY <2>2, <1>5
  <2>3. CASE Collect(s)
    BY <2>3, <1>6
  <2>4. CASE CountFailure(s)
    BY <2>4, <1>7
  <2> QED BY <2>1, <2>2, <2>3, <2>4
<1>9. CASE (\E c \in Callers : RateLimit(c)) \/ Restart \/ LimitTick
  BY <1>9, <1>4 DEF RateLimit, Restart, LimitTick, lockVars
<1>10. CASE UNCHANGED limitVars
  BY <1>10, <1>4 DEF limitVars, lockVars
<1> QED BY <1>8, <1>9, <1>10 DEF LimitNext

---------------------------------------------------------------------------
(* The window *)

\* A span that begins no earlier than the window is open for holds what the window and the one
\* before let through.
LEMMA TwoWindows ==
  ASSUME NEW times \in Seq(Nat), NEW w \in Window, NEW u \in Nat, w.resetAt <= u + WindowTime
  PROVE  /\ Within(times, u, WindowTime) <= Cardinality(During(times, w)) + Cardinality(Before(times, w))
         /\ Within(times, u, WindowTime) \in Nat
         /\ Cardinality(During(times, w)) \in Nat /\ Cardinality(Before(times, w)) \in Nat
<1> DEFINE S == {i \in DOMAIN times : times[i] <= u /\ times[i] + WindowTime > u}
           D == During(times, w)
           B == Before(times, w)
<1>1. w.resetAt \in Nat /\ WindowTime \in Nat /\ \A i \in DOMAIN times : times[i] \in Nat
  BY Bounds DEF Window
<1>2. S \subseteq D \cup B
  BY <1>1 DEF During, Before
<1>3. S \in SUBSET DOMAIN times /\ D \in SUBSET DOMAIN times /\ B \in SUBSET DOMAIN times /\ (D \cup B) \in SUBSET DOMAIN times
  BY DEF During, Before
<1>4. D \cap B = {}
  BY <1>1 DEF During, Before
<1>5. IsFiniteSet(D) /\ IsFiniteSet(B) /\ IsFiniteSet(D \cup B)
      /\ Cardinality(S) \in Nat /\ Cardinality(D) \in Nat /\ Cardinality(B) \in Nat
  BY <1>3, Indices
<1>6. Cardinality(D \cup B) = Cardinality(D) + Cardinality(B)
  <2>1. Cardinality(D \cup B) = Cardinality(D) + Cardinality(B) - Cardinality(D \cap B)
    BY <1>5, FS_Union
  <2>2. Cardinality(D \cap B) = 0
    BY <1>4, FS_EmptySet
  <2> QED BY <1>5, <2>1, <2>2
<1>7. Cardinality(S) <= Cardinality(D \cup B)
  BY <1>2, <1>5, FS_Subset
<1> QED BY <1>5, <1>6, <1>7 DEF Within

\* The calls that are still within reach when a window opens.
LEMMA StillLate ==
  ASSUME NEW w \in Window \cup {None}, NEW times \in Seq(Nat), NEW t \in Nat, CallerFits(w, times, t), w = None \/ w.resetAt <= t
  PROVE  /\ Cardinality(Late(times, t, WindowTime)) <= CallsPerWindow /\ Cardinality(Late(times, t, WindowTime)) \in Nat
         /\ \A i \in DOMAIN times : times[i] \in Nat /\ times[i] < t
<1>1. Cardinality(Late(times, t, WindowTime)) \in Nat
  BY LateCounted, Bounds
<1>2. CASE w = None
  BY <1>1, <1>2 DEF CallerFits
<1>3. CASE w # None
  <2>1. w.resetAt \in Nat /\ w.count \in 1 .. CallsPerWindow /\ w.resetAt <= t
    BY <1>3 DEF CallerFits
  <2>2. \A i \in DOMAIN times : times[i] \in Nat /\ times[i] < w.resetAt
    BY <1>3 DEF CallerFits
  <2>3. \A i \in DOMAIN times : times[i] < t
    BY <2>1, <2>2
  <2>4. Late(times, t, WindowTime) \subseteq During(times, w) /\ During(times, w) \in SUBSET DOMAIN times
    BY <2>1, <2>2, Bounds DEF Late, During
  <2>5. Cardinality(Late(times, t, WindowTime)) <= Cardinality(During(times, w)) /\ Cardinality(During(times, w)) \in Nat
    BY <2>4, Indices, FewerIndices, LateCounted, Bounds
  <2>6. Cardinality(During(times, w)) <= w.count
    BY <1>3 DEF CallerFits
  <2>7. Cardinality(Late(times, t, WindowTime)) <= CallsPerWindow
    BY <1>1, <2>1, <2>5, <2>6, Bounds
  <2> QED BY <1>1, <2>2, <2>3, <2>7
<1> QED BY <1>2, <1>3

\* The caller's window has run out and is swept.
LEMMA WindowSwept ==
  ASSUME NEW w \in Window, NEW times \in Seq(Nat), NEW t \in Nat, CallerFits(w, times, t), w.resetAt <= t
  PROVE  CallerFits(None, times, t)
<1>1. Cardinality(Late(times, t, WindowTime)) <= CallsPerWindow /\ \A i \in DOMAIN times : times[i] \in Nat /\ times[i] < t
  BY StillLate
<1> QED BY <1>1 DEF CallerFits

LEMMA NeverCalled ==
  ASSUME NEW t \in Nat
  PROVE  CallerFits(None, <<>>, t)
<1>1. Cardinality(Late(<<>>, t, WindowTime)) = 0
  BY NothingLate
<1>2. \A u \in 0 .. t : Within(<<>>, u, WindowTime) = 0
  <2>1. \A u : {i \in DOMAIN <<>> : <<>>[i] <= u /\ <<>>[i] + WindowTime > u} = {}
    OBVIOUS
  <2> QED BY <2>1, FS_EmptySet DEF Within
<1> QED BY <1>1, <1>2, Bounds DEF CallerFits

LEMMA WindowOpened ==
  ASSUME NEW w \in Window \cup {None}, NEW times \in Seq(Nat), NEW t \in Nat, CallerFits(w, times, t), w = None \/ w.resetAt <= t,
         NEW new \in Window, new.count = 1, new.resetAt = t + WindowTime
  PROVE  CallerFits(new, Append(times, t), t)
<1> DEFINE more == Append(times, t)
           n == Len(times) + 1
           late == Late(times, t, WindowTime)
<1>1. Cardinality(late) <= CallsPerWindow /\ Cardinality(late) \in Nat /\ \A i \in DOMAIN times : times[i] \in Nat /\ times[i] < t
  BY StillLate
<1>2. /\ more \in Seq(Nat) /\ DOMAIN more = DOMAIN times \cup {n} /\ n \notin DOMAIN times /\ more[n] = t
      /\ \A i \in DOMAIN times : more[i] = times[i]
  BY AppendedIndices
<1> HIDE DEF more, n
<1>3. During(more, new) = {n}
  BY <1>1, <1>2, Bounds DEF During
<1>4. Before(more, new) = late
  <2>1. Before(more, new) \subseteq late
    BY <1>1, <1>2, Bounds DEF Before, Late
  <2>2. late \subseteq Before(more, new)
    BY <1>1, <1>2, Bounds DEF Before, Late
  <2> QED BY <2>1, <2>2
<1>5. Cardinality(During(more, new)) = 1
  BY <1>3, FS_Singleton
<1>6. \A i \in DOMAIN more : more[i] <= t /\ more[i] < t + WindowTime
  BY <1>1, <1>2, Bounds
<1>7. Within(more, t, WindowTime) <= 2 * CallsPerWindow
  <2>1. new.resetAt <= t + WindowTime
    BY Bounds
  <2>2. /\ Within(more, t, WindowTime) <= Cardinality(During(more, new)) + Cardinality(Before(more, new))
        /\ Within(more, t, WindowTime) \in Nat
    BY <1>2, <2>1, TwoWindows
  <2> HIDE DEF late
  <2> QED BY <1>1, <1>4, <1>5, <2>2, Bounds
<1>8. \A u \in 0 .. t : Within(more, u, WindowTime) <= 2 * CallsPerWindow
  <2> TAKE u \in 0 .. t
  <2>1. CASE u < t
    <3>1. Within(more, u, WindowTime) = Within(times, u, WindowTime)
      BY <2>1, WithinAppended, Bounds DEF more
    <3> QED BY <3>1 DEF CallerFits
  <2>2. CASE u = t
    BY <2>2, <1>7
  <2> QED BY <2>1, <2>2
<1>9. new # None /\ new.count \in 1 .. CallsPerWindow /\ new.resetAt \in Nat /\ new.resetAt <= t + WindowTime
  BY LimitsAssumption, Bounds DEF Window
<1>10. Cardinality(During(more, new)) <= new.count /\ Cardinality(Before(more, new)) <= CallsPerWindow
  BY <1>1, <1>4, <1>5
<1>11. CallerFits(new, more, t)
  BY <1>6, <1>8, <1>9, <1>10 DEF CallerFits
<1> QED BY <1>11 DEF more

LEMMA OneMoreLetThrough ==
  ASSUME NEW w \in Window, NEW times \in Seq(Nat), NEW t \in Nat, CallerFits(w, times, t), w.resetAt > t, w.count < CallsPerWindow,
         NEW new \in Window, new.count = w.count + 1, new.resetAt = w.resetAt
  PROVE  CallerFits(new, Append(times, t), t)
<1> DEFINE more == Append(times, t)
           n == Len(times) + 1
<1>0. w # None /\ w.count \in 1 .. CallsPerWindow /\ w.resetAt \in Nat /\ w.resetAt <= t + WindowTime
      /\ \A i \in DOMAIN times : times[i] \in Nat /\ times[i] <= t /\ times[i] < w.resetAt
  <2>1. w # None
    BY LimitsAssumption
  <2>2. \A i \in DOMAIN times : times[i] \in Nat
    OBVIOUS
  <2> QED BY <2>1, <2>2 DEF CallerFits
<1>1. Cardinality(During(times, w)) <= w.count /\ Cardinality(Before(times, w)) <= CallsPerWindow
  BY <1>0 DEF CallerFits
<1>2. /\ more \in Seq(Nat) /\ DOMAIN more = DOMAIN times \cup {n} /\ n \notin DOMAIN times /\ more[n] = t
      /\ \A i \in DOMAIN times : more[i] = times[i]
  BY AppendedIndices
<1>3. During(more, new) \subseteq During(times, w) \cup {n} /\ n \notin During(times, w) /\ During(times, w) \in SUBSET DOMAIN times
  BY <1>2 DEF During
<1>4. Before(more, new) = Before(times, w)
  <2>1. n \notin Before(more, new)
    BY <1>0, <1>2, Bounds DEF Before
  <2> QED BY <1>2, <2>1 DEF Before
<1>5. Cardinality(During(more, new)) <= Cardinality(During(times, w)) + 1 /\ Cardinality(During(more, new)) \in Nat
      /\ Cardinality(During(times, w)) \in Nat
  <2>1. IsFiniteSet(During(times, w)) /\ Cardinality(During(times, w)) \in Nat
    BY <1>3, Indices
  <2>2. IsFiniteSet(During(times, w) \cup {n}) /\ Cardinality(During(times, w) \cup {n}) = Cardinality(During(times, w)) + 1
    BY <1>3, <2>1, FS_AddElement
  <2>3. Cardinality(During(more, new)) <= Cardinality(During(times, w) \cup {n}) /\ IsFiniteSet(During(more, new))
    BY <1>3, <2>2, FS_Subset
  <2> QED BY <2>1, <2>2, <2>3, FS_CardinalityType
<1> HIDE DEF more, n
<1>6. Cardinality(During(more, new)) <= new.count /\ new.count \in 1 .. CallsPerWindow
  BY <1>0, <1>1, <1>5, Bounds
<1>7. Within(more, t, WindowTime) <= 2 * CallsPerWindow
  <2>1. new.resetAt <= t + WindowTime
    BY <1>0
  <2>2. /\ Within(more, t, WindowTime) <= Cardinality(During(more, new)) + Cardinality(Before(more, new))
        /\ Within(more, t, WindowTime) \in Nat /\ Cardinality(Before(more, new)) \in Nat
    BY <1>2, <2>1, TwoWindows
  <2>3. Cardinality(During(more, new)) <= CallsPerWindow /\ Cardinality(Before(more, new)) <= CallsPerWindow
    BY <1>1, <1>4, <1>5, <1>6, Bounds
  <2> QED BY <1>5, <2>2, <2>3, Bounds
<1>8. \A u \in 0 .. t : Within(more, u, WindowTime) <= 2 * CallsPerWindow
  <2> TAKE u \in 0 .. t
  <2>1. CASE u < t
    <3>1. Within(more, u, WindowTime) = Within(times, u, WindowTime)
      BY <2>1, WithinAppended, Bounds DEF more
    <3> QED BY <3>1 DEF CallerFits
  <2>2. CASE u = t
    BY <2>2, <1>7
  <2> QED BY <2>1, <2>2
<1>9. new # None /\ new.resetAt \in Nat /\ new.resetAt <= t + WindowTime
  BY <1>0, LimitsAssumption
<1>10. \A i \in DOMAIN more : more[i] <= t /\ more[i] < new.resetAt
  BY <1>0, <1>2
<1>11. CallerFits(new, more, t)
  BY <1>1, <1>4, <1>6, <1>8, <1>9, <1>10 DEF CallerFits
<1> QED BY <1>11 DEF more

LEMMA LaterWindow ==
  ASSUME NEW w \in Window \cup {None}, NEW times \in Seq(Nat), NEW t \in Nat, CallerFits(w, times, t)
  PROVE  CallerFits(w, times, t + 1)
<1>1. \A i \in DOMAIN times : times[i] \in Nat /\ times[i] <= t
  BY DEF CallerFits
<1>2. CASE w = None
  <2> DEFINE late == Late(times, t, WindowTime)
             later == Late(times, t + 1, WindowTime)
  <2>1. t + 1 \in Nat /\ t + WindowTime <= (t + 1) + WindowTime
    BY Bounds
  <2>2. Cardinality(later) <= Cardinality(late) /\ Cardinality(late) \in Nat /\ Cardinality(later) \in Nat
    BY <2>1, LateFewer, LateCounted, Bounds
  <2>3. Cardinality(late) <= CallsPerWindow
    BY <1>2 DEF CallerFits
  <2>4. Within(times, t + 1, WindowTime) <= Cardinality(later) /\ Within(times, t + 1, WindowTime) \in Nat
    BY <2>1, WithinCounted, Bounds
  <2> HIDE DEF late
  <2>5. Cardinality(later) <= CallsPerWindow
    BY <2>2, <2>3, Bounds
  <2>6. Within(times, t + 1, WindowTime) <= 2 * CallsPerWindow
    BY <2>2, <2>4, <2>5, Bounds
  <2>7. \A u \in 0 .. t + 1 : Within(times, u, WindowTime) <= 2 * CallsPerWindow
    BY <2>6 DEF CallerFits
  <2>8. \A i \in DOMAIN times : times[i] <= t + 1 /\ times[i] < t + 1
    BY <1>1
  <2> QED BY <1>2, <2>5, <2>7, <2>8 DEF CallerFits
<1>3. CASE w # None
  <2>1. w \in Window /\ w.count \in 1 .. CallsPerWindow /\ w.resetAt \in Nat /\ w.resetAt <= t + WindowTime
        /\ Cardinality(During(times, w)) <= w.count /\ Cardinality(Before(times, w)) <= CallsPerWindow
    BY <1>3 DEF CallerFits
  <2>2. t + 1 \in Nat /\ w.resetAt <= (t + 1) + WindowTime
    BY <2>1, Bounds
  <2>3. /\ Within(times, t + 1, WindowTime) <= Cardinality(During(times, w)) + Cardinality(Before(times, w))
        /\ Within(times, t + 1, WindowTime) \in Nat
        /\ Cardinality(During(times, w)) \in Nat /\ Cardinality(Before(times, w)) \in Nat
    BY <2>1, <2>2, TwoWindows
  <2>4. Within(times, t + 1, WindowTime) <= 2 * CallsPerWindow
    BY <2>1, <2>3, Bounds
  <2>5. \A u \in 0 .. t + 1 : Within(times, u, WindowTime) <= 2 * CallsPerWindow
    BY <2>4 DEF CallerFits
  <2>6. \A i \in DOMAIN times : times[i] <= t + 1
    BY <1>1
  <2> QED BY <1>3, <2>2, <2>5, <2>6 DEF CallerFits
<1> QED BY <1>2, <1>3

---------------------------------------------------------------------------
(* The map of windows *)

OpenWindows == [count : 1 .. CallsPerWindow, resetAt : Nat]

LEMMA RateFacts ==
  ASSUME RateInv
  PROVE  /\ now \in Nat /\ now <= MaxTime /\ windows \in [Callers -> OpenWindows \cup {None}]
         /\ passed \in [Callers -> Seq(0 .. MaxTime)]
         /\ \A c \in Callers : windows[c] \in Window \cup {None} /\ passed[c] \in Seq(Nat) /\ CallerFits(windows[c], passed[c], now)
<1>1. now \in Nat /\ now <= MaxTime /\ windows \in [Callers -> OpenWindows \cup {None}] /\ passed \in [Callers -> Seq(0 .. MaxTime)]
  BY Bounds DEF RateInv, OpenWindows
<1>2. OpenWindows \subseteq Window /\ Seq(0 .. MaxTime) \subseteq Seq(Nat)
  BY Bounds DEF OpenWindows, Window
<1> QED BY <1>1, <1>2 DEF RateInv

LEMMA TrackedCounted ==
  ASSUME NEW w
  PROVE  Tracked(w) \in SUBSET Callers /\ IsFiniteSet(Tracked(w)) /\ Cardinality(Tracked(w)) \in Nat
<1>1. Tracked(w) \in SUBSET Callers
  BY DEF Tracked
<1> QED BY <1>1, FS_Subset, FS_CardinalityType, LimitsAssumption

\* After the sweep there is room for one more.
LEMMA SweptSmall ==
  Cardinality(Tracked(SweepWhenFull(windows))) <= MaxTracked
<1> DEFINE left == [c \in Callers |-> IF windows[c] # None /\ windows[c].resetAt <= now THEN None ELSE windows[c]]
<1>1. SweepStale(windows) = IF Cardinality(Tracked(left)) > MaxTracked THEN NoWindow ELSE left
  BY DEF SweepStale
<1> HIDE DEF left
<1>2. Cardinality(Tracked(left)) \in Nat /\ Cardinality(Tracked(windows)) \in Nat
  BY TrackedCounted
<1>3. Tracked(NoWindow) = {} /\ Cardinality({}) = 0
  BY FS_EmptySet DEF Tracked, NoWindow
<1>4. Cardinality(Tracked(SweepStale(windows))) <= MaxTracked
  <2>1. CASE Cardinality(Tracked(left)) > MaxTracked
    BY <1>1, <1>3, <2>1, Bounds
  <2>2. CASE ~(Cardinality(Tracked(left)) > MaxTracked)
    <3>1. SweepStale(windows) = left
      BY <1>1, <2>2
    <3> QED BY <1>2, <2>2, <3>1, Bounds
  <2> QED BY <2>1, <2>2
<1>5. CASE Cardinality(Tracked(windows)) > MaxTracked
  BY <1>4, <1>5 DEF SweepWhenFull
<1>6. CASE ~(Cardinality(Tracked(windows)) > MaxTracked)
  <2>1. SweepWhenFull(windows) = windows
    BY <1>6 DEF SweepWhenFull
  <2> QED BY <1>2, <1>6, <2>1, Bounds
<1> QED BY <1>5, <1>6

\* Unless the map is cleared, a sweep drops what has run out and nothing else.
LEMMA SweptStale ==
  ASSUME RateInv
  PROVE  LET kept == SweepWhenFull(windows) IN
         /\ kept \in [Callers -> OpenWindows \cup {None}]
         /\ \/ kept = NoWindow /\ windows # NoWindow
            \/ \A d \in Callers : \/ kept[d] = windows[d]
                                  \/ kept[d] = None /\ windows[d] # None /\ windows[d].resetAt <= now
<1> DEFINE left == [c \in Callers |-> IF windows[c] # None /\ windows[c].resetAt <= now THEN None ELSE windows[c]]
           kept == SweepWhenFull(windows)
<1>1. SweepStale(windows) = NoWindow \/ SweepStale(windows) = left
  BY DEF SweepStale
<1>2. kept = windows \/ kept = NoWindow \/ kept = left
  BY <1>1 DEF SweepWhenFull
<1>3. NoWindow \in [Callers -> OpenWindows \cup {None}] /\ left \in [Callers -> OpenWindows \cup {None}]
  BY RateFacts DEF NoWindow
<1>4. \A d \in Callers : left[d] = windows[d] \/ (left[d] = None /\ windows[d] # None /\ windows[d].resetAt <= now)
  OBVIOUS
<1>5. kept \in [Callers -> OpenWindows \cup {None}]
  BY <1>2, <1>3, RateFacts
<1> HIDE DEF left, kept
<1>6. \/ kept = NoWindow /\ windows # NoWindow
      \/ \A d \in Callers : \/ kept[d] = windows[d]
                            \/ kept[d] = None /\ windows[d] # None /\ windows[d].resetAt <= now
  BY <1>2, <1>4
<1> QED BY <1>5, <1>6 DEF kept

LEMMA RateLimitFits ==
  ASSUME RateInv, NEW c \in Callers, RateLimit(c)
  PROVE  RateInv'
<1> SUFFICES ASSUME NEW kept, kept = SweepWhenFull(windows),
                    NEW since, since = IF kept = NoWindow /\ windows # NoWindow THEN [d \in Callers |-> <<>>] ELSE passed,
                    NEW fresh \in BOOLEAN, fresh = (kept[c] = None \/ kept[c].resetAt <= now),
                    NEW ok \in BOOLEAN, ok = (fresh \/ kept[c].count < CallsPerWindow),
                    NEW new, new = IF fresh THEN [count |-> 1, resetAt |-> now + WindowTime] ELSE OneMoreCall(kept[c]),
                    NEW t, t = now
             PROVE  RateInv'
  OBVIOUS
<1>1. /\ windows' = IF ~ok THEN kept ELSE [kept EXCEPT ![c] = new]
      /\ passed' = IF ok THEN [since EXCEPT ![c] = Append(@, t)] ELSE since
      /\ now' = t /\ arrivals < MaxArrivals /\ arrivals' = arrivals + 1
  BY DEF RateLimit, lockVars
<1>2. t \in Nat /\ t <= MaxTime
  BY RateFacts
<1>3. kept \in [Callers -> OpenWindows \cup {None}] /\ since \in [Callers -> Seq(0 .. MaxTime)]
      /\ \A d \in Callers : kept[d] \in Window \cup {None} /\ since[d] \in Seq(Nat)
  <2>1. kept \in [Callers -> OpenWindows \cup {None}]
    BY SweptStale
  <2>2. since \in [Callers -> Seq(0 .. MaxTime)]
    <3>1. [d \in Callers |-> <<>>] \in [Callers -> Seq(0 .. MaxTime)]
      OBVIOUS
    <3> QED BY <3>1, RateFacts
  <2>3. OpenWindows \subseteq Window /\ Seq(0 .. MaxTime) \subseteq Seq(Nat)
    BY Bounds DEF OpenWindows, Window
  <2> QED BY <2>1, <2>2, <2>3
<1>4. \A d \in Callers : CallerFits(kept[d], since[d], t)
  <2> TAKE d \in Callers
  <2>1. CASE kept = NoWindow /\ windows # NoWindow
    <3>1. kept[d] = None /\ since[d] = <<>>
      BY <2>1 DEF NoWindow
    <3> QED BY <1>2, <3>1, NeverCalled
  <2>2. CASE ~(kept = NoWindow /\ windows # NoWindow)
    <3>1. since[d] = passed[d]
      BY <2>2
    <3>2. kept[d] = windows[d] \/ (kept[d] = None /\ windows[d] # None /\ windows[d].resetAt <= now)
      BY <2>2, SweptStale
    <3>3. CASE kept[d] = windows[d]
      BY <3>1, <3>3, RateFacts
    <3>4. CASE kept[d] = None /\ windows[d] # None /\ windows[d].resetAt <= now
      <4>1. CallerFits(None, passed[d], now)
        BY <3>4, RateFacts, WindowSwept
      <4> QED BY <3>1, <3>4, <4>1
    <3> QED BY <3>2, <3>3, <3>4
  <2> QED BY <2>1, <2>2
<1>5. ok => new \in OpenWindows /\ new \in Window /\ CallerFits(new, Append(since[c], t), t)
  <2> HAVE ok
  <2>1. CASE fresh
    <3>1. new = [count |-> 1, resetAt |-> t + WindowTime]
      BY <2>1
    <3>2. new \in OpenWindows /\ new \in Window /\ new.count = 1 /\ new.resetAt = t + WindowTime
      BY <1>2, <3>1, Bounds DEF OpenWindows, Window
    <3>3. kept[c] = None \/ kept[c].resetAt <= t
      BY <2>1
    <3> QED BY <1>2, <1>3, <1>4, <3>2, <3>3, WindowOpened
  <2>2. CASE ~fresh
    <3>1. kept[c] # None /\ ~(kept[c].resetAt <= t) /\ kept[c].count < CallsPerWindow
      BY <2>2
    <3>2. kept[c] \in OpenWindows /\ kept[c] \in Window
      BY <1>3, <3>1
    <3>3. kept[c].resetAt > t /\ kept[c].resetAt \in Nat /\ kept[c].count \in 1 .. CallsPerWindow
      BY <1>2, <3>1, <3>2 DEF OpenWindows
    <3>4. new = [count |-> kept[c].count + 1, resetAt |-> kept[c].resetAt]
      BY <2>2 DEF OneMoreCall
    <3>5. new \in OpenWindows /\ new \in Window /\ new.count = kept[c].count + 1 /\ new.resetAt = kept[c].resetAt
      BY <3>1, <3>3, <3>4, Bounds DEF OpenWindows, Window
    <3> QED BY <1>2, <1>3, <1>4, <3>1, <3>2, <3>3, <3>5, OneMoreLetThrough
  <2> QED BY <2>1, <2>2
<1>6. \A d \in Callers : CallerFits(windows'[d], passed'[d], now')
  <2> TAKE d \in Callers
  <2>1. CASE ok /\ d = c
    <3>1. windows'[d] = new /\ passed'[d] = Append(since[c], t) /\ now' = t
      BY <1>1, <1>3, <2>1
    <3> QED BY <1>5, <2>1, <3>1
  <2>2. CASE ~ok \/ d # c
    <3>1. windows'[d] = kept[d] /\ passed'[d] = since[d] /\ now' = t
      BY <1>1, <1>3, <2>2
    <3> QED BY <1>4, <3>1
  <2> QED BY <2>1, <2>2
<1>7. windows' \in [Callers -> OpenWindows \cup {None}]
  BY <1>1, <1>3, <1>5
<1>8. passed' \in [Callers -> Seq(0 .. MaxTime)]
  <2>1. t \in 0 .. MaxTime
    BY <1>2, Bounds
  <2>2. since[c] \in Seq(0 .. MaxTime)
    BY <1>3
  <2>3. Append(since[c], t) \in Seq(0 .. MaxTime)
    BY <2>1, <2>2
  <2> QED BY <1>1, <1>3, <2>3
<1>9. now' \in 0 .. MaxTime /\ arrivals' \in 0 .. MaxArrivals
  BY <1>1, <1>2, Bounds DEF RateInv
<1>10. Cardinality(Tracked(windows'))  <= MaxTracked + 1
  <2>1. Tracked(windows') \subseteq Tracked(kept) \cup {c}
    BY <1>1, <1>3 DEF Tracked
  <2>2. IsFiniteSet(Tracked(kept)) /\ Cardinality(Tracked(kept)) \in Nat /\ Cardinality(Tracked(kept)) <= MaxTracked
    BY TrackedCounted, SweptSmall
  <2>3. IsFiniteSet(Tracked(kept) \cup {c}) /\ Cardinality(Tracked(kept) \cup {c}) <= Cardinality(Tracked(kept)) + 1
        /\ Cardinality(Tracked(kept) \cup {c}) \in Nat
    <3>1. IsFiniteSet(Tracked(kept) \cup {c})
      BY <2>2, FS_AddElement
    <3>2. Cardinality(Tracked(kept) \cup {c}) = IF c \in Tracked(kept) THEN Cardinality(Tracked(kept)) ELSE Cardinality(Tracked(kept)) + 1
      BY <2>2, FS_AddElement
    <3> QED BY <2>2, <3>1, <3>2
  <2>4. Cardinality(Tracked(windows')) <= Cardinality(Tracked(kept) \cup {c}) /\ IsFiniteSet(Tracked(windows'))
    BY <2>1, <2>3, FS_Subset
  <2> QED BY <2>2, <2>3, <2>4, FS_CardinalityType, Bounds
<1> QED BY <1>6, <1>7, <1>8, <1>9, <1>10 DEF RateInv, TrackedBounded, Tracked, OpenWindows

LEMMA RestartFits ==
  ASSUME RateInv, Restart
  PROVE  RateInv'
<1>1. windows' = NoWindow /\ passed' = [c \in Callers |-> <<>>] /\ now' = now /\ arrivals < MaxArrivals /\ arrivals' = arrivals + 1
  BY DEF Restart
<1>2. \A c \in Callers : CallerFits(windows'[c], passed'[c], now')
  <2> TAKE c \in Callers
  <2>1. windows'[c] = None /\ passed'[c] = <<>>
    BY <1>1 DEF NoWindow
  <2> QED BY <1>1, <2>1, NeverCalled, RateFacts
<1>3. Tracked(windows') = {} /\ Cardinality({}) = 0
  BY <1>1, FS_EmptySet DEF Tracked, NoWindow
<1>4. Cardinality(Tracked(windows')) <= MaxTracked + 1
  BY <1>3, Bounds
<1>5. windows' \in [Callers -> OpenWindows \cup {None}]
  BY <1>1 DEF NoWindow
<1>6. passed' \in [Callers -> Seq(0 .. MaxTime)]
  BY <1>1
<1>7. now' \in 0 .. MaxTime /\ arrivals' \in 0 .. MaxArrivals
  BY <1>1, Bounds DEF RateInv
<1> QED BY <1>2, <1>4, <1>5, <1>6, <1>7 DEF RateInv, TrackedBounded, Tracked, OpenWindows

LEMMA LaterWindows ==
  ASSUME RateInv, LimitTick
  PROVE  RateInv'
<1>1. now < MaxTime /\ now' = now + 1 /\ windows' = windows /\ passed' = passed /\ arrivals' = arrivals
  BY DEF LimitTick, rateVars
<1>2. \A c \in Callers : CallerFits(windows'[c], passed'[c], now')
  BY <1>1, RateFacts, LaterWindow
<1>3. now' \in 0 .. MaxTime
  BY <1>1, RateFacts, Bounds
<1> QED BY <1>1, <1>2, <1>3 DEF RateInv, TrackedBounded, Tracked

LEMMA OtherWindows ==
  ASSUME RateInv, UNCHANGED <<rateVars, now, arrivals>>
  PROVE  RateInv'
BY DEF RateInv, TrackedBounded, Tracked, rateVars

LEMMA RateInit == LimitInit => RateInv
<1> SUFFICES ASSUME LimitInit PROVE RateInv
  OBVIOUS
<1>1. windows = NoWindow /\ passed = [c \in Callers |-> <<>>] /\ now = 0 /\ arrivals = 0
  BY DEF LimitInit, NoWindow
<1>2. \A c \in Callers : CallerFits(windows[c], passed[c], now)
  <2> TAKE c \in Callers
  <2>1. windows[c] = None /\ passed[c] = <<>>
    BY <1>1 DEF NoWindow
  <2> QED BY <1>1, <2>1, NeverCalled
<1>3. Cardinality(Tracked(windows)) <= MaxTracked + 1
  <2>1. Tracked(windows) = {} /\ Cardinality({}) = 0
    BY <1>1, FS_EmptySet DEF Tracked, NoWindow
  <2> QED BY <2>1, Bounds
<1>4. windows \in [Callers -> OpenWindows \cup {None}] /\ passed \in [Callers -> Seq(0 .. MaxTime)]
  BY <1>1 DEF NoWindow
<1> QED BY <1>1, <1>2, <1>3, <1>4, Bounds DEF RateInv, TrackedBounded, OpenWindows

LEMMA RateStep == RateInv /\ [LimitNext]_limitVars => RateInv'
<1> SUFFICES ASSUME RateInv, [LimitNext]_limitVars PROVE RateInv'
  OBVIOUS
<1>1. CASE \E s \in Attempts : CheckLock(s) \/ Verify(s) \/ Forget(s) \/ Collect(s) \/ CountFailure(s)
  BY <1>1, OtherWindows DEF CheckLock, Verify, Forget, Collect, CountFailure
<1>2. CASE \E c \in Callers : RateLimit(c)
  BY <1>2, RateLimitFits
<1>3. CASE Restart
  BY <1>3, RestartFits
<1>4. CASE LimitTick
  BY <1>4, LaterWindows
<1>5. CASE UNCHANGED limitVars
  BY <1>5, OtherWindows DEF limitVars
<1> QED BY <1>1, <1>2, <1>3, <1>4, <1>5 DEF LimitNext

LEMMA RatePromises == RateInv => TrackedBounded /\ CallsBounded
<1> SUFFICES ASSUME RateInv, NEW c \in Callers, NEW t \in 0 .. now
             PROVE  Within(passed[c], t, WindowTime) <= 2 * CallsPerWindow
  BY DEF RateInv, CallsBounded
<1> QED BY RateFacts DEF CallerFits

---------------------------------------------------------------------------
\* The limits on guessing, for every number of accounts, sign-ins and callers and every threshold:
\* the guesses and calls in any span stay within their bound, old failures lock nobody, a lock
\* stands for its time, and the map of windows stays small.
THEOREM LimitsCorrectAlways == LimitSpec => LimitsCorrect
<1>1. LimitInit => LimitInv
  BY LockInit, RateInit DEF LimitInv
<1>2. LimitInv /\ [LimitNext]_limitVars => LimitInv'
  BY LockStep, RateStep DEF LimitInv
<1>3. LimitInv => LimitTypeOK /\ GuessesBounded /\ TrackedBounded /\ CallsBounded
  BY LockPromises, RatePromises DEF LimitInv, LimitTypeOK, LockInv, LockTypeOK, RateInv
<1>4. LimitInv /\ [LimitNext]_limitVars =>
        [\A a \in Accounts, s \in Attempts :
           signIn[s].account = a /\ CountFailure(s) /\ failed[a] # None =>
             now <= failed[a].last + LockTime + RequestTime]_limitVars
  BY OldFailuresStep DEF LimitInv
<1>5. LimitInv /\ [LimitNext]_limitVars =>
        [\A a \in Accounts : LockedOut(a) /\ now' = now =>
           \/ failed'[a] # None /\ failed'[a].until >= failed[a].until
           \/ \E s \in Attempts : signIn[s].account = a /\ Forget(s)]_limitVars
  BY LockStandsStep DEF LimitInv
<1> QED BY <1>1, <1>2, <1>3, <1>4, <1>5, PTL DEF LimitSpec, LimitsCorrect, OldFailuresForgotten, LockStands

---------------------------------------------------------------------------
(* The pages of the console: the inductive invariant of Console *)

\* What a page may have on its way.
AskedBy(p) == CASE p = "import" -> {"map", "preview", "apply"}
                [] p = "browse" -> {"read", "grant"}
                [] p = "audit" -> {"events"}
                [] p = "approve" -> {"terms", "approve", "deny"}
                [] p = "acl" -> {"load", "save"}
                [] p = "list" -> {"act", "list"}
                [] p = "keys" -> {"rotate", "revoke", "keys"}
                [] p = "dialog" -> {"add"}
                [] p = "login" -> {"status", "signin"}

\* A request is one of its page, made once.
IsAsked(r) ==
  /\ r = [n |-> r.n, kind |-> r.kind, what |-> r.what, back |-> r.back]
  /\ r.n \in Nat /\ r.n < sentBy /\ r.kind \in AskedBy(page)
WireOK ==
  /\ page \in Pages /\ sentBy \in Nat /\ sentBy <= MaxSent[page] /\ others \in 0..MaxOthers
  /\ \A r \in wire : IsAsked(r)
  /\ \A r, s \in wire : r.n = s.n => r = s

FormTab == [at : {"pick", "map", "confirm", "result"}, target : Targets \cup {None}, mode : FormModes,
            file : Uploadable \cup {None}, busy : BOOLEAN, preview : Previews \cup {None},
            result : FormChoices \cup {None}]
\* A page that is busy waits for one answer and keeps the file that it sent.
FormInv ==
  /\ tab \in FormTab
  /\ (tab.busy => tab.at \in {"pick", "map"})
  /\ (~tab.busy => wire = {})
  /\ \A r, s \in wire : r = s
  /\ \A r \in wire : r.what \in FormChoices /\ (r.kind = "preview" => r.what.file = tab.file)
  /\ (tab.at = "confirm" => tab.preview # None /\ tab.preview.ok /\ tab.preview.of.file = tab.file)

BrowserTab == [wants : [filter : Words \cup {""}, limit : PageSizes], spec : BrowserReads \cup {None},
               result : BrowserResults \cup {None}, loading : BOOLEAN, granted : BOOLEAN, requesting : BOOLEAN]
BrowserInv ==
  /\ tab \in BrowserTab
  /\ \A r \in wire : r.kind = "read" => r.what \in BrowserReads
  /\ ShownIsAsked

AuditTab == [params : Addresses, asked : Addresses, pending : Addresses \cup {None},
             intent : [Params -> Words \cup {""}], events : [of : Addresses, more : BOOLEAN] \cup {None},
             loading : BOOLEAN]
\* What the ref holds is where the router is going; without one it has arrived.
AuditInv ==
  /\ tab \in AuditTab
  /\ \A r \in wire : r.what \in Addresses
  /\ tab.asked = (IF tab.pending = None THEN tab.params ELSE tab.pending)
  /\ tab.asked.filters = tab.intent

SheetTab == [grant : DOMAIN AskedFor \cup {None}, open : BOOLEAN, busy : BOOLEAN,
             fields : SUBSET UNION {AskedFor[g] : g \in DOMAIN AskedFor},
             unmasked : SUBSET UNION {AskedFor[g] : g \in DOMAIN AskedFor},
             vocabulary : DOMAIN AskedFor \cup {None},
             terms : SUBSET UNION {VocabularyOf[g] : g \in DOMAIN VocabularyOf}]
SheetInv ==
  /\ tab \in SheetTab
  /\ (tab.open => tab.grant \in DOMAIN AskedFor)
  /\ (tab.grant \in DOMAIN AskedFor => tab.fields \subseteq AskedFor[tab.grant])
  /\ tab.unmasked \subseteq tab.fields
  /\ \A r \in wire : r.kind = "terms" => r.what.grant \in DOMAIN AskedFor
  /\ TrimmedOnly

AclTab == [paper : Papers, acl : [paper : Papers, list : SUBSET People_] \cup {None},
           loading : BOOLEAN, saving : BOOLEAN]
\* An answer that brings a list brings one that the server held for that document.
AclInv ==
  /\ tab \in AclTab
  /\ store = [acl |-> store.acl, past |-> store.past]
  /\ store.acl \in [Papers -> SUBSET People_] /\ store.past \in [Papers -> SUBSET SUBSET People_]
  /\ \A d \in Papers : store.acl[d] \in store.past[d]
  /\ \A r \in wire :
       /\ r.what.paper \in Papers
       /\ (r.kind = "save" => r.what.list \in SUBSET People_)
       /\ (r.back # None /\ r.back.ok => r.back.paper \in Papers /\ r.back.list \in store.past[r.back.paper])
  /\ (tab.acl # None => tab.acl.list \in store.past[tab.acl.paper])

ListTab == [kind : ListKinds, rows : [Lines -> Edited], locked : SUBSET Lines]
\* The locks: every row of it while one action or the read after it is on its way, the row of
\* each action, or nothing that a promise could rest on.
ListInv ==
  /\ tab \in ListTab
  /\ store = [rows |-> store.rows, past |-> store.past]
  /\ store.rows \in [Lines -> Edited] /\ store.past \in [Lines -> SUBSET Edited]
  /\ \A l \in Lines : store.rows[l] \in store.past[l] /\ tab.rows[l] \in store.past[l]
  /\ \A r \in wire :
       /\ r.what.line \in Lines
       /\ (r.kind = "act" => r.what.value \in Edited)
       /\ (r.kind = "list" /\ r.back # None /\ r.back.ok =>
             r.back.rows \in [Lines -> Edited] /\ \A l \in Lines : r.back.rows[l] \in store.past[l])
  /\ (tab.kind = "all" => (tab.locked = {} => wire = {}) /\ \A r, s \in wire : r = s)
  /\ (tab.kind = "own" =>
        /\ \A r \in Waits("act") : r.what.line \in tab.locked
        /\ \A r, s \in Waits("act") : r # s => r.what.line # s.what.line)

DialogTab == [open : BOOLEAN, draft : Edited \cup {None}, submitting : BOOLEAN]
DialogInv ==
  /\ tab \in DialogTab
  /\ (~tab.submitting => wire = {})
  /\ \A r, s \in wire : r = s

PagesInv ==
  /\ WireOK
  /\ (page = "import" => FormInv)
  /\ (page = "browse" => BrowserInv)
  /\ (page = "audit" => AuditInv)
  /\ (page = "approve" => SheetInv)
  /\ (page = "acl" => AclInv)
  /\ (page = "list" => ListInv)
  /\ (page = "dialog" => DialogInv)

---------------------------------------------------------------------------
(* What happens on the wire, whichever page it is *)

LEMMA ShowKeepsWire == ASSUME WireOK, UNCHANGED <<page, wire, sentBy, others>> PROVE WireOK'
BY DEF WireOK, IsAsked

LEMMA SendAdds ==
  ASSUME NEW kind, NEW what, Send(kind, what)
  PROVE  \E e : e.kind = kind /\ e.what = what /\ e.back = None /\ wire' = wire \cup {e}
<1> DEFINE e == [n |-> sentBy, kind |-> kind, what |-> what, back |-> None]
<1>1. wire' = wire \cup {e}
  BY DEF Send, Request
<1>2. e.kind = kind /\ e.what = what /\ e.back = None
  OBVIOUS
<1> HIDE DEF e
<1> QED BY <1>1, <1>2

LEMMA SendKeepsWire ==
  ASSUME ConsoleAssumption, WireOK, NEW kind, NEW what, Send(kind, what), UNCHANGED <<page, others>>,
         kind \in AskedBy(page)
  PROVE  WireOK'
<1>1. sentBy \in Nat /\ sentBy' = sentBy + 1 /\ MaxSent[page] \in Nat /\ sentBy' <= MaxSent[page]
  BY DEF WireOK, Send, ConsoleAssumption
<1>2. PICK e : e = [n |-> sentBy, kind |-> kind, what |-> what, back |-> None] /\ wire' = wire \cup {e}
  BY DEF Send, Request
<1>3. \A r \in wire' : IsAsked(r)'
  <2>1. \A r \in wire : IsAsked(r)'
    BY <1>1 DEF WireOK, IsAsked
  <2>2. IsAsked(e)'
    BY <1>1, <1>2 DEF IsAsked
  <2> QED BY <1>2, <2>1, <2>2
<1>4. \A r, s \in wire' : r.n = s.n => r = s
  <2>1. \A r \in wire : r.n # e.n
    BY <1>1, <1>2 DEF WireOK, IsAsked
  <2> QED BY <1>2, <2>1 DEF WireOK
<1> QED BY <1>1, <1>3, <1>4 DEF WireOK

LEMMA ApplyKeepsWire ==
  ASSUME WireOK, NEW r, wire' = wire \ {r}, UNCHANGED <<page, sentBy, others>>
  PROVE  WireOK'
BY DEF WireOK, IsAsked

\* An answer that asks for something else.
LEMMA AgainKeepsWire ==
  ASSUME ConsoleAssumption, WireOK, NEW r, NEW kind, NEW what, sentBy < MaxSent[page],
         wire' = (wire \ {r}) \cup {Request(kind, what)}, sentBy' = sentBy + 1,
         UNCHANGED <<page, others>>, kind \in AskedBy(page)
  PROVE  WireOK'
<1>1. sentBy \in Nat /\ MaxSent[page] \in Nat /\ sentBy' <= MaxSent[page]
  BY DEF WireOK, ConsoleAssumption
<1>2. PICK e : /\ e = [n |-> sentBy, kind |-> kind, what |-> what, back |-> None]
               /\ wire' = (wire \ {r}) \cup {e}
  BY DEF Request
<1>3. \A s \in wire' : IsAsked(s)'
  <2>1. \A s \in wire : IsAsked(s)'
    BY <1>1 DEF WireOK, IsAsked
  <2>2. IsAsked(e)'
    BY <1>1, <1>2 DEF IsAsked
  <2> QED BY <1>2, <2>1, <2>2
<1>4. \A s, t \in wire' : s.n = t.n => s = t
  <2>1. \A s \in wire : s.n # e.n
    BY <1>1, <1>2 DEF WireOK, IsAsked
  <2> QED BY <1>2, <2>1 DEF WireOK
<1> QED BY <1>1, <1>3, <1>4 DEF WireOK

LEMMA ServedKeepsWire ==
  ASSUME WireOK, NEW r \in wire, NEW answer, NEW held, Served(r, answer, held)
  PROVE  /\ WireOK'
         /\ \A s \in wire' : \/ s \in wire
                             \/ /\ s.n = r.n /\ s.kind = r.kind /\ s.what = r.what /\ s.back = answer
                                /\ r \notin wire' \/ s = r
<1> DEFINE e == [r EXCEPT !.back = answer]
<1>1. e = [n |-> r.n, kind |-> r.kind, what |-> r.what, back |-> answer]
  BY DEF WireOK, IsAsked
<1>2. wire' = (wire \ {r}) \cup {e} /\ UNCHANGED <<page, tab, sentBy, others>>
  BY DEF Served
<1>3. e.n = r.n /\ e.kind = r.kind /\ e.what = r.what /\ e.back = answer
  BY <1>1
<1>4. IsAsked(e)
  BY <1>1 DEF WireOK, IsAsked
<1>5. \A s \in wire' : IsAsked(s)'
  BY <1>2, <1>4 DEF WireOK, IsAsked
<1> HIDE DEF e
<1>6. \A s, t \in wire' : s.n = t.n => s = t
  BY <1>2, <1>3 DEF WireOK
<1> QED BY <1>2, <1>3, <1>5, <1>6 DEF WireOK

---------------------------------------------------------------------------
(* The import page *)

LEMMA FormKeeps == ASSUME ConsoleAssumption, PagesInv, FormNext PROVE PagesInv'
<1>1. page = "import" /\ UNCHANGED page
  BY DEF FormNext, PickTarget, PickFile, AskMapping, BackToPick, AskPreview, CancelImport, ApplyImport, ImportAgain,
         MappingAnswered, PreviewAnswered, ImportAnswered, Show, Click, Apply, Waits, PagesInv, WireOK, IsAsked,
         AskedBy, ConsoleAssumption
<1>2. FormInv /\ WireOK
  BY <1>1 DEF PagesInv
<1>3. Chosen(tab) \in FormChoices /\ Chosen(tab).file = tab.file
  BY <1>2 DEF FormInv, FormTab, Chosen, FormChoices
<1>4. ASSUME NEW c \in Targets, NEW m \in FormModes, PickTarget(c, m) PROVE WireOK' /\ FormInv'
  BY <1>2, <1>4, ShowKeepsWire DEF PickTarget, Show, FormInv, FormTab
<1>5. ASSUME NEW f \in Uploadable, PickFile(f) PROVE WireOK' /\ FormInv'
  BY <1>2, <1>5, ShowKeepsWire DEF PickFile, Show, FormInv, FormTab
<1>6. ASSUME AskMapping PROVE WireOK' /\ FormInv'
  <2>1. WireOK'
    BY <1>1, <1>2, <1>6, SendKeepsWire DEF AskMapping, Click, AskedBy
  <2>2. PICK e : wire' = {e} /\ e.kind = "map" /\ e.what = Chosen(tab) /\ tab' = [tab EXCEPT !.busy = TRUE]
    BY <1>2, <1>6 DEF AskMapping, Click, Send, Request, FormInv
  <2> QED BY <1>2, <1>3, <1>6, <2>1, <2>2 DEF AskMapping, FormInv, FormTab
<1>7. ASSUME BackToPick PROVE WireOK' /\ FormInv'
  BY <1>2, <1>7, ShowKeepsWire DEF BackToPick, Show, FormInv, FormTab
<1>8. ASSUME AskPreview PROVE WireOK' /\ FormInv'
  <2>1. WireOK'
    BY <1>1, <1>2, <1>8, SendKeepsWire DEF AskPreview, Click, AskedBy
  <2>2. PICK e : wire' = {e} /\ e.kind = "preview" /\ e.what = Chosen(tab) /\ tab' = [tab EXCEPT !.busy = TRUE]
    BY <1>2, <1>8 DEF AskPreview, Click, Send, Request, FormInv
  <2> QED BY <1>2, <1>3, <1>8, <2>1, <2>2 DEF AskPreview, FormInv, FormTab
<1>9. ASSUME CancelImport PROVE WireOK' /\ FormInv'
  BY <1>2, <1>9, ShowKeepsWire DEF CancelImport, LeaveConfirm, Show, FormInv, FormTab
<1>10. ASSUME ApplyImport PROVE WireOK' /\ FormInv'
  <2>1. WireOK'
    BY <1>1, <1>2, <1>10, SendKeepsWire DEF ApplyImport, Click, AskedBy
  <2>2. PICK e : wire' = {e} /\ e.kind = "apply" /\ e.what = Chosen(tab)
    <3>1. wire = {}
      BY <1>2, <1>10 DEF ApplyImport, FormInv
    <3>2. Send("apply", Chosen(tab))
      BY <1>10 DEF ApplyImport, Click
    <3> QED BY <3>1, <3>2, SendAdds
  <2>3. tab' = [tab EXCEPT !.at = "pick", !.preview = None, !.busy = TRUE]
    BY <1>10 DEF ApplyImport, LeaveConfirm, Click
  <2> QED BY <1>2, <1>3, <1>10, <2>1, <2>2, <2>3 DEF ApplyImport, FormInv, FormTab
<1>11. ASSUME ImportAgain PROVE WireOK' /\ FormInv'
  BY <1>2, <1>11, ShowKeepsWire DEF ImportAgain, Show, FormInv, FormTab
<1>12. ASSUME NEW r \in wire, NEW t, Apply(r, t) PROVE WireOK' /\ wire' = {} /\ tab' = t
  BY <1>2, <1>12, ApplyKeepsWire DEF Apply, FormInv
<1>13. ASSUME NEW r \in Waits("map"), NEW ok \in BOOLEAN, MappingAnswered(r, ok) PROVE WireOK' /\ FormInv'
  <2>1. WireOK' /\ wire' = {} /\ tab' = [tab EXCEPT !.busy = FALSE, !.at = IF ok THEN "map" ELSE @]
    BY <1>12, <1>13 DEF MappingAnswered, Waits
  <2>2. tab.busy
    BY <1>2, <1>13 DEF FormInv, Waits
  <2> QED BY <1>2, <2>1, <2>2 DEF FormInv, FormTab
<1>14. ASSUME NEW r \in Waits("preview"), NEW how \in {"ok", "refused", "lost"}, PreviewAnswered(r, how)
       PROVE  WireOK' /\ FormInv'
  <2>1. r \in wire /\ r.what \in FormChoices /\ r.what.file = tab.file /\ tab.busy
    BY <1>2, <1>14 DEF FormInv, Waits
  <2>2. /\ WireOK' /\ wire' = {}
        /\ tab' = CASE how = "lost" -> [tab EXCEPT !.busy = FALSE]
                    [] how = "refused" -> [tab EXCEPT !.busy = FALSE, !.at = "result", !.result = r.what]
                    [] OTHER -> [tab EXCEPT !.busy = FALSE, !.at = "confirm", !.preview = [of |-> r.what, ok |-> TRUE]]
    BY <1>12, <1>14, <2>1 DEF PreviewAnswered
  <2>3. CASE how = "lost"
    BY <1>2, <2>1, <2>2, <2>3 DEF FormInv, FormTab
  <2>4. CASE how = "refused"
    BY <1>2, <2>1, <2>2, <2>4 DEF FormInv, FormTab
  <2>5. CASE how = "ok"
    <3> DEFINE p == [of |-> r.what, ok |-> TRUE]
    <3>1. p \in Previews /\ p.ok /\ p.of = r.what
      BY <2>1 DEF Previews
    <3>2. tab' = [tab EXCEPT !.busy = FALSE, !.at = "confirm", !.preview = p]
      BY <2>2, <2>5
    <3> HIDE DEF p
    <3>3. p # None
      BY <3>1 DEF ConsoleAssumption
    <3> QED BY <1>2, <2>1, <2>2, <3>1, <3>2, <3>3 DEF FormInv, FormTab
  <2> QED BY <2>3, <2>4, <2>5
<1>15. ASSUME NEW r \in Waits("apply"), NEW answered \in BOOLEAN, ImportAnswered(r, answered) PROVE WireOK' /\ FormInv'
  <2>1. /\ WireOK' /\ wire' = {} /\ r.what \in FormChoices /\ tab.busy
        /\ tab' = IF answered THEN [tab EXCEPT !.busy = FALSE, !.at = "result", !.result = r.what]
                              ELSE [tab EXCEPT !.busy = FALSE]
    BY <1>2, <1>12, <1>15 DEF ImportAnswered, Waits, FormInv
  <2> QED BY <1>2, <2>1 DEF FormInv, FormTab
<1>16. WireOK' /\ FormInv'
  BY <1>4, <1>5, <1>6, <1>7, <1>8, <1>9, <1>10, <1>11, <1>13, <1>14, <1>15 DEF FormNext
<1> QED BY <1>1, <1>16 DEF PagesInv

---------------------------------------------------------------------------
(* The data browser *)

LEMMA ReadIs ==
  \A f \in Words \cup {""}, k \in PageSizes, offset, n \in Nat :
    [filter |-> f, limit |-> k, offset |-> offset, n |-> n] \in BrowserReads
BY DEF BrowserReads

LEMMA CutIs == \A a, b \in Nat : (IF a > b THEN a - b ELSE 0) \in Nat
OBVIOUS

LEMMA PageIs == ASSUME ConsoleAssumption, NEW spec \in BrowserReads PROVE PageOf(spec) \in Nat
<1>1. spec.limit \in Nat /\ spec.offset \in Nat /\ Total \in Nat
  BY DEF BrowserReads, ConsoleAssumption
<1>2. (IF Total > spec.offset THEN Total - spec.offset ELSE 0) \in Nat
  BY <1>1, CutIs
<1> QED BY <1>1, <1>2 DEF PageOf

LEMMA ResultIs ==
  ASSUME ConsoleAssumption, NEW spec \in BrowserReads, NEW ok \in BOOLEAN, NEW count \in Nat
  PROVE  /\ [of |-> spec, ok |-> ok, count |-> count] \in BrowserResults
         /\ [of |-> spec, ok |-> ok, count |-> count] # None
<1>1. [of |-> spec, ok |-> ok, count |-> count] \in BrowserResults
  BY DEF BrowserResults
<1> QED BY <1>1 DEF ConsoleAssumption

LEMMA BrowserKeeps == ASSUME ConsoleAssumption, PagesInv, BrowserNext PROVE PagesInv'
<1>1. page = "browse" /\ UNCHANGED page
  BY DEF BrowserNext, Spell, RunQuery, ReadPage, NextDocuments, PreviousDocuments, AskGrant, GrantAnswered,
         ReadAnswered, Show, Click, Apply, Waits, PagesInv, WireOK, IsAsked, AskedBy, ConsoleAssumption
<1>2. BrowserInv /\ WireOK
  BY <1>1 DEF PagesInv
<1> DEFINE Good == WireOK' /\ BrowserInv'
<1>3. ASSUME NEW f \in Words, NEW k \in PageSizes, Spell(f, k) PROVE Good
  BY <1>2, <1>3, ShowKeepsWire DEF Spell, Show, BrowserInv, BrowserTab, ShownIsAsked
<1>4. ASSUME NEW f \in Words \cup {""}, NEW k \in PageSizes, NEW offset \in Nat, ReadPage(f, k, offset) PROVE Good
  <2>1. WireOK'
    BY <1>1, <1>2, <1>4, SendKeepsWire DEF ReadPage, Click, AskedBy
  <2> DEFINE spec == [filter |-> f, limit |-> k, offset |-> offset, n |-> sentBy]
  <2>2. PICK e :
          /\ wire' = wire \cup {e} /\ e.what = spec
          /\ tab' = [tab EXCEPT !.spec = spec, !.loading = TRUE]
    BY <1>4 DEF ReadPage, Click, Send, Request
  <2>3. spec \in BrowserReads
    <3>1. sentBy \in Nat
      BY <1>2 DEF WireOK
    <3> QED BY <3>1, ReadIs
  <2> HIDE DEF spec
  <2> QED BY <1>2, <2>1, <2>2, <2>3 DEF BrowserInv, BrowserTab, ShownIsAsked
<1>5. tab.wants.filter \in Words \cup {""} /\ tab.wants.limit \in PageSizes /\ tab.wants.limit \in Nat
  BY <1>2 DEF BrowserInv, BrowserTab, ConsoleAssumption
<1>6. tab.spec # None => tab.spec.filter \in Words \cup {""} /\ tab.spec.limit \in PageSizes /\ tab.spec.offset \in Nat
  BY <1>2 DEF BrowserInv, BrowserTab, BrowserReads
<1>7. ASSUME NEW enter \in BOOLEAN, RunQuery(enter) PROVE Good
  BY <1>4, <1>5, <1>7 DEF RunQuery
<1>8. ASSUME NextDocuments PROVE Good
  <2>1. tab.spec # None /\ ReadPage(tab.spec.filter, tab.spec.limit, tab.spec.offset + tab.wants.limit)
    BY <1>8 DEF NextDocuments
  <2>2. tab.spec.offset + tab.wants.limit \in Nat
    <3>1. tab.spec.offset \in Nat /\ tab.wants.limit \in Nat
      BY <1>5, <1>6, <2>1
    <3> QED BY <3>1
  <2> QED BY <1>4, <1>6, <2>1, <2>2
<1>9. ASSUME PreviousDocuments PROVE Good
  <2> DEFINE to == IF tab.spec.offset > tab.wants.limit THEN tab.spec.offset - tab.wants.limit ELSE 0
  <2>1. tab.spec # None /\ ReadPage(tab.spec.filter, tab.spec.limit, to)
    BY <1>9 DEF PreviousDocuments
  <2>2. to \in Nat
    BY <1>5, <1>6, <2>1, CutIs
  <2> HIDE DEF to
  <2> QED BY <1>4, <1>6, <2>1, <2>2
<1>10. ASSUME AskGrant PROVE Good
  <2>1. WireOK'
    BY <1>1, <1>2, <1>10, SendKeepsWire DEF AskGrant, Click, AskedBy
  <2>2. PICK e : wire' = wire \cup {e} /\ e.kind = "grant" /\ tab' = [tab EXCEPT !.requesting = TRUE]
    BY <1>10 DEF AskGrant, Click, Send, Request
  <2> QED BY <1>1, <1>2, <2>1, <2>2 DEF BrowserInv, BrowserTab, ShownIsAsked
<1>11. ASSUME NEW r \in Waits("grant"), NEW ok \in BOOLEAN, GrantAnswered(r, ok) PROVE Good
  <2>1. /\ WireOK' /\ wire' \subseteq wire
        /\ tab' = IF ok THEN [tab EXCEPT !.requesting = FALSE, !.granted = TRUE, !.wants.filter = "", !.spec = None,
                                         !.result = None]
                        ELSE [tab EXCEPT !.requesting = FALSE]
    BY <1>2, <1>11, ApplyKeepsWire DEF GrantAnswered, Apply
  <2> QED BY <1>1, <1>2, <2>1 DEF BrowserInv, BrowserTab, ShownIsAsked
<1>12. ASSUME NEW r \in Waits("read"), NEW ok \in BOOLEAN, ReadAnswered(r, ok) PROVE Good
  <2> DEFINE result == [of |-> r.what, ok |-> ok, count |-> PageOf(r.what)]
  <2>1. r.what \in BrowserReads
    BY <1>2, <1>12 DEF BrowserInv, Waits
  <2>2. PageOf(r.what) \in Nat
    BY <2>1, PageIs
  <2>3. result \in BrowserResults /\ result.of = r.what /\ result # None
    BY <2>1, <2>2, ResultIs
  <2>4. /\ WireOK' /\ wire' \subseteq wire
        /\ tab' = IF r.what = tab.spec THEN [tab EXCEPT !.loading = FALSE, !.result = result] ELSE tab
    BY <1>2, <1>12, ApplyKeepsWire DEF ReadAnswered, Apply
  <2> HIDE DEF result
  <2> QED BY <1>1, <1>2, <2>1, <2>3, <2>4 DEF BrowserInv, BrowserTab, ShownIsAsked
<1>13. Good
  BY <1>3, <1>7, <1>8, <1>9, <1>10, <1>11, <1>12 DEF BrowserNext
<1> QED BY <1>1, <1>13 DEF PagesInv

---------------------------------------------------------------------------
(* The audit page *)

LEMMA AuditKeeps == ASSUME ConsoleAssumption, PagesInv, AuditNext PROVE PagesInv'
<1>1. page = "audit" /\ UNCHANGED page
  BY DEF AuditNext, ChooseFilter, TurnPage, UpdateParam, RouterLands, EventsAnswered, Show, Click, Apply, Waits,
         PagesInv, WireOK, IsAsked, AskedBy, ConsoleAssumption
<1>2. AuditInv /\ WireOK
  BY <1>1 DEF PagesInv
<1> DEFINE Good == WireOK' /\ AuditInv'
<1>3. ASSUME NEW key \in Params \cup {"offset"}, NEW value \in Words \cup {""}, NEW v, UpdateParam(key, v),
             key # "offset" => v = value
      PROVE  Good
  <2> DEFINE at == IF tab.pending = None THEN tab.params ELSE tab.pending
             next == Updated(at, key, v)
             chosen == IF key = "offset" THEN tab.intent ELSE [tab.intent EXCEPT ![key] = v]
  <2>1. at = tab.asked /\ at \in Addresses /\ at.filters = tab.intent
    BY <1>2 DEF AuditInv, AuditTab
  <2>2. chosen \in [Params -> Words \cup {""}]
    BY <1>2, <1>3 DEF AuditInv, AuditTab
  <2>3. next = [filters |-> chosen, offset |-> 0]
    BY <2>1 DEF Updated
  <2>4. Show([tab EXCEPT !.asked = next, !.pending = next, !.intent = chosen])
    BY <1>2, <1>3 DEF UpdateParam, AuditInv, AuditTab
  <2> HIDE DEF next, chosen
  <2>5. next \in Addresses /\ next.filters = chosen
    BY <2>2, <2>3 DEF Addresses
  <2>6. next # None
    BY <2>5 DEF ConsoleAssumption
  <2> QED BY <1>2, <2>4, <2>2, <2>5, <2>6, ShowKeepsWire DEF Show, AuditInv, AuditTab
<1>4. ASSUME NEW key \in Params, NEW value \in Words, ChooseFilter(key, value) PROVE Good
  BY <1>3, <1>4 DEF ChooseFilter
<1>5. ASSUME TurnPage PROVE Good
  BY <1>3, <1>5 DEF TurnPage
<1>6. ASSUME RouterLands PROVE Good
  <2>1. WireOK'
    BY <1>1, <1>2, <1>6, SendKeepsWire DEF RouterLands, Click, AskedBy
  <2>2. PICK e : /\ wire' = wire \cup {e} /\ e.what = tab.asked
                 /\ tab' = [tab EXCEPT !.params = tab.asked, !.pending = None, !.loading = TRUE]
    BY <1>6 DEF RouterLands, Click, Send, Request
  <2> QED BY <1>2, <2>1, <2>2 DEF AuditInv, AuditTab
<1>7. ASSUME NEW r \in Waits("events"), NEW ok \in BOOLEAN, NEW more \in BOOLEAN, EventsAnswered(r, ok, more) PROVE Good
  <2>1. /\ WireOK' /\ wire' \subseteq wire
        /\ tab' = IF ok THEN [tab EXCEPT !.loading = FALSE, !.events = [of |-> r.what, more |-> more]]
                        ELSE [tab EXCEPT !.loading = FALSE]
    BY <1>2, <1>7, ApplyKeepsWire DEF EventsAnswered, Apply
  <2>2. r.what \in Addresses
    BY <1>2, <1>7 DEF AuditInv, Waits
  <2> QED BY <1>2, <2>1, <2>2 DEF AuditInv, AuditTab
<1>8. Good
  BY <1>4, <1>5, <1>6, <1>7 DEF AuditNext
<1> QED BY <1>1, <1>8 DEF PagesInv

---------------------------------------------------------------------------
(* The sheet of an approval *)

LEMMA SheetKeeps == ASSUME ConsoleAssumption, PagesInv, SheetNext PROVE PagesInv'
<1>1. page = "approve" /\ UNCHANGED page
  BY DEF SheetNext, OpenRequest, ToggleField, ToggleUnmasked, PickTerm, ActOn, CloseSheet, TermsAnswered, ActAnswered,
         Show, Click, Apply, Waits, PagesInv, WireOK, IsAsked, AskedBy, ConsoleAssumption
<1>2. SheetInv /\ WireOK
  BY <1>1 DEF PagesInv
<1> DEFINE Good == WireOK' /\ SheetInv'
           Fields_ == UNION {AskedFor[g] : g \in DOMAIN AskedFor}
           Terms_ == UNION {VocabularyOf[g] : g \in DOMAIN VocabularyOf}
<1>3. tab \in [grant : DOMAIN AskedFor \cup {None}, open : BOOLEAN, busy : BOOLEAN, fields : SUBSET Fields_,
               unmasked : SUBSET Fields_, vocabulary : DOMAIN AskedFor \cup {None}, terms : SUBSET Terms_]
  BY <1>2 DEF SheetInv, SheetTab
\* A tab that fits what is on its way.
<1> DEFINE Fits == /\ tab' \in SheetTab
                   /\ (tab'.open => tab'.grant \in DOMAIN AskedFor)
                   /\ (tab'.grant \in DOMAIN AskedFor => tab'.fields \subseteq AskedFor[tab'.grant])
                   /\ tab'.unmasked \subseteq tab'.fields
<1>4. ASSUME Fits, WireOK', wire' \subseteq wire PROVE Good
  BY <1>1, <1>2, <1>4 DEF SheetInv, TrimmedOnly, Waits
<1>5. ASSUME NEW g \in DOMAIN AskedFor, OpenRequest(g) PROVE Good
  <2>1. CASE g = tab.grant
    <3>1. Show([tab EXCEPT !.open = TRUE])
      BY <1>5, <2>1 DEF OpenRequest
    <3>2. Fits
      BY <1>2, <1>5, <2>1, <3>1 DEF Show, SheetInv, SheetTab
    <3> QED BY <1>2, <1>4, <3>1, <3>2, ShowKeepsWire DEF Show
  <2>2. CASE g # tab.grant
    <3> DEFINE t == [grant |-> g, open |-> TRUE, busy |-> tab.busy, fields |-> AskedFor[g], unmasked |-> {},
                     vocabulary |-> None, terms |-> {}]
    <3>1. tab' = t
      BY <1>5, <2>2 DEF OpenRequest, SheetStart
    <3>2. AskedFor[g] \in SUBSET Fields_
      OBVIOUS
    <3>3. /\ t \in SheetTab /\ t.open /\ t.grant = g /\ t.fields = AskedFor[g] /\ t.unmasked = {}
      BY <1>3, <3>2 DEF SheetTab
    <3> HIDE DEF t
    <3>4. CASE UNCHANGED <<sentBy, wire>>
      BY <1>2, <1>4, <1>5, <2>2, <3>1, <3>3, <3>4, ShowKeepsWire DEF OpenRequest
    <3>5. CASE Send("terms", [grant |-> g])
      <4>1. WireOK'
        BY <1>1, <1>2, <1>5, <2>2, <3>5, SendKeepsWire DEF OpenRequest, AskedBy
      <4>2. PICK e : wire' = wire \cup {e} /\ e.kind = "terms" /\ e.what.grant = g
        <5>1. PICK e : e.kind = "terms" /\ e.what = [grant |-> g] /\ wire' = wire \cup {e}
          BY <3>5, SendAdds
        <5>2. e.what.grant = g
          BY <5>1
        <5> QED BY <5>1, <5>2
      <4> QED BY <1>1, <1>2, <3>1, <3>3, <4>1, <4>2 DEF SheetInv, TrimmedOnly, Waits
    <3> QED BY <1>5, <2>2, <3>4, <3>5 DEF OpenRequest
  <2> QED BY <2>1, <2>2
<1>6. ASSUME NEW f \in Fields_, ToggleField(f) PROVE Good
  <2>1. /\ f \in AskedFor[tab.grant] /\ tab.open
        /\ Show(IF f \in tab.fields THEN [tab EXCEPT !.fields = tab.fields \ {f}, !.unmasked = tab.unmasked \ {f}]
                                    ELSE [tab EXCEPT !.fields = tab.fields \cup {f}])
    BY <1>3, <1>6 DEF ToggleField
  <2>2. CASE f \in tab.fields
    <3>1. Fits
      BY <1>2, <2>1, <2>2 DEF Show, SheetInv, SheetTab
    <3> QED BY <1>2, <1>4, <2>1, <2>2, <3>1, ShowKeepsWire DEF Show
  <2>3. CASE f \notin tab.fields
    <3>1. Fits
      BY <1>2, <2>1, <2>3 DEF Show, SheetInv, SheetTab
    <3> QED BY <1>2, <1>4, <2>1, <2>3, <3>1, ShowKeepsWire DEF Show
  <2> QED BY <2>2, <2>3
<1>7. ASSUME NEW f \in Fields_, ToggleUnmasked(f) PROVE Good
  <2> DEFINE u == IF f \in tab.unmasked THEN tab.unmasked \ {f} ELSE tab.unmasked \cup {f}
  <2>1. f \in tab.fields /\ Show([tab EXCEPT !.unmasked = u])
    BY <1>3, <1>7 DEF ToggleUnmasked
  <2>2. u \in SUBSET Fields_ /\ u \subseteq tab.fields
    BY <1>2, <1>3, <2>1 DEF SheetInv
  <2> HIDE DEF u
  <2>3. Fits
    BY <1>2, <2>1, <2>2 DEF Show, SheetInv, SheetTab
  <2> QED BY <1>2, <1>4, <2>1, <2>3, ShowKeepsWire DEF Show
<1>8. ASSUME NEW t \in Terms_, PickTerm(t) PROVE Good
  <2>1. Show([tab EXCEPT !.terms = tab.terms \cup {t}])
    BY <1>3, <1>8 DEF PickTerm
  <2>2. Fits
    BY <1>2, <2>1 DEF Show, SheetInv, SheetTab
  <2> QED BY <1>2, <1>4, <2>1, <2>2, ShowKeepsWire DEF Show
<1>9. ASSUME NEW action \in {"approve", "deny"}, ActOn(action) PROVE Good
  <2>1. WireOK'
    BY <1>1, <1>2, <1>9, SendKeepsWire DEF ActOn, Click, AskedBy
  <2>2. PICK e :
          /\ wire' = wire \cup {e} /\ e.kind = action
          /\ e.what.grant = tab.grant /\ e.what.fields = tab.fields /\ e.what.unmasked = tab.unmasked
          /\ tab' = [tab EXCEPT !.busy = TRUE]
    <3> DEFINE what == [grant |-> tab.grant, fields |-> tab.fields, unmasked |-> tab.unmasked, terms |-> tab.terms]
    <3>1. what.grant = tab.grant /\ what.fields = tab.fields /\ what.unmasked = tab.unmasked
      OBVIOUS
    <3>2. Send(action, what) /\ tab' = [tab EXCEPT !.busy = TRUE]
      BY <1>9 DEF ActOn, Click
    <3> HIDE DEF what
    <3> QED BY <3>1, <3>2, SendAdds
  <2>3. tab.open /\ tab.fields \subseteq AskedFor[tab.grant]
    BY <1>2, <1>9 DEF ActOn, SheetInv
  <2> QED BY <1>1, <1>2, <2>1, <2>2, <2>3 DEF SheetInv, SheetTab, TrimmedOnly, Waits
<1>10. ASSUME CloseSheet PROVE Good
  <2>1. Show([tab EXCEPT !.open = FALSE])
    BY <1>10 DEF CloseSheet
  <2>2. Fits
    BY <1>2, <2>1 DEF Show, SheetInv, SheetTab
  <2> QED BY <1>2, <1>4, <2>1, <2>2, ShowKeepsWire DEF Show
<1>11. ASSUME NEW r \in Waits("terms"), NEW ok \in BOOLEAN, TermsAnswered(r, ok) PROVE Good
  <2>1. /\ WireOK' /\ wire' \subseteq wire
        /\ tab' = IF ok THEN [tab EXCEPT !.vocabulary = r.what.grant, !.terms = {}] ELSE tab
    BY <1>2, <1>11, ApplyKeepsWire DEF TermsAnswered, Apply
  <2>2. r.what.grant \in DOMAIN AskedFor
    BY <1>2, <1>11 DEF SheetInv, Waits
  <2>3. Fits
    BY <1>2, <2>1, <2>2 DEF SheetInv, SheetTab
  <2> QED BY <1>4, <2>1, <2>3
<1>12. ASSUME NEW r \in Waits("approve") \cup Waits("deny"), NEW ok \in BOOLEAN, ActAnswered(r, ok) PROVE Good
  <2>1. /\ WireOK' /\ wire' \subseteq wire
        /\ tab' = [tab EXCEPT !.busy = FALSE, !.open = IF ok THEN FALSE ELSE tab.open]
    BY <1>2, <1>3, <1>12, ApplyKeepsWire DEF ActAnswered, Apply
  <2>2. Fits
    BY <1>2, <2>1 DEF SheetInv, SheetTab
  <2> QED BY <1>4, <2>1, <2>2
<1>13. Good
  BY <1>5, <1>6, <1>7, <1>8, <1>9, <1>10, <1>11, <1>12 DEF SheetNext
<1> QED BY <1>1, <1>13 DEF PagesInv

---------------------------------------------------------------------------
(* The access list of a document *)

\* The server stores a list, or nothing; it forgets no list that it once held.
HeldLists(s) ==
  /\ s = [acl |-> s.acl, past |-> s.past]
  /\ s.acl \in [Papers -> SUBSET People_] /\ s.past \in [Papers -> SUBSET SUBSET People_]
  /\ \A d \in Papers : s.acl[d] \in s.past[d]

LEMMA StoredIs ==
  ASSUME NEW a, NEW p, NEW d, NEW x, NEW y, NEW s, s = [acl |-> a, past |-> p], NEW e,
         e = [s EXCEPT !.acl[d] = x, !.past[d] = @ \cup {y}]
  PROVE  e = [acl |-> [a EXCEPT ![d] = x], past |-> [p EXCEPT ![d] = p[d] \cup {y}]]
<1>1. e.acl = [a EXCEPT ![d] = x]
  OBVIOUS
<1>2. e.past = [p EXCEPT ![d] = p[d] \cup {y}]
  OBVIOUS
<1>3. e = [acl |-> e.acl, past |-> e.past]
  OBVIOUS
<1> QED BY <1>1, <1>2, <1>3

LEMMA StoredHolds ==
  ASSUME HeldLists(store), NEW d \in Papers, NEW list \in SUBSET People_
  PROVE  /\ HeldLists(Stored(d, list))
         /\ \A x \in Papers : store.past[x] \subseteq Stored(d, list).past[x]
         /\ list \in Stored(d, list).past[d]
<1> DEFINE acl == [store.acl EXCEPT ![d] = list]
           past == [store.past EXCEPT ![d] = store.past[d] \cup {list}]
<1>1. Stored(d, list) = [acl |-> acl, past |-> past]
  <2>1. PICK e, a, p : e = Stored(d, list) /\ a = store.acl /\ p = store.past
    OBVIOUS
  <2>2. store = [acl |-> a, past |-> p]
    BY <2>1 DEF HeldLists
  <2>3. e = [store EXCEPT !.acl[d] = list, !.past[d] = @ \cup {list}]
    BY <2>1 DEF Stored
  <2>4. e = [acl |-> [a EXCEPT ![d] = list], past |-> [p EXCEPT ![d] = p[d] \cup {list}]]
    BY <2>2, <2>3, StoredIs
  <2> QED BY <2>1, <2>4
<1>2. acl \in [Papers -> SUBSET People_] /\ past \in [Papers -> SUBSET SUBSET People_]
  BY DEF HeldLists
<1>3. \A x \in Papers : acl[x] \in past[x] /\ store.past[x] \subseteq past[x]
  BY DEF HeldLists
<1>4. list \in past[d]
  BY DEF HeldLists
<1> HIDE DEF acl, past
<1> QED BY <1>1, <1>2, <1>3, <1>4 DEF HeldLists

\* What an answer of the access list brings.
Brings(r, s) ==
  r.back # None /\ r.back.ok => r.back.paper \in Papers /\ r.back.list \in s.past[r.back.paper]
AclAsk(r, s) == r.what.paper \in Papers /\ (r.kind = "save" => r.what.list \in SUBSET People_) /\ Brings(r, s)
AclShows(t, s) == t \in AclTab /\ (t.acl # None => t.acl.list \in s.past[t.acl.paper])

LEMMA AclInvIs == AclInv <=> HeldLists(store) /\ AclShows(tab, store) /\ \A r \in wire : AclAsk(r, store)
BY DEF AclInv, HeldLists, AclShows, AclAsk, Brings

LEMMA AclKeeps == ASSUME ConsoleAssumption, PagesInv, AclNext PROVE PagesInv'
<1>1. page = "acl" /\ UNCHANGED page
  BY DEF AclNext, TypePaper, LoadAcl, SaveAcl, ServeLoad, ServeSave, AclAnswered, OtherAcl, Served,
         Show, Click, Apply, Waits, PagesInv, WireOK, IsAsked, AskedBy, ConsoleAssumption
<1>2. AclInv /\ WireOK
  BY <1>1 DEF PagesInv
<1>3. HeldLists(store) /\ AclShows(tab, store) /\ \A r \in wire : AclAsk(r, store)
  BY <1>2, AclInvIs
<1> DEFINE Holds == HeldLists(store') /\ AclShows(tab', store') /\ \A r \in wire' : AclAsk(r, store')
           Good == WireOK' /\ Holds
           Grows == HeldLists(store') /\ \A x \in Papers : store.past[x] \subseteq store'.past[x]
<1>4. ASSUME Grows, UNCHANGED tab PROVE AclShows(tab', store') /\ \A r \in wire : AclAsk(r, store')
  BY <1>3, <1>4 DEF AclShows, AclTab, AclAsk, Brings
<1>5. ASSUME NEW d \in Papers, TypePaper(d) PROVE Good
  <2>1. Show([tab EXCEPT !.paper = d])
    BY <1>5 DEF TypePaper
  <2>2. WireOK' /\ UNCHANGED <<store, wire>>
    BY <1>2, <2>1, ShowKeepsWire DEF Show
  <2>3. AclShows(tab', store)
    BY <1>3, <2>1 DEF Show, AclShows, AclTab
  <2> QED BY <1>3, <2>2, <2>3
<1>6. ASSUME NEW enter \in BOOLEAN, LoadAcl(enter) PROVE Good
  <2>1. WireOK' /\ UNCHANGED store
    BY <1>1, <1>2, <1>6, SendKeepsWire DEF LoadAcl, Click, AskedBy
  <2>2. PICK e : e.kind = "load" /\ e.what = [paper |-> tab.paper] /\ e.back = None /\ wire' = wire \cup {e}
    BY <1>6, SendAdds DEF LoadAcl, Click
  <2>3. AclAsk(e, store)
    BY <1>3, <2>2 DEF AclAsk, Brings, AclShows, AclTab
  <2>4. AclShows(tab', store)
    BY <1>3, <1>6 DEF LoadAcl, Click, AclShows, AclTab
  <2> QED BY <1>3, <2>1, <2>2, <2>3, <2>4
<1>7. ASSUME NEW list \in SUBSET People_, SaveAcl(list) PROVE Good
  <2>1. WireOK' /\ UNCHANGED store
    BY <1>1, <1>2, <1>7, SendKeepsWire DEF SaveAcl, Click, AskedBy
  <2>2. PICK e : e.kind = "save" /\ e.what = [paper |-> tab.paper, list |-> list] /\ e.back = None /\ wire' = wire \cup {e}
    BY <1>7, SendAdds DEF SaveAcl, Click
  <2>3. AclAsk(e, store)
    BY <1>3, <2>2 DEF AclAsk, Brings, AclShows, AclTab
  <2>4. AclShows(tab', store)
    BY <1>3, <1>7 DEF SaveAcl, Click, AclShows, AclTab
  <2> QED BY <1>3, <2>1, <2>2, <2>3, <2>4
\* The server has served a request.
<1>8. ASSUME NEW r \in wire, NEW answer, NEW s, Served(r, answer, s), HeldLists(s),
             \A x \in Papers : store.past[x] \subseteq s.past[x],
             answer.ok => answer.paper \in Papers /\ answer.list \in s.past[answer.paper]
      PROVE  Good
  <2>1. store' = s /\ UNCHANGED tab
    BY <1>8 DEF Served
  <2>2. AclShows(tab', store') /\ \A q \in wire : AclAsk(q, store')
    BY <1>4, <1>8, <2>1
  <2>3. ASSUME NEW q \in wire', q \notin wire PROVE AclAsk(q, store')
    <3>1. q.kind = r.kind /\ q.what = r.what /\ q.back = answer
      BY <1>2, <1>8, <2>3, ServedKeepsWire
    <3> QED BY <1>3, <1>8, <2>1, <3>1 DEF AclAsk, Brings
  <2>4. WireOK'
    BY <1>2, <1>8, ServedKeepsWire
  <2> QED BY <1>8, <2>1, <2>2, <2>3, <2>4
<1>9. ASSUME NEW r \in Waits("load"), NEW ok \in BOOLEAN, ServeLoad(r, ok) PROVE Good
  <2>1. r \in wire /\ r.what.paper \in Papers
    BY <1>3, <1>9 DEF Waits, AclAsk
  <2>2. CASE ok
    <3> DEFINE answer == [ok |-> TRUE, paper |-> r.what.paper, list |-> store.acl[r.what.paper]]
    <3>1. Served(r, answer, store)
      BY <1>9, <2>2 DEF ServeLoad
    <3>2. answer.paper \in Papers /\ answer.list \in store.past[answer.paper]
      BY <1>3, <2>1 DEF HeldLists
    <3> HIDE DEF answer
    <3> QED BY <1>3, <1>8, <2>1, <3>1, <3>2
  <2>3. CASE ~ok
    <3>1. Served(r, [ok |-> FALSE], store)
      BY <1>9, <2>3 DEF ServeLoad
    <3> QED BY <1>3, <1>8, <2>1, <3>1
  <2> QED BY <2>2, <2>3
<1>10. ASSUME NEW r \in Waits("save"), NEW ok \in BOOLEAN, ServeSave(r, ok) PROVE Good
  <2>1. r \in wire /\ r.what.paper \in Papers /\ r.what.list \in SUBSET People_
    BY <1>3, <1>10 DEF Waits, AclAsk
  <2>2. CASE ok
    <3> DEFINE answer == [ok |-> TRUE, paper |-> r.what.paper, list |-> r.what.list]
               s == Stored(r.what.paper, r.what.list)
    <3>1. Served(r, answer, s)
      BY <1>10, <2>2 DEF ServeSave
    <3>2. HeldLists(s) /\ (\A x \in Papers : store.past[x] \subseteq s.past[x]) /\ r.what.list \in s.past[r.what.paper]
      BY <1>3, <2>1, StoredHolds
    <3>3. answer.paper = r.what.paper /\ answer.list = r.what.list
      OBVIOUS
    <3> HIDE DEF answer, s
    <3> QED BY <1>8, <2>1, <3>1, <3>2, <3>3
  <2>3. CASE ~ok
    <3>1. Served(r, [ok |-> FALSE], store)
      BY <1>10, <2>3 DEF ServeSave
    <3> QED BY <1>3, <1>8, <2>1, <3>1
  <2> QED BY <2>2, <2>3
<1>11. ASSUME NEW r \in Waits("load") \cup Waits("save"), r.back # None, AclAnswered(r) PROVE Good
  <2>1. r \in wire /\ AclAsk(r, store)
    BY <1>3, <1>11 DEF Waits
  <2> DEFINE got == [paper |-> r.back.paper, list |-> r.back.list]
  <2>2. r.back.ok => got \in [paper : Papers, list : SUBSET People_] /\ got.list \in store.past[got.paper]
    <3>1. r.back.ok => r.back.paper \in Papers /\ r.back.list \in store.past[r.back.paper]
      BY <1>11, <2>1 DEF AclAsk, Brings
    <3>2. store.past \in [Papers -> SUBSET SUBSET People_]
      BY <1>3 DEF HeldLists
    <3> QED BY <3>1, <3>2
  <2>3. Apply(r, IF r.kind = "save" THEN [tab EXCEPT !.saving = FALSE, !.acl = IF r.back.ok THEN got ELSE tab.acl]
                                    ELSE [tab EXCEPT !.loading = FALSE, !.acl = IF r.back.ok THEN got ELSE None])
    BY <1>3, <1>11 DEF AclAnswered, AclShows, AclTab
  <2> HIDE DEF got
  <2>4. WireOK' /\ wire' \subseteq wire /\ UNCHANGED store
    BY <1>2, <2>3, ApplyKeepsWire DEF Apply
  <2>5. AclShows(tab', store)
    <3>1. CASE r.back.ok
      BY <1>3, <2>2, <2>3, <3>1 DEF Apply, AclShows, AclTab
    <3>2. CASE ~r.back.ok
      BY <1>3, <2>3, <3>2 DEF Apply, AclShows, AclTab
    <3> QED BY <3>1, <3>2
  <2> QED BY <1>3, <2>4, <2>5
<1>12. ASSUME NEW d \in Papers, NEW list \in SUBSET People_, OtherAcl(d, list) PROVE Good
  <2>1. WireOK'
    BY <1>2, <1>12 DEF OtherAcl, WireOK, IsAsked, ConsoleAssumption
  <2>2. store' = Stored(d, list) /\ UNCHANGED <<tab, wire>>
    BY <1>12 DEF OtherAcl
  <2>3. Grows
    BY <1>3, <2>2, StoredHolds
  <2> QED BY <1>4, <2>1, <2>2, <2>3
<1>13. Good
  BY <1>5, <1>6, <1>7, <1>9, <1>10, <1>11, <1>12 DEF AclNext
<1>14. AclInv'
  BY <1>13 DEF AclInv, HeldLists, AclShows, AclAsk, Brings
<1> QED BY <1>1, <1>13, <1>14 DEF PagesInv

---------------------------------------------------------------------------
(* A list with an action on each row *)

HeldRows(s) ==
  /\ s = [rows |-> s.rows, past |-> s.past]
  /\ s.rows \in [Lines -> Edited] /\ s.past \in [Lines -> SUBSET Edited]
  /\ \A l \in Lines : s.rows[l] \in s.past[l]

LEMMA ActedIs ==
  ASSUME NEW a, NEW p, NEW d, NEW x, NEW y, NEW s, s = [rows |-> a, past |-> p], NEW e,
         e = [s EXCEPT !.rows[d] = x, !.past[d] = @ \cup {y}]
  PROVE  e = [rows |-> [a EXCEPT ![d] = x], past |-> [p EXCEPT ![d] = p[d] \cup {y}]]
<1>1. e.rows = [a EXCEPT ![d] = x]
  OBVIOUS
<1>2. e.past = [p EXCEPT ![d] = p[d] \cup {y}]
  OBVIOUS
<1>3. e = [rows |-> e.rows, past |-> e.past]
  OBVIOUS
<1> QED BY <1>1, <1>2, <1>3

Acted(l, v) == [store EXCEPT !.rows[l] = v, !.past[l] = @ \cup {v}]

LEMMA RowsHold ==
  ASSUME HeldRows(store), NEW l \in Lines, NEW v \in Edited
  PROVE  HeldRows(Acted(l, v)) /\ \A x \in Lines : store.past[x] \subseteq Acted(l, v).past[x]
<1> DEFINE rowsNow == [store.rows EXCEPT ![l] = v]
           past == [store.past EXCEPT ![l] = store.past[l] \cup {v}]
<1>1. Acted(l, v) = [rows |-> rowsNow, past |-> past]
  <2>1. PICK e, a, p : e = Acted(l, v) /\ a = store.rows /\ p = store.past
    OBVIOUS
  <2>2. store = [rows |-> a, past |-> p]
    BY <2>1 DEF HeldRows
  <2>3. e = [store EXCEPT !.rows[l] = v, !.past[l] = @ \cup {v}]
    BY <2>1 DEF Acted
  <2>4. e = [rows |-> [a EXCEPT ![l] = v], past |-> [p EXCEPT ![l] = p[l] \cup {v}]]
    BY <2>2, <2>3, ActedIs
  <2> QED BY <2>1, <2>4
<1>2. rowsNow \in [Lines -> Edited] /\ past \in [Lines -> SUBSET Edited]
  BY DEF HeldRows
<1>3. \A x \in Lines : rowsNow[x] \in past[x] /\ store.past[x] \subseteq past[x]
  BY DEF HeldRows
<1> HIDE DEF rowsNow, past
<1> QED BY <1>1, <1>2, <1>3 DEF HeldRows

\* What a request of the list carries, and what its answer brings.
ListAsk(r, s) ==
  /\ r.what.line \in Lines /\ (r.kind = "act" => r.what.value \in Edited)
  /\ (r.kind = "list" /\ r.back # None /\ r.back.ok =>
        r.back.rows \in [Lines -> Edited] /\ \A l \in Lines : r.back.rows[l] \in s.past[l])
ListShows(t, s) == t \in ListTab /\ \A l \in Lines : t.rows[l] \in s.past[l]
Locks(t, w) ==
  /\ (t.kind = "all" => (t.locked = {} => w = {}) /\ \A r, s \in w : r = s)
  /\ (t.kind = "own" =>
        /\ \A r \in w : r.kind = "act" => r.what.line \in t.locked
        /\ \A r, s \in w : r.kind = "act" /\ s.kind = "act" /\ r # s => r.what.line # s.what.line)

LEMMA ListInvIs ==
  ListInv <=> HeldRows(store) /\ ListShows(tab, store) /\ Locks(tab, wire) /\ \A r \in wire : ListAsk(r, store)
BY DEF ListInv, HeldRows, ListShows, ListAsk, Locks, Waits

LEMMA ListKeeps == ASSUME ConsoleAssumption, PagesInv, ListNext PROVE PagesInv'
<1>1. page = "list" /\ UNCHANGED page
  BY DEF ListNext, ActOnRow, OtherRow, ServeAct, ServeList, ActOnRowAnswered, ListAnswered, Served,
         Show, Click, Apply, Waits, PagesInv, WireOK, IsAsked, AskedBy, ConsoleAssumption
<1>2. ListInv /\ WireOK
  BY <1>1 DEF PagesInv
<1>3. HeldRows(store) /\ ListShows(tab, store) /\ Locks(tab, wire) /\ \A r \in wire : ListAsk(r, store)
  BY <1>2, ListInvIs
<1>4. \A r \in wire : r.kind \in {"act", "list"}
  BY <1>1, <1>2 DEF WireOK, IsAsked, AskedBy
<1> DEFINE Holds == /\ HeldRows(store') /\ ListShows(tab', store') /\ Locks(tab', wire')
                    /\ \A r \in wire' : ListAsk(r, store')
           Good == WireOK' /\ Holds
           Grows == HeldRows(store') /\ \A x \in Lines : store.past[x] \subseteq store'.past[x]
<1>5. ASSUME Grows, UNCHANGED tab PROVE ListShows(tab', store') /\ \A r \in wire : ListAsk(r, store')
  BY <1>3, <1>5 DEF ListShows, ListTab, ListAsk
<1>6. ASSUME NEW l \in Lines, NEW v \in Edited, ActOnRow(l, v) PROVE Good
  <2>1. WireOK' /\ UNCHANGED store
    BY <1>1, <1>2, <1>6, SendKeepsWire DEF ActOnRow, Click, AskedBy
  <2>2. PICK e : e.kind = "act" /\ e.what = [line |-> l, value |-> v] /\ e.back = None /\ wire' = wire \cup {e}
    BY <1>6, SendAdds DEF ActOnRow, Click
  <2>3. ListAsk(e, store)
    BY <2>2 DEF ListAsk
  <2> DEFINE locked == CASE tab.kind = "own" -> tab.locked \cup {l}
                         [] tab.kind = "free" -> {}
                         [] OTHER -> {l}
  <2>4. tab' = [tab EXCEPT !.locked = locked] /\ l \notin tab.locked /\ (tab.kind = "all" => tab.locked = {})
    BY <1>3, <1>6 DEF ActOnRow, Click, ListShows, ListTab
  <2>5. /\ locked \in SUBSET Lines
        /\ (tab.kind = "own" => locked = tab.locked \cup {l})
        /\ (tab.kind = "all" => locked # {})
    BY <1>3 DEF ListShows, ListTab
  <2> HIDE DEF locked
  <2>6. ListShows(tab', store) /\ tab'.locked = locked /\ tab'.kind = tab.kind
    BY <1>3, <2>4, <2>5 DEF ListShows, ListTab
  <2>7. Locks(tab', wire')
    BY <1>3, <2>2, <2>4, <2>5, <2>6 DEF Locks
  <2> QED BY <1>3, <2>1, <2>2, <2>3, <2>6, <2>7
\* The server has served a request.
<1>7. ASSUME NEW r \in wire, NEW answer, Served(r, answer, store'), Grows,
             r.kind = "list" /\ answer.ok =>
               answer.rows \in [Lines -> Edited] /\ \A l \in Lines : answer.rows[l] \in store'.past[l]
      PROVE  Good
  <2>1. WireOK' /\ UNCHANGED tab
    BY <1>2, <1>7, ServedKeepsWire DEF Served
  <2>2. ListShows(tab', store') /\ \A q \in wire : ListAsk(q, store')
    BY <1>5, <1>7, <2>1
  <2>3. PICK e : wire' = (wire \ {r}) \cup {e} /\ e.kind = r.kind /\ e.what = r.what /\ e.back = answer
    <3> DEFINE e == [r EXCEPT !.back = answer]
    <3>1. e = [n |-> r.n, kind |-> r.kind, what |-> r.what, back |-> answer]
      BY <1>2 DEF WireOK, IsAsked
    <3>2. e.kind = r.kind /\ e.what = r.what /\ e.back = answer
      BY <3>1
    <3>3. wire' = (wire \ {r}) \cup {e}
      BY <1>7 DEF Served
    <3> HIDE DEF e
    <3> QED BY <3>2, <3>3
  <2>4. ListAsk(e, store')
    BY <1>3, <1>7, <2>3 DEF ListAsk
  <2>5. Locks(tab', wire')
    BY <1>3, <2>1, <2>3 DEF Locks
  <2> QED BY <1>7, <2>1, <2>2, <2>3, <2>4, <2>5
<1>8. ASSUME NEW r \in Waits("act"), NEW ok \in BOOLEAN, ServeAct(r, ok) PROVE Good
  <2>1. r \in wire /\ r.kind = "act" /\ r.what.line \in Lines /\ r.what.value \in Edited
    BY <1>3, <1>8 DEF Waits, ListAsk
  <2>2. store' = IF ok THEN Acted(r.what.line, r.what.value) ELSE store
    BY <1>8 DEF ServeAct, Served, Acted
  <2>3. Grows
    BY <1>3, <2>1, <2>2, RowsHold
  <2>4. Served(r, [ok |-> ok], store')
    BY <1>8, <2>2 DEF ServeAct, Acted
  <2> QED BY <1>7, <2>1, <2>3, <2>4
<1>9. ASSUME NEW r \in Waits("list"), NEW ok \in BOOLEAN, ServeList(r, ok) PROVE Good
  <2> DEFINE answer == [ok |-> ok, rows |-> store.rows]
  <2>1. Served(r, answer, store) /\ store' = store
    BY <1>9 DEF ServeList, Served
  <2>2. answer.rows \in [Lines -> Edited] /\ \A l \in Lines : answer.rows[l] \in store.past[l]
    BY <1>3 DEF HeldRows
  <2>3. r \in wire
    BY <1>9 DEF Waits
  <2> HIDE DEF answer
  <2> QED BY <1>3, <1>7, <2>1, <2>2, <2>3
<1>10. ASSUME NEW r \in Waits("act"), ActOnRowAnswered(r) PROVE Good
  <2>1. r \in wire /\ r.kind = "act" /\ r.what.line \in Lines
    BY <1>3, <1>10 DEF Waits, ListAsk
  <2> DEFINE t == Unlock(tab, r.what.line)
  <2>2. t = [tab EXCEPT !.locked = IF tab.kind = "own" THEN tab.locked \ {r.what.line} ELSE {}]
    BY <1>3 DEF Unlock, ListShows, ListTab
  <2>3. /\ ListShows(t, store) /\ t.kind = tab.kind
        /\ t.locked = IF tab.kind = "own" THEN tab.locked \ {r.what.line} ELSE {}
    BY <1>3, <2>2 DEF ListShows, ListTab
  <2> HIDE DEF t
  <2>4. CASE r.back.ok
    <3>1. /\ sentBy < MaxSent[page] /\ wire' = (wire \ {r}) \cup {Request("list", [line |-> r.what.line])}
          /\ sentBy' = sentBy + 1 /\ tab' = (IF tab.kind = "own" THEN t ELSE tab) /\ UNCHANGED <<page, store, others>>
      BY <1>10, <2>4 DEF ActOnRowAnswered, t
    <3>2. WireOK'
      BY <1>1, <1>2, <3>1, AgainKeepsWire DEF AskedBy
    <3>3. PICK e : e.kind = "list" /\ e.what = [line |-> r.what.line] /\ e.back = None /\ wire' = (wire \ {r}) \cup {e}
      <4> DEFINE e == [n |-> sentBy, kind |-> "list", what |-> [line |-> r.what.line], back |-> None]
      <4>1. e.kind = "list" /\ e.what = [line |-> r.what.line] /\ e.back = None
        OBVIOUS
      <4>2. wire' = (wire \ {r}) \cup {e}
        BY <3>1 DEF Request
      <4> HIDE DEF e
      <4> QED BY <4>1, <4>2
    <3>4. ListAsk(e, store)
      BY <2>1, <3>3 DEF ListAsk
    <3>5. ListShows(tab', store)
      BY <1>3, <2>3, <3>1
    <3>6. Locks(tab', wire')
      BY <1>3, <2>1, <2>3, <3>1, <3>3 DEF Locks
    <3> QED BY <1>3, <3>1, <3>2, <3>3, <3>4, <3>5, <3>6
  <2>5. CASE ~r.back.ok
    <3>1. Apply(r, t)
      BY <1>10, <2>5 DEF ActOnRowAnswered, t
    <3>2. WireOK' /\ wire' = wire \ {r} /\ tab' = t /\ UNCHANGED store
      BY <1>2, <3>1, ApplyKeepsWire DEF Apply
    <3>3. Locks(tab', wire')
      BY <1>3, <2>1, <2>3, <3>2 DEF Locks
    <3> QED BY <1>3, <2>3, <3>2, <3>3
  <2> QED BY <2>4, <2>5
<1>11. ASSUME NEW r \in Waits("list"), r.back # None, ListAnswered(r) PROVE Good
  <2>1. r \in wire /\ r.kind = "list" /\ ListAsk(r, store)
    BY <1>3, <1>11 DEF Waits
  <2> DEFINE locked == IF tab.kind = "own" THEN tab.locked ELSE {}
             rowsNow == IF r.back.ok THEN r.back.rows ELSE tab.rows
  <2>2. rowsNow \in [Lines -> Edited] /\ \A l \in Lines : rowsNow[l] \in store.past[l]
    BY <1>3, <1>11, <2>1 DEF ListAsk, ListShows, ListTab
  <2>3. tab' = [tab EXCEPT !.locked = locked, !.rows = rowsNow]
    BY <1>3, <1>11 DEF ListAnswered, Unlock, Apply, ListShows, ListTab
  <2>4. locked \in SUBSET Lines
    BY <1>3 DEF ListShows, ListTab
  <2>5. WireOK' /\ wire' = wire \ {r} /\ UNCHANGED store
    BY <1>2, <1>11, ApplyKeepsWire DEF ListAnswered, Apply
  <2> HIDE DEF rowsNow
  <2>6. ListShows(tab', store) /\ tab'.locked = locked /\ tab'.kind = tab.kind
    BY <1>3, <2>2, <2>3, <2>4 DEF ListShows, ListTab
  <2>7. Locks(tab', wire')
    BY <1>3, <2>1, <2>5, <2>6 DEF Locks
  <2> QED BY <1>3, <2>5, <2>6, <2>7
<1>12. ASSUME NEW l \in Lines, NEW v \in Edited, OtherRow(l, v) PROVE Good
  <2>1. WireOK'
    BY <1>2, <1>12 DEF OtherRow, WireOK, IsAsked, ConsoleAssumption
  <2>2. store' = Acted(l, v) /\ UNCHANGED <<tab, wire>>
    BY <1>12 DEF OtherRow, Acted
  <2>3. Grows
    BY <1>3, <2>2, RowsHold
  <2> QED BY <1>3, <1>5, <2>1, <2>2, <2>3
<1>13. Good
  BY <1>6, <1>8, <1>9, <1>10, <1>11, <1>12 DEF ListNext
<1>14. ListInv'
  BY <1>13 DEF ListInv, HeldRows, ListShows, ListAsk, Locks, Waits
<1> QED BY <1>1, <1>13, <1>14 DEF PagesInv

---------------------------------------------------------------------------
(* A dialog, the secrets of a client, the sign-in page *)

LEMMA DialogKeeps == ASSUME ConsoleAssumption, PagesInv, DialogNext PROVE PagesInv'
<1>1. page = "dialog" /\ UNCHANGED page
  BY DEF DialogNext, OpenDialog, Submit, Draft, CloseDialog, SubmitAnswered,
         Show, Click, Apply, Waits, PagesInv, WireOK, IsAsked, AskedBy, ConsoleAssumption
<1>2. DialogInv /\ WireOK
  BY <1>1 DEF PagesInv
<1> DEFINE Good == WireOK' /\ DialogInv'
<1>3. ASSUME OpenDialog PROVE Good
  BY <1>2, <1>3, ShowKeepsWire DEF OpenDialog, Show, DialogInv, DialogTab
<1>4. ASSUME NEW v \in Edited, Draft(v) PROVE Good
  BY <1>2, <1>4, ShowKeepsWire DEF Draft, Show, DialogInv, DialogTab
<1>5. ASSUME NEW keep \in BOOLEAN, CloseDialog(keep) PROVE Good
  BY <1>2, <1>5, ShowKeepsWire DEF CloseDialog, Show, DialogInv, DialogTab
<1>6. ASSUME Submit PROVE Good
  <2>1. WireOK'
    BY <1>1, <1>2, <1>6, SendKeepsWire DEF Submit, Click, AskedBy
  <2>2. wire = {} /\ tab' = [tab EXCEPT !.submitting = TRUE]
    BY <1>2, <1>6 DEF Submit, Click, DialogInv
  <2>3. PICK e : wire' = {e}
    <3>1. Send("add", [draft |-> tab.draft])
      BY <1>6 DEF Submit, Click
    <3>2. PICK e : wire' = wire \cup {e}
      BY <3>1, SendAdds
    <3> QED BY <2>2, <3>2
  <2> QED BY <1>2, <2>1, <2>2, <2>3 DEF DialogInv, DialogTab
<1>7. ASSUME NEW r \in Waits("add"), NEW ok \in BOOLEAN, SubmitAnswered(r, ok) PROVE Good
  <2>1. /\ WireOK' /\ wire' = {}
        /\ tab' = IF ok THEN DialogStart ELSE [tab EXCEPT !.submitting = FALSE]
    BY <1>2, <1>7, ApplyKeepsWire DEF SubmitAnswered, Apply, DialogInv, Waits
  <2> QED BY <1>2, <2>1 DEF DialogInv, DialogTab, DialogStart
<1>8. Good
  BY <1>3, <1>4, <1>5, <1>6, <1>7 DEF DialogNext
<1> QED BY <1>1, <1>8 DEF PagesInv

LEMMA KeysKeep == ASSUME ConsoleAssumption, PagesInv, KeysNext PROVE PagesInv'
<1>1. page = "keys" /\ UNCHANGED page
  BY DEF KeysNext, OpenKey, LeaveKey, RotateSecret, RevokeSecret, DismissSecret, ServeRotate, ServeRevoke, ServeKeys,
         RotateAnswered, RevokeAnswered, KeysAnswered, Served,
         Show, Click, Apply, Waits, PagesInv, WireOK, IsAsked, AskedBy, ConsoleAssumption
<1>2. WireOK
  BY DEF PagesInv
<1>3. ASSUME NEW t, Show(t) PROVE WireOK'
  BY <1>2, <1>3, ShowKeepsWire DEF Show
<1>4. ASSUME NEW r, NEW t, Apply(r, t) PROVE WireOK'
  BY <1>2, <1>4, ApplyKeepsWire DEF Apply
<1>5. ASSUME OpenKey \/ LeaveKey \/ DismissSecret PROVE WireOK'
  BY <1>3, <1>5 DEF OpenKey, LeaveKey, DismissSecret
<1>6. ASSUME RotateSecret \/ RevokeSecret PROVE WireOK'
  BY <1>1, <1>2, <1>6, SendKeepsWire DEF RotateSecret, RevokeSecret, Click, AskedBy
<1>7. ASSUME NEW r \in wire, ServeRotate(r) \/ ServeRevoke(r) \/ ServeKeys(r) PROVE WireOK'
  BY <1>2, <1>7, ServedKeepsWire DEF ServeRotate, ServeRevoke, ServeKeys
<1>8. ASSUME NEW r \in wire, RotateAnswered(r) PROVE WireOK'
  <2>1. CASE ~r.back.ok
    BY <1>4, <1>8, <2>1 DEF RotateAnswered
  <2>2. CASE r.back.ok
    BY <1>1, <1>2, <1>8, <2>2, AgainKeepsWire DEF RotateAnswered, AskedBy
  <2> QED BY <2>1, <2>2
<1>9. ASSUME NEW r \in wire, RevokeAnswered(r) PROVE WireOK'
  BY <1>1, <1>2, <1>9, AgainKeepsWire DEF RevokeAnswered, AskedBy
<1>10. ASSUME NEW r \in wire, KeysAnswered(r) PROVE WireOK'
  BY <1>4, <1>10 DEF KeysAnswered
<1>11. WireOK'
  BY <1>5, <1>6, <1>7, <1>8, <1>9, <1>10 DEF KeysNext, Waits
<1> QED BY <1>1, <1>11 DEF PagesInv

LEMMA LoginKeeps == ASSUME ConsoleAssumption, PagesInv, LoginNext PROVE PagesInv'
<1>1. page = "login" /\ UNCHANGED page
  BY DEF LoginNext, SignIn, SignInAnswered, StatusAnswered, Click, Apply, Waits,
         PagesInv, WireOK, IsAsked, AskedBy, ConsoleAssumption
<1>2. WireOK
  BY DEF PagesInv
<1>3. ASSUME NEW r, NEW t, Apply(r, t) PROVE WireOK'
  BY <1>2, <1>3, ApplyKeepsWire DEF Apply
<1>4. ASSUME SignIn PROVE WireOK'
  BY <1>1, <1>2, <1>4, SendKeepsWire DEF SignIn, Click, AskedBy
<1>5. WireOK'
  BY <1>3, <1>4 DEF LoginNext, StatusAnswered, SignInAnswered
<1> QED BY <1>1, <1>5 DEF PagesInv

---------------------------------------------------------------------------
(* The first state, and the whole *)

\* A page opens without a request, or with the one that it reads first.
LEMMA OpenedWire ==
  ASSUME ConsoleAssumption, page \in Pages, others = 0,
         \/ wire = {}
         \/ \E kind, what : wire = {[n |-> 0, kind |-> kind, what |-> what, back |-> None]} /\ kind \in AskedBy(page),
         sentBy = Cardinality(wire)
  PROVE  WireOK
<1>1. MaxSent[page] \in Nat \ {0} /\ 0 \in 0..MaxOthers
  BY DEF ConsoleAssumption
<1>2. CASE wire = {}
  <2>1. sentBy = 0
    BY <1>2, FS_EmptySet
  <2> QED BY <1>1, <1>2, <2>1 DEF WireOK
<1>3. ASSUME NEW kind, NEW what, wire = {[n |-> 0, kind |-> kind, what |-> what, back |-> None]}, kind \in AskedBy(page)
      PROVE  WireOK
  <2>1. PICK e : e = [n |-> 0, kind |-> kind, what |-> what, back |-> None] /\ wire = {e}
    BY <1>3
  <2>2. sentBy = 1
    BY <2>1, FS_Singleton
  <2>3. IsAsked(e)
    BY <1>3, <2>1, <2>2 DEF IsAsked
  <2> QED BY <1>1, <2>1, <2>2, <2>3 DEF WireOK
<1> QED BY <1>2, <1>3

LEMMA PagesInvInit == ASSUME ConsoleAssumption PROVE ConsoleInit => PagesInv
<1> SUFFICES ASSUME ConsoleInit PROVE PagesInv
  OBVIOUS
<1>1. page \in Pages /\ others = 0 /\ sentBy = Cardinality(wire) /\ wire = FirstAsk(page, tab) /\ store = Held(page)
  BY DEF ConsoleInit
<1>2. page \in {"import", "browse", "audit", "approve", "acl", "list", "keys", "dialog", "login"}
  BY <1>1 DEF ConsoleAssumption
<1>3. WireOK
  <2>1. page \notin {"audit", "login"} => wire = {}
    BY <1>1, <1>2 DEF FirstAsk
  <2>2. page = "audit" => wire = {[n |-> 0, kind |-> "events", what |-> tab.params, back |-> None]} /\ "events" \in AskedBy(page)
    BY <1>1 DEF FirstAsk, AskedBy
  <2>3. page = "login" => wire = {[n |-> 0, kind |-> "status", what |-> [by |-> "anyone"], back |-> None]} /\ "status" \in AskedBy(page)
    BY <1>1 DEF FirstAsk, AskedBy
  <2>4. CASE page = "audit"
    BY <1>1, <2>2, <2>4, OpenedWire
  <2>5. CASE page = "login"
    BY <1>1, <2>3, <2>5, OpenedWire
  <2>6. CASE page \notin {"audit", "login"}
    BY <1>1, <2>1, <2>6, OpenedWire
  <2> QED BY <2>4, <2>5, <2>6
<1>4. ASSUME page = "import" PROVE FormInv
  <2>1. tab = FormStart /\ wire = {}
    BY <1>1, <1>4 DEF ConsoleInit, Opened, FirstAsk
  <2> QED BY <2>1 DEF FormInv, FormTab, FormStart, FormModes
<1>5. ASSUME page = "browse" PROVE BrowserInv
  <2>1. tab = BrowserStart /\ wire = {}
    BY <1>1, <1>5 DEF ConsoleInit, Opened, FirstAsk
  <2>2. (CHOOSE k \in PageSizes : TRUE) \in PageSizes
    BY DEF ConsoleAssumption
  <2> QED BY <2>1, <2>2 DEF BrowserInv, BrowserTab, BrowserStart, ShownIsAsked
<1>6. ASSUME page = "audit" PROVE AuditInv
  <2>1. PICK offset \in {0, 1} : tab = AuditStart(offset)
    BY <1>6 DEF ConsoleInit
  <2> DEFINE at == [filters |-> [k \in Params |-> ""], offset |-> offset]
  <2>2. at \in Addresses /\ at.filters \in [Params -> Words \cup {""}]
    <3>1. [k \in Params |-> ""] \in [Params -> Words \cup {""}] /\ offset \in Nat
      OBVIOUS
    <3> QED BY <3>1 DEF Addresses
  <2>3. tab = [params |-> at, asked |-> at, pending |-> None, intent |-> at.filters, events |-> None, loading |-> TRUE]
    BY <2>1 DEF AuditStart
  <2> HIDE DEF at
  <2>4. wire = {[n |-> 0, kind |-> "events", what |-> tab.params, back |-> None]}
    BY <1>1, <1>6 DEF FirstAsk
  <2>5. \A r \in wire : r.what = tab.params
    BY <2>4
  <2> QED BY <2>2, <2>3, <2>5 DEF AuditInv, AuditTab
<1>7. ASSUME page = "approve" PROVE SheetInv
  <2>1. tab = SheetStart /\ wire = {}
    BY <1>1, <1>7 DEF ConsoleInit, Opened, FirstAsk
  <2> QED BY <2>1 DEF SheetInv, SheetTab, SheetStart, TrimmedOnly, Waits
<1>8. ASSUME page = "acl" PROVE AclInv
  <2>1. tab = AclStart /\ wire = {}
    BY <1>1, <1>8 DEF ConsoleInit, Opened, FirstAsk
  <2>2. (CHOOSE d \in Papers : TRUE) \in Papers
    BY DEF ConsoleAssumption
  <2>3. store = [acl |-> [d \in Papers |-> {}], past |-> [d \in Papers |-> {{}}]]
    BY <1>1, <1>8 DEF Held
  <2> QED BY <2>1, <2>2, <2>3 DEF AclInv, AclTab, AclStart
<1>9. ASSUME page = "list" PROVE ListInv
  <2> DEFINE v0 == CHOOSE v \in Edited : TRUE
             rowsNow == [l \in Lines |-> v0]
  <2>1. v0 \in Edited
    BY DEF ConsoleAssumption
  <2>2. Held("list") = [rows |-> rowsNow, past |-> [l \in Lines |-> {v0}]]
    BY DEF Held
  <2>3. PICK kind \in ListKinds : tab = ListStart(kind, rowsNow)
    <3>1. Held("list").rows = rowsNow
      <4>1. \A a, b, h : h = [rows |-> a, past |-> b] => h.rows = a
        OBVIOUS
      <4> QED BY <2>2, <4>1
    <3>2. \E kind \in ListKinds : tab = ListStart(kind, Held("list").rows)
      BY <1>9 DEF ConsoleInit
    <3> QED BY <3>1, <3>2
  <2>4. wire = {} /\ store = [rows |-> rowsNow, past |-> [l \in Lines |-> {v0}]]
    BY <1>1, <1>9, <2>2 DEF FirstAsk
  <2> HIDE DEF v0
  <2> QED BY <2>1, <2>3, <2>4 DEF ListInv, ListTab, ListStart, Waits
<1>10. ASSUME page = "dialog" PROVE DialogInv
  <2>1. tab = DialogStart /\ wire = {}
    BY <1>1, <1>10 DEF ConsoleInit, Opened, FirstAsk
  <2> QED BY <2>1 DEF DialogInv, DialogTab, DialogStart
<1> QED BY <1>3, <1>4, <1>5, <1>6, <1>7, <1>8, <1>9, <1>10 DEF PagesInv

LEMMA PagesInvStep == ASSUME ConsoleAssumption PROVE PagesInv /\ [ConsoleNext]_consoleVars => PagesInv'
<1>1. ASSUME PagesInv, UNCHANGED consoleVars PROVE PagesInv'
  <2>1. UNCHANGED <<page, tab, wire, sentBy, store, others>>
    BY <1>1 DEF consoleVars
  <2>2. WireOK'
    BY <1>1, <2>1, ShowKeepsWire DEF PagesInv
  <2>3. (page = "import" => FormInv') /\ (page = "browse" => BrowserInv') /\ (page = "audit" => AuditInv')
    BY <1>1, <2>1 DEF PagesInv, FormInv, BrowserInv, ShownIsAsked, AuditInv
  <2>4. (page = "approve" => SheetInv') /\ (page = "acl" => AclInv')
    BY <1>1, <2>1 DEF PagesInv, SheetInv, TrimmedOnly, Waits, AclInv
  <2>5. (page = "list" => ListInv') /\ (page = "dialog" => DialogInv')
    BY <1>1, <2>1 DEF PagesInv, ListInv, Waits, DialogInv
  <2> QED BY <2>1, <2>2, <2>3, <2>4, <2>5 DEF PagesInv
<1>2. ASSUME PagesInv, ConsoleNext PROVE PagesInv'
  BY <1>2, FormKeeps, BrowserKeeps, AuditKeeps, SheetKeeps, AclKeeps, ListKeeps, DialogKeeps, KeysKeep, LoginKeeps
     DEF ConsoleNext
<1> QED BY <1>1, <1>2

\* One request at most, from a set without two.
LEMMA OneOnTheWay == ASSUME \A r, s \in wire : r = s PROVE Cardinality(wire) <= 1
<1>1. CASE wire = {}
  BY <1>1, FS_EmptySet
<1>2. CASE wire # {}
  <2>1. PICK e : wire = {e}
    BY <1>2
  <2> QED BY <2>1, FS_Singleton
<1> QED BY <1>1, <1>2

LEMMA PagesInvCorrect == ASSUME ConsoleAssumption, PagesInv PROVE PagesCorrect
<1>1. ConsoleTypeOK
  <2>1. page \in Pages /\ sentBy \in 0..MaxSent[page] /\ others \in 0..MaxOthers
    BY DEF PagesInv, WireOK, ConsoleAssumption
  <2>2. (\A r \in wire : r.n < sentBy) /\ \A r, s \in wire : r.n = s.n => r = s
    BY DEF PagesInv, WireOK, IsAsked
  <2>3. page = "import" => tab.at \in {"pick", "map", "confirm", "result"} /\ tab.mode \in FormModes
    BY DEF PagesInv, FormInv, FormTab
  <2>4. page = "approve" => /\ tab.grant \in DOMAIN AskedFor \cup {None}
                            /\ (tab.grant # None => tab.fields \subseteq AskedFor[tab.grant])
    BY DEF PagesInv, SheetInv, SheetTab
  <2>5. page = "acl" => tab.paper \in Papers /\ store.acl \in [Papers -> SUBSET People_]
    BY DEF PagesInv, AclInv, AclTab
  <2>6. page = "list" => tab.rows \in [Lines -> Edited] /\ store.rows \in [Lines -> Edited]
    BY DEF PagesInv, ListInv, ListTab
  <2> QED BY <2>1, <2>2, <2>3, <2>4, <2>5, <2>6 DEF ConsoleTypeOK
<1>2. PreviewedFirst
  BY OneOnTheWay DEF PagesInv, FormInv, PreviewedFirst
<1>3. ShownIsAsked
  BY DEF PagesInv, BrowserInv, ShownIsAsked
<1>4. FiltersKept
  BY DEF PagesInv, AuditInv, FiltersKept
<1>5. TrimmedOnly
  BY DEF PagesInv, SheetInv, TrimmedOnly
<1>6. ShownWasHeld
  BY DEF PagesInv, AclInv, ListInv, ShownWasHeld
<1>7. OneSubmission
  <2>1. page = "dialog" => Cardinality(wire) <= 1
    BY OneOnTheWay DEF PagesInv, DialogInv
  <2>2. page = "list" => \A r, s \in Waits("act") : r # s =>
          tab.kind \notin {"all"} /\ (tab.kind = "own" => r.what.line # s.what.line)
    BY DEF PagesInv, ListInv, Waits
  <2> QED BY <2>1, <2>2 DEF OneSubmission
<1> QED BY <1>1, <1>2, <1>3, <1>4, <1>5, <1>6, <1>7 DEF PagesCorrect

\* What a page shows, confirms and sends is of the request the person made last, however the answers
\* overtake each other and whatever somebody else changes meanwhile: for any pages, collections,
\* documents, filters, rows and people, and any number of requests.
THEOREM PagesCorrectAlways == ConsoleSpec => []PagesCorrect
<1>1. PagesInv => PagesCorrect
  BY PagesInvCorrect, ConsoleAssumption
<1>2. ConsoleInit => PagesInv
  BY PagesInvInit, ConsoleAssumption
<1>3. PagesInv /\ [ConsoleNext]_consoleVars => PagesInv'
  BY PagesInvStep, ConsoleAssumption
<1> QED BY <1>1, <1>2, <1>3, PTL DEF ConsoleSpec
=============================================================================
