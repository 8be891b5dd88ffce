----------------------------- MODULE MCCallers -----------------------------
(* Who calls: the members of a workspace, credentials, the limits on        *)
(* guesses and on calls, the workspaces themselves, and the servers that    *)
(* `warehousd start` runs on one machine.  They share no variable: a        *)
(* behaviour is one of them, and the others keep their first state.  The    *)
(* limits are two behaviours: the locks of sign-ins are rows, the windows of  *)
(* calls are in the process, and only these a restart clears.  A machine where  *)
(* an earlier build ran serves one terminal at a time.                       *)
EXTENDS MCMembers, Credentials, Limits, Platform, Local, TLC
CONSTANTS agent, joining, owner, k1, k2, k3, op, sc, dft, w1, p1, p2, pinnedApp, robotApp
VARIABLE part   \* which of them this behaviour is of

(* A client with a live and a dev key. *)
KeyOfC(env) == [client |-> agent, env |-> env, expires |-> 1, revoked |-> FALSE]
LiveAndDev == [k \in Keys |-> IF k = k1 THEN KeyOfC("live") ELSE IF k = k2 THEN KeyOfC("dev") ELSE None]
DevPolicy == agent :> {"dev"} @@ joining :> None
OneRobot == agent :> None @@ joining :> owner
AllOrNothing == {{}, Envs}
Granted == owner :> 1

(* An operator of every workspace, a host of what it makes, and one workspace that is
   there at the start. *)
Operator == op :> None @@ sc :> {}
PinnedThere == pinnedApp :> None @@ robotApp :> None
Robots == {robotApp}
FirstRows == {<<dft, p1>>}

\* Two checkouts of one project, and another project on a provider's stack with the same port.
Harbor == [project |-> "harbor", kind |-> "container", server |-> 1, db |-> 2]
MCYml == [one |-> Harbor, two |-> Harbor,
          apart |-> [project |-> "apart", kind |-> "local", server |-> 1, db |-> 3]]
MCCheckouts == DOMAIN MCYml
MCLegacy == {"one"}
-----------------------------------------------------------------------------
LocalAside == keyFiles = [there \in Checkouts |-> None] /\ LocalInit
AllAside == MembersInit /\ CredInit /\ LimitInit /\ PlatInit /\ LocalAside
GuessNext == (\E s \in Attempts : CheckLock(s) \/ Verify(s) \/ Forget(s) \/ Collect(s) \/ CountFailure(s)) \/ LimitTick
CallNext == (\E caller \in Callers : RateLimit(caller)) \/ Restart \/ LimitTick

ServerVars == <<credVars, limitVars, platVars, localvars>>
CallersVars == <<membersVars, ServerVars, part>>
CallersInit ==
  \/ part \in {"members", "credentials", "guesses", "calls", "platform"} /\ AllAside
  \/ /\ MembersInit /\ CredInit /\ LimitInit /\ PlatInit /\ LocalInit
     /\ part = IF keyFiles = [there \in Checkouts |-> None] THEN "local" ELSE "upgrade"
CallersNext ==
  /\ UNCHANGED part
  /\ \/ part = "members" /\ MembersNext /\ UNCHANGED ServerVars
     \/ part = "credentials" /\ CredNext /\ UNCHANGED <<membersVars, limitVars, platVars, localvars>>
     \/ part = "guesses" /\ GuessNext /\ UNCHANGED <<membersVars, credVars, platVars, localvars>>
     \/ part = "calls" /\ CallNext /\ UNCHANGED <<membersVars, credVars, platVars, localvars>>
     \/ part = "platform" /\ PlatNext /\ UNCHANGED <<membersVars, credVars, limitVars, localvars>>
     \/ part = "local" /\ LocalNext /\ UNCHANGED <<membersVars, credVars, limitVars, platVars>>
     \/ /\ part = "upgrade" /\ LocalNext /\ Cardinality({t \in Terminals : session'[t] # None}) <= 1
        /\ UNCHANGED <<membersVars, credVars, limitVars, platVars>>
     \* Requests for membership and credentials may not come to a stop; the rest may, at its bounds.
     \/ part \notin {"members", "credentials"} /\ UNCHANGED <<membersVars, ServerVars>>
CallersSpec == CallersInit /\ [][CallersNext]_CallersVars
=============================================================================
