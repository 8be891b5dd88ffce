-------------------------------- MODULE Trail --------------------------------
(***************************************************************************)
(* The trail of decisions (packages/broker/src/audit): what a call records *)
(* at the destination the configuration names, what it answers when that   *)
(* fails, and how the record stands to the transaction it is about         *)
(* (db/pools.ts, verbs/propose.ts, import/run.ts).                         *)
(***************************************************************************)
EXTENDS Naturals, FiniteSets

CONSTANTS
  Decisions,    \* the calls of verbs, each made once
  BatchSize,    \* decisions in one batch
  MaxTroubles   \* BOUND: failed, lost or late writes and commits, and crashes

ASSUME TrailAssumption == BatchSize \in Nat \ {0} /\ MaxTroubles \in Nat

VARIABLES
  verb,      \* what each call is doing
  trail,     \* rows at the destination
  onTheWay,  \* rows a hung collector may still store
  kept,      \* calls whose data is committed
  sink, enabled, \* `audit:` of warehousd.yml
  troubles

trailVars == <<verb, trail, onTheWay, kept, sink, enabled, troubles>>

\* A read answers; a write and a batch answer inside their transaction; an operational call (an
\* import, a regen) has committed before it records; a refusal has nothing to withhold.
DecisionKinds == {"read", "refusal", "write", "batch", "operational"}
ItemsOf(kind) == IF kind = "batch" THEN 1..BatchSize ELSE {1}
Transacted == {"write", "batch"}

\* step: "allow" or "refuse" an item, "hung" on either, "commit", "answered" or "dead".
Waiting == [step |-> "start", kind |-> "read", item |-> 1, of |-> "allowed", ok |-> FALSE, ids |-> {}]

TrailInit ==
  /\ verb = [d \in Decisions |-> Waiting] /\ troubles = 0
  /\ trail = {} /\ onTheWay = {} /\ kept = {}
  /\ sink \in {"postgres", "stdout-json", "webhook"} /\ enabled \in BOOLEAN

RowOf(d) == [call |-> d, item |-> verb[d].item, outcome |-> verb[d].of]

\* What a write at a destination can come to. A line on stdout is whole or throws; an insert or
\* a POST can be done though its acknowledgement is lost; only a collector can go quiet.
Endings(s) ==
  {"stored", "failed"} \cup (IF s = "stdout-json" THEN {} ELSE {"lost"})
                       \cup (IF s = "webhook" THEN {"quiet"} ELSE {})

---------------------------------------------------------------------------
(* A call *)

BeginDecision(d) == \E k \in DecisionKinds :
  /\ verb[d].step = "start"
  /\ verb' = [verb EXCEPT ![d].step = IF k = "refusal" THEN "refuse" ELSE "allow", ![d].kind = k,
                          ![d].of = IF k = "refusal" THEN "refused" ELSE "allowed"]
  /\ kept' = IF k = "operational" THEN kept \cup {d} ELSE kept
  /\ UNCHANGED <<trail, onTheWay, sink, enabled, troubles>>

\* An allow is only an allow once the row exists, where a row was expected.
Sealed(recorded) == recorded \/ ~enabled

Answered(v, ok) == [v EXCEPT !.step = "answered", !.ok = ok]
\* After the rollback the refusal is recorded, for every decision of a batch from the first.
RolledBack(v) == [v EXCEPT !.step = "refuse", !.of = "refused", !.item = 1, !.ids = {}]
IsLast(v) == v.item + 1 \notin ItemsOf(v.kind)
NextItem(v) == [v EXCEPT !.item = @ + 1, !.step = IF v.of = "allowed" THEN "allow" ELSE "refuse"]

AllowedOnce(v, recorded) ==
  IF v.kind \notin Transacted THEN Answered(v, Sealed(recorded) \/ v.kind = "operational")
  ELSE IF Sealed(recorded) THEN [v EXCEPT !.step = "commit"] ELSE RolledBack(v)
\* What a verb does with the answer of `allow`: a read returns it as it is, a write throws when
\* it is no allow (assertRecorded), an import has nothing to take back.
AfterAllow(v, recorded) ==
  IF v.kind \notin Transacted THEN Answered(v, Sealed(recorded) \/ v.kind = "operational")
  ELSE IF ~Sealed(recorded) THEN RolledBack(v)
  ELSE IF IsLast(v) THEN [v EXCEPT !.step = "commit"] ELSE NextItem(v)

\* A refusal stands whether or not its row was written.
AfterRefuse(v) == IF IsLast(v) THEN Answered(v, FALSE) ELSE NextItem(v)

\* The id of the row, null when the write threw or was never made.
Named(d, recorded) == IF recorded THEN {RowOf(d)} ELSE {}

Resume(d, recorded) ==
  LET v == [verb[d] EXCEPT !.ids = @ \cup Named(d, recorded)] IN
  verb' = [verb EXCEPT ![d] = IF v.of = "allowed" THEN AfterAllow(v, recorded) ELSE AfterRefuse(v)]

Trouble == troubles < MaxTroubles /\ troubles' = troubles + 1

NotRecorded(d) == ~enabled /\ Resume(d, FALSE) /\ UNCHANGED <<trail, onTheWay, troubles>>
Stored(d) == enabled /\ trail' = trail \cup {RowOf(d)} /\ Resume(d, TRUE) /\ UNCHANGED <<onTheWay, troubles>>
Failed(d) ==
  /\ enabled /\ Trouble /\ Resume(d, FALSE)
  /\ \E e \in Endings(sink) \ {"stored", "quiet"} :
       trail' = IF e = "lost" THEN trail \cup {RowOf(d)} ELSE trail
  /\ UNCHANGED onTheWay
Hangs(d) ==
  /\ enabled /\ Trouble /\ "quiet" \in Endings(sink)
  /\ verb' = [verb EXCEPT ![d].step = "hung"] /\ onTheWay' = onTheWay \cup {RowOf(d)}
  /\ UNCHANGED trail

Record(d) ==
  /\ verb[d].step \in {"allow", "refuse"}
  /\ NotRecorded(d) \/ Stored(d) \/ Failed(d) \/ Hangs(d)
  /\ UNCHANGED <<kept, sink, enabled>>

\* AbortSignal.timeout: the wait for a collector is bounded, always.
Deadline(d) == verb[d].step = "hung"
GivesUp(d) == Deadline(d) /\ Resume(d, FALSE) /\ UNCHANGED <<trail, onTheWay, kept, sink, enabled, troubles>>

\* The collector stores what it accepted, after the deadline or before.
ArrivesLate == \E r \in onTheWay :
  /\ trail' = trail \cup {r} /\ onTheWay' = onTheWay \ {r}
  /\ UNCHANGED <<verb, kept, sink, enabled, troubles>>

\* The catch of a verb: the transaction is undone, and the refusal recorded outside it.
CatchOf(v) == RolledBack(v)

\* The commit comes after every allow row. It may fail, and it may be done though the
\* connection dies before it says so; either way the verb's catch records a refusal.
CommitRow(d) ==
  /\ verb[d].step = "commit"
  /\ \/ kept' = kept \cup {d} /\ verb' = [verb EXCEPT ![d] = Answered(@, TRUE)] /\ UNCHANGED troubles
     \/ Trouble /\ UNCHANGED kept /\ verb' = [verb EXCEPT ![d] = CatchOf(@)]
     \/ Trouble /\ kept' = kept \cup {d} /\ verb' = [verb EXCEPT ![d] = CatchOf(@)]
  /\ UNCHANGED <<trail, onTheWay, sink, enabled>>

\* The server dies: its calls are never answered, and what they had not committed is undone.
ServerDies ==
  /\ Trouble
  /\ verb' = [d \in Decisions |-> IF verb[d].step \in {"start", "answered"} THEN verb[d]
                                  ELSE [verb[d] EXCEPT !.step = "dead"]]
  /\ UNCHANGED <<trail, onTheWay, kept, sink, enabled>>

DecisionStep(d) == BeginDecision(d) \/ Record(d) \/ GivesUp(d) \/ CommitRow(d)
TrailNext == (\E d \in Decisions : DecisionStep(d)) \/ ArrivesLate \/ ServerDies
TrailSpec == TrailInit /\ [][TrailNext]_trailVars
\* A process runs its calls on and a deadline passes; nothing makes a collector answer.
TrailFairSpec == TrailSpec /\ \A d \in Decisions : WF_trailVars(DecisionStep(d))

---------------------------------------------------------------------------
(* Properties *)

Rows == [call : Decisions, item : 1..BatchSize, outcome : {"allowed", "refused"}]

\* Types, and a deployment that switched its trail off writes none of it anywhere.
TrailTypeOK ==
  /\ trail \subseteq Rows /\ onTheWay \subseteq Rows /\ kept \subseteq Decisions
  /\ \A d \in Decisions : verb[d].kind \in DecisionKinds /\ verb[d].item \in ItemsOf(verb[d].kind)
  /\ enabled \/ trail \cup onTheWay = {}

AllRows(d, outcome) == {[call |-> d, item |-> i, outcome |-> outcome] : i \in ItemsOf(verb[d].kind)}
DecisionDone(d) == verb[d].step = "answered"

\* "An allow is only an allow once the row exists" (decision.ts:228): whatever the destination
\* does, no caller is told yes before every row of the answer is there.
AllowIsRecorded == \A d \in Decisions :
  enabled /\ DecisionDone(d) /\ verb[d].ok /\ verb[d].kind # "operational" => AllRows(d, "allowed") \subseteq trail

\* Data that a write or a batch committed has all its rows, also when the server died or the
\* acknowledgement of the commit was lost (propose.ts:728-741).
CommittedIsRecorded == \A d \in kept :
  enabled /\ verb[d].kind \in Transacted => AllRows(d, "allowed") \subseteq trail

\* An id in an answer names a row of that outcome that exists.
IdsNameRows == \A d \in Decisions : DecisionDone(d) =>
  /\ verb[d].ids \subseteq trail
  /\ verb[d].kind # "operational" => verb[d].ids \subseteq AllRows(d, IF verb[d].ok THEN "allowed" ELSE "refused")

\* An allow row can stand for a write that was undone after it (a lost acknowledgement, a
\* failed commit): such a call is never answered yes, and as long as one thing goes wrong a
\* refusal row stands beside every row it left.
StrayAllowIsRefused == \A d \in Decisions :
  DecisionDone(d) /\ verb[d].kind \in Transacted /\ d \notin kept /\ AllRows(d, "allowed") \cap trail # {} =>
    ~verb[d].ok /\ (troubles < 2 => AllRows(d, "refused") \subseteq trail)

\* `audit.enabled: false` is a configured answer and no failure: without trouble nothing is
\* refused that asked to be allowed.
OffIsNoFailure == \A d \in Decisions : DecisionDone(d) /\ troubles = 0 => (verb[d].ok <=> verb[d].kind # "refusal")

\* NOT KEPT. "One decision, one audit row" (decision.ts:13).
OneRowEach == \A r, q \in trail : r.call = q.call /\ r.item = q.item => r = q

\* Every call is answered, or dies with its server: a collector that accepts a POST and goes
\* quiet holds no request open (sinks/webhook.ts:12).
DecisionsEnd == \A d \in Decisions : verb[d].step # "start" ~> verb[d].step \in {"answered", "dead"}

\* The promises of the audit trail, together: what was answered or committed is recorded, and what
\* was not recorded is refused.
TrailCorrect ==
  /\ TrailTypeOK /\ AllowIsRecorded /\ CommittedIsRecorded /\ IdsNameRows
  /\ StrayAllowIsRefused /\ OffIsNoFailure
=============================================================================
