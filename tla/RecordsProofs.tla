---------------------------- MODULE RecordsProofs ----------------------------
(***************************************************************************)
(* Theorems about the two records the system keeps of what it does.  The   *)
(* trail of decisions: for any number of calls, any batch and any number   *)
(* of troubles, what is answered or committed is recorded, and what is not *)
(* recorded is refused.  The change feed: what its watermark guarantees a  *)
(* client, for every number of writers, transactions, entries and polls.   *)
(***************************************************************************)
EXTENDS Trail, ChangeFeed, FiniteSetTheorems, TLAPS

---------------------------------------------------------------------------
(* The inductive invariant *)

Steps == {"start", "allow", "refuse", "hung", "commit", "answered", "dead"}

Verb == [step : Steps, kind : DecisionKinds, item : Nat, of : {"allowed", "refused"}, ok : BOOLEAN, ids : SUBSET Rows]

RowIn(t, d, i, outcome) == [call |-> d, item |-> i, outcome |-> outcome] \in t

RowsFor(d, kind, outcome) == {[call |-> d, item |-> i, outcome |-> outcome] : i \in ItemsOf(kind)}

\* A call that is under way, and what it is about to record.
Shape(d) ==
  LET v == verb[d]
  IN /\ v \in Verb /\ v.item \in ItemsOf(v.kind)
     /\ v.step = "allow" => v.of = "allowed"
     /\ v.step = "refuse" => v.of = "refused"
     /\ v.step = "commit" => v.of = "allowed" /\ v.kind \in Transacted
     /\ v.step # "start" /\ v.kind = "refusal" => v.of = "refused"
     /\ v.kind \in {"read", "operational"} => v.of = "allowed"
     /\ v.step = "hung" => enabled
     /\ v.step = "start" => v = Waiting

\* The rows of the items before the one it is at, and of all when it commits.
Written(d) ==
  LET v == verb[d]
  IN enabled /\ v.of = "allowed" =>
       /\ v.step \in {"allow", "hung"} => \A i \in ItemsOf(v.kind) : i < v.item => RowIn(trail, d, i, "allowed")
       /\ v.step = "commit" => \A i \in ItemsOf(v.kind) : RowIn(trail, d, i, "allowed")

\* A call that would be refused has met a trouble, and one alone costs no row of the refusal.
Refusing(d) ==
  LET v == verb[d]
  IN /\ v.kind \in Transacted /\ v.of = "refused" =>
          /\ troubles >= 1
          /\ v.step = "hung" => troubles >= 2
          /\ enabled /\ troubles < 2 =>
               /\ v.step = "refuse" => \A i \in ItemsOf(v.kind) : i < v.item => RowIn(trail, d, i, "refused")
               /\ v.step = "answered" => \A i \in ItemsOf(v.kind) : RowIn(trail, d, i, "refused")
     /\ v.step = "hung" => troubles >= 1

\* The ids a call holds are of rows it has written with the outcome it is about.
Holding(d) ==
  LET v == verb[d]
  IN /\ v.ids \subseteq RowsFor(d, v.kind, v.of) /\ v.ids \subseteq trail
     /\ v.kind \notin Transacted /\ v.step \in {"start", "allow", "refuse", "hung"} => v.ids = {}

\* What is answered, and what is committed.
Settled(d) ==
  LET v == verb[d]
  IN /\ v.step = "start" => d \notin kept
     /\ v.step = "answered" =>
          /\ v.ok /\ v.kind \in Transacted => d \in kept
          /\ v.ok /\ v.kind # "operational" =>
               v.of = "allowed" /\ (enabled => \A i \in ItemsOf(v.kind) : RowIn(trail, d, i, "allowed"))
          /\ ~v.ok /\ v.kind \in Transacted => v.of = "refused"
          /\ ~v.ok /\ v.kind = "read" => v.ids = {}
          /\ troubles = 0 => (v.ok <=> v.kind # "refusal")
     /\ d \in kept /\ v.kind \in Transacted /\ enabled => \A i \in ItemsOf(v.kind) : RowIn(trail, d, i, "allowed")

TrailInv ==
  /\ trail \subseteq Rows /\ onTheWay \subseteq Rows /\ kept \subseteq Decisions
  /\ enabled \/ trail \cup onTheWay = {}
  /\ enabled \in BOOLEAN /\ troubles \in Nat
  /\ verb = [d \in Decisions |-> verb[d]]
  /\ \A d \in Decisions : Shape(d) /\ Written(d) /\ Refusing(d) /\ Holding(d) /\ Settled(d)

LEMMA TrailInvCorrect == TrailInv => TrailCorrect
<1> SUFFICES ASSUME TrailInv PROVE TrailCorrect
  OBVIOUS
<1>1. TrailTypeOK
  BY DEF TrailInv, Shape, Verb, TrailTypeOK
<1>2. AllowIsRecorded
  BY DEF TrailInv, Settled, RowIn, AllowIsRecorded, AllRows, DecisionDone
<1>3. CommittedIsRecorded
  BY DEF TrailInv, Settled, RowIn, CommittedIsRecorded, AllRows
<1>4. IdsNameRows
  BY DEF TrailInv, Shape, Verb, Settled, Holding, IdsNameRows, DecisionDone, DecisionKinds, Transacted, AllRows, RowsFor
<1>5. StrayAllowIsRefused
  <2> SUFFICES ASSUME NEW d \in Decisions, DecisionDone(d), verb[d].kind \in Transacted, d \notin kept,
                      AllRows(d, "allowed") \cap trail # {}
               PROVE  ~verb[d].ok /\ (troubles < 2 => AllRows(d, "refused") \subseteq trail)
    BY DEF StrayAllowIsRefused
  <2>1. ~verb[d].ok /\ verb[d].of = "refused"
    BY DEF TrailInv, Settled, DecisionDone
  <2>2. enabled
    BY DEF TrailInv
  <2> QED BY <2>1, <2>2 DEF TrailInv, Refusing, DecisionDone, AllRows, RowIn
<1>6. OffIsNoFailure
  BY DEF TrailInv, Settled, OffIsNoFailure, DecisionDone
<1> QED BY <1>1, <1>2, <1>3, <1>4, <1>5, <1>6 DEF TrailCorrect

LEMMA TrailInvInit == TrailInit => TrailInv
<1> SUFFICES ASSUME TrailInit PROVE TrailInv
  OBVIOUS
<1>1. /\ Waiting.step = "start" /\ Waiting.kind = "read" /\ Waiting.item = 1 /\ Waiting.of = "allowed"
      /\ Waiting.ok = FALSE /\ Waiting.ids = {} /\ Waiting \in Verb
  BY DEF Waiting, Verb, Steps, DecisionKinds
<1> QED BY <1>1 DEF TrailInit, TrailInv, Shape, Written, Refusing, Holding, Settled, Steps, DecisionKinds, ItemsOf, Transacted

---------------------------------------------------------------------------
(* The steps *)

Parts(d) == Shape(d) /\ Written(d) /\ Refusing(d) /\ Holding(d) /\ Settled(d)

\* A call that takes no step keeps its part: rows stay, and troubles only add up.
LEMMA OtherCalls ==
  ASSUME TrailInv, NEW d \in Decisions, verb'[d] = verb[d], trail \subseteq trail', d \in kept' <=> d \in kept,
         enabled' = enabled, troubles' \in Nat, troubles' >= troubles
  PROVE  Parts(d)'
<1>1. Parts(d) /\ troubles \in Nat
  BY DEF TrailInv, Parts
<1>2. \A i, outcome : RowIn(trail, d, i, outcome) => RowIn(trail', d, i, outcome)
  BY DEF RowIn
<1>3. Shape(d)'
  BY <1>1 DEF Parts, Shape
<1>4. Written(d)'
  BY <1>1, <1>2 DEF Parts, Written
<1>5. Refusing(d)'
  BY <1>1, <1>2 DEF Parts, Refusing
<1>6. Holding(d)'
  BY <1>1 DEF Parts, Holding
<1>7. Settled(d)'
  BY <1>1, <1>2 DEF Parts, Settled
<1> QED BY <1>3, <1>4, <1>5, <1>6, <1>7 DEF Parts

LEMMA ItemNumbers ==
  ASSUME NEW v, v.kind \in DecisionKinds, v.item \in ItemsOf(v.kind)
  PROVE  /\ ItemsOf(v.kind) \subseteq Nat /\ 1 \in ItemsOf(v.kind)
         /\ \A i \in ItemsOf(v.kind) : i >= 1
         /\ IsLast(v) => \A i \in ItemsOf(v.kind) : i <= v.item
         /\ ~IsLast(v) => v.item + 1 \in ItemsOf(v.kind)
         /\ v.kind # "batch" => IsLast(v) /\ v.item = 1
BY TrailAssumption DEF ItemsOf, IsLast

\* A call goes on after the write of a row, done or not.
LEMMA ResumeKeeps ==
  ASSUME TrailInv, NEW d \in Decisions, NEW recorded \in BOOLEAN,
         verb[d].step \in {"allow", "refuse", "hung"}, Resume(d, recorded),
         kept' = kept, enabled' = enabled, trail \subseteq trail', recorded => enabled /\ RowOf(d) \in trail',
         troubles' \in Nat, troubles' >= troubles,
         ~recorded /\ enabled => /\ troubles' >= 1
                                 /\ verb[d].of = "refused" /\ verb[d].kind \in Transacted => troubles' >= 2
  PROVE  Parts(d)'
<1> DEFINE o == verb[d]
           v == [o EXCEPT !.ids = @ \cup Named(d, recorded)]
           x == verb'[d]
<1>1. Parts(d) /\ troubles \in Nat /\ enabled \in BOOLEAN
  BY DEF TrailInv, Parts
<1>2. x = IF v.of = "allowed" THEN AfterAllow(v, recorded) ELSE AfterRefuse(v)
  BY DEF Resume, TrailInv
<1>3. /\ o \in Verb /\ v \in Verb /\ v.kind = o.kind /\ v.item = o.item /\ v.of = o.of /\ v.step = o.step
      /\ v.ids = o.ids \cup Named(d, recorded)
  <2>1. RowOf(d) \in Rows
    BY <1>1, TrailAssumption DEF Parts, Shape, Verb, RowOf, Rows, ItemsOf
  <2> QED BY <1>1, <2>1 DEF Parts, Shape, Verb, Named
<1> HIDE DEF o, v, x
<1>4. /\ ItemsOf(v.kind) \subseteq Nat /\ 1 \in ItemsOf(v.kind) /\ v.item \in ItemsOf(v.kind)
      /\ \A i \in ItemsOf(v.kind) : i >= 1
      /\ IsLast(v) => \A i \in ItemsOf(v.kind) : i <= v.item
      /\ ~IsLast(v) => v.item + 1 \in ItemsOf(v.kind)
      /\ v.kind # "batch" => IsLast(v) /\ v.item = 1
  <2>1. v.kind \in DecisionKinds /\ v.item \in ItemsOf(v.kind)
    BY <1>1, <1>3 DEF Parts, Shape, Verb, o
  <2> QED BY <2>1, ItemNumbers
\* The rows up to this item, if it was recorded.
<1>5. /\ \A i, outcome : RowIn(trail, d, i, outcome) => RowIn(trail', d, i, outcome)
      /\ recorded => RowIn(trail', d, v.item, v.of)
      /\ v.ids \subseteq RowsFor(d, v.kind, v.of) /\ v.ids \subseteq trail'
  <2>1. RowOf(d) = [call |-> d, item |-> v.item, outcome |-> v.of]
    BY <1>3 DEF RowOf, o
  <2>2. o.ids \subseteq RowsFor(d, o.kind, o.of) /\ o.ids \subseteq trail'
    BY <1>1 DEF Parts, Holding, o
  <2>3. Named(d, recorded) \subseteq RowsFor(d, v.kind, v.of) /\ Named(d, recorded) \subseteq trail'
    BY <1>4, <2>1 DEF Named, RowsFor
  <2> QED BY <1>3, <2>1, <2>2, <2>3 DEF RowIn
\* What the call had, by its item.
<1>6. /\ v.of = "allowed" /\ enabled => \A i \in ItemsOf(v.kind) : i < v.item => RowIn(trail', d, i, "allowed")
      /\ v.of = "refused" /\ v.kind \in Transacted => troubles' >= 1
      /\ v.of = "refused" /\ v.kind \in Transacted /\ enabled /\ troubles' < 2 =>
           recorded /\ \A i \in ItemsOf(v.kind) : i < v.item => RowIn(trail', d, i, "refused")
      /\ d \in kept /\ v.kind \in Transacted /\ enabled => \A i \in ItemsOf(v.kind) : RowIn(trail', d, i, "allowed")
  <2>1. /\ enabled /\ o.of = "allowed" => \A i \in ItemsOf(o.kind) : i < o.item => RowIn(trail, d, i, "allowed")
        /\ o.kind \in Transacted /\ o.of = "refused" => troubles >= 1 /\ (o.step = "hung" => troubles >= 2)
        /\ o.kind \in Transacted /\ o.of = "refused" /\ enabled /\ troubles < 2 /\ o.step = "refuse" =>
             \A i \in ItemsOf(o.kind) : i < o.item => RowIn(trail, d, i, "refused")
        /\ d \in kept /\ o.kind \in Transacted /\ enabled => \A i \in ItemsOf(o.kind) : RowIn(trail, d, i, "allowed")
        /\ o.step = "allow" => o.of = "allowed"
    BY <1>1 DEF Parts, Shape, Written, Refusing, Settled, o
  <2>2. o.step \in {"allow", "refuse", "hung"}
    BY DEF o
  <2>3. ~recorded /\ enabled /\ v.of = "refused" /\ v.kind \in Transacted => troubles' >= 2
    BY <1>3 DEF o
  <2> QED BY <1>1, <1>3, <1>5, <2>1, <2>2, <2>3
<1>7. /\ v.kind = "refusal" => v.of = "refused"
      /\ v.kind \in {"read", "operational"} => v.of = "allowed"
      /\ v.kind \notin Transacted /\ ~recorded => v.ids = {}
      /\ ~recorded /\ enabled => troubles' >= 1
  BY <1>1, <1>3 DEF Parts, Shape, Holding, Named, o
\* All the rows of the outcome, after the last.
<1>8. /\ v.of = "allowed" /\ enabled /\ recorded /\ IsLast(v) => \A i \in ItemsOf(v.kind) : RowIn(trail', d, i, "allowed")
      /\ v.of = "allowed" /\ enabled /\ recorded => \A i \in ItemsOf(v.kind) : i < v.item + 1 => RowIn(trail', d, i, "allowed")
      /\ v.of = "refused" /\ v.kind \in Transacted /\ enabled /\ troubles' < 2 /\ IsLast(v) =>
           \A i \in ItemsOf(v.kind) : RowIn(trail', d, i, "refused")
      /\ v.of = "refused" /\ v.kind \in Transacted /\ enabled /\ troubles' < 2 =>
           \A i \in ItemsOf(v.kind) : i < v.item + 1 => RowIn(trail', d, i, "refused")
  <2>1. v.item \in Nat /\ \A i \in ItemsOf(v.kind) : i \in Nat
    BY <1>4
  <2>2. \A i \in ItemsOf(v.kind) : i <= v.item => i < v.item \/ i = v.item
    BY <2>1
  <2>3. \A i \in ItemsOf(v.kind) : i < v.item + 1 => i <= v.item
    BY <2>1
  <2> QED BY <1>4, <1>5, <1>6, <2>2, <2>3
<1>9. CASE v.of = "allowed" /\ Sealed(recorded) /\ v.kind \in Transacted /\ IsLast(v)
  <2>1. x \in Verb /\ x.kind = v.kind /\ x.item = v.item /\ x.of = "allowed" /\ x.ids = v.ids /\ x.step = "commit"
    BY <1>2, <1>3, <1>4, <1>7, <1>9 DEF AfterAllow, Verb, Steps
  <2>2. Shape(d)'
    BY <1>1, <1>3, <1>4, <1>7, <1>9, <2>1 DEF Shape, Verb, Steps, x
  <2>3. Written(d)'
    BY <1>1, <1>3, <1>4, <1>6, <1>7, <1>8, <1>9, <2>1 DEF Written, Sealed, x
  <2>4. Refusing(d)'
    BY <1>1, <1>3, <1>4, <1>6, <1>7, <1>8, <1>9, <2>1 DEF Refusing, Sealed, Transacted, x
  <2>5. Holding(d)'
    BY <1>3, <1>4, <1>5, <1>7, <1>9, <2>1 DEF Holding, x
  <2>6. Settled(d)'
    BY <1>1, <1>3, <1>4, <1>5, <1>6, <1>7, <1>8, <1>9, <2>1 DEF Settled, Sealed, Transacted, Verb, DecisionKinds, x
  <2> QED BY <2>2, <2>3, <2>4, <2>5, <2>6 DEF Parts
<1>10. CASE v.of = "allowed" /\ Sealed(recorded) /\ v.kind \in Transacted /\ ~IsLast(v)
  <2>1. x \in Verb /\ x.kind = v.kind /\ x.item = v.item + 1 /\ x.of = "allowed" /\ x.ids = v.ids /\ x.step = "allow"
    BY <1>2, <1>3, <1>4, <1>7, <1>10 DEF AfterAllow, NextItem, Verb, Steps
  <2>2. Shape(d)'
    BY <1>1, <1>3, <1>4, <1>7, <1>10, <2>1 DEF Shape, Verb, Steps, x
  <2>3. Written(d)'
    BY <1>1, <1>3, <1>4, <1>6, <1>7, <1>8, <1>10, <2>1 DEF Written, Sealed, x
  <2>4. Refusing(d)'
    BY <1>1, <1>3, <1>4, <1>6, <1>7, <1>8, <1>10, <2>1 DEF Refusing, Sealed, Transacted, x
  <2>5. Holding(d)'
    BY <1>3, <1>4, <1>5, <1>7, <1>10, <2>1 DEF Holding, x
  <2>6. Settled(d)'
    BY <1>1, <1>3, <1>4, <1>5, <1>6, <1>7, <1>8, <1>10, <2>1 DEF Settled, Sealed, Transacted, Verb, DecisionKinds, x
  <2> QED BY <2>2, <2>3, <2>4, <2>5, <2>6 DEF Parts
<1>11. CASE v.of = "allowed" /\ v.kind \notin Transacted
  <2>1. x \in Verb /\ x.kind = v.kind /\ x.item = v.item /\ x.of = "allowed" /\ x.ids = v.ids /\ x.step = "answered"
        /\ x.ok = (Sealed(recorded) \/ v.kind = "operational")
    BY <1>2, <1>3, <1>4, <1>7, <1>11 DEF AfterAllow, Answered, Verb, Steps
  <2>2. Shape(d)'
    BY <1>1, <1>3, <1>4, <1>7, <1>11, <2>1 DEF Shape, Verb, Steps, x
  <2>3. Written(d)'
    BY <1>1, <1>3, <1>4, <1>6, <1>7, <1>8, <1>11, <2>1 DEF Written, Sealed, x
  <2>4. Refusing(d)'
    BY <1>1, <1>3, <1>4, <1>6, <1>7, <1>8, <1>11, <2>1 DEF Refusing, Sealed, Transacted, x
  <2>5. Holding(d)'
    BY <1>3, <1>4, <1>5, <1>7, <1>11, <2>1 DEF Holding, x
  <2>6. Settled(d)'
    BY <1>1, <1>3, <1>4, <1>5, <1>6, <1>7, <1>8, <1>11, <2>1 DEF Settled, Sealed, Transacted, Verb, DecisionKinds, x
  <2> QED BY <2>2, <2>3, <2>4, <2>5, <2>6 DEF Parts
<1>12. CASE v.of = "allowed" /\ ~Sealed(recorded) /\ v.kind \in Transacted
  <2>1. x \in Verb /\ x.kind = v.kind /\ x.item = 1 /\ x.of = "refused" /\ x.ids = {} /\ x.step = "refuse"
    <3>1. x = RolledBack(v)
      BY <1>2, <1>12 DEF AfterAllow
    <3> QED BY <1>3, <3>1 DEF RolledBack, Verb, Steps
  <2>2. Shape(d)'
    BY <1>1, <1>3, <1>4, <1>7, <1>12, <2>1 DEF Shape, Verb, Steps, Transacted, x
  <2>3. Written(d)'
    BY <1>1, <1>3, <1>4, <1>6, <1>7, <1>8, <1>12, <2>1 DEF Written, Sealed, x
  <2>4. Refusing(d)'
    BY <1>1, <1>3, <1>4, <1>6, <1>7, <1>8, <1>12, <2>1 DEF Refusing, Sealed, Transacted, x
  <2>5. Holding(d)'
    BY <1>3, <1>4, <1>5, <1>7, <1>12, <2>1 DEF Holding, x
  <2>6. Settled(d)'
    BY <1>1, <1>3, <1>4, <1>5, <1>6, <1>7, <1>8, <1>12, <2>1 DEF Settled, Sealed, Transacted, Verb, DecisionKinds, x
  <2> QED BY <2>2, <2>3, <2>4, <2>5, <2>6 DEF Parts
<1>13. CASE v.of = "refused" /\ IsLast(v)
  <2>1. x \in Verb /\ x.kind = v.kind /\ x.item = v.item /\ x.of = "refused" /\ x.ids = v.ids /\ x.step = "answered" /\ x.ok = FALSE
    BY <1>2, <1>3, <1>4, <1>7, <1>13 DEF AfterRefuse, Answered, Verb, Steps
  <2>2. Shape(d)'
    BY <1>1, <1>3, <1>4, <1>7, <1>13, <2>1 DEF Shape, Verb, Steps, x
  <2>3. Written(d)'
    BY <1>1, <1>3, <1>4, <1>6, <1>7, <1>8, <1>13, <2>1 DEF Written, Sealed, x
  <2>4. Refusing(d)'
    BY <1>1, <1>3, <1>4, <1>6, <1>7, <1>8, <1>13, <2>1 DEF Refusing, Sealed, Transacted, x
  <2>5. Holding(d)'
    BY <1>3, <1>4, <1>5, <1>7, <1>13, <2>1 DEF Holding, x
  <2>6. Settled(d)'
    BY <1>1, <1>3, <1>4, <1>5, <1>6, <1>7, <1>8, <1>13, <2>1 DEF Settled, Sealed, Transacted, Verb, DecisionKinds, x
  <2> QED BY <2>2, <2>3, <2>4, <2>5, <2>6 DEF Parts
<1>14. CASE v.of = "refused" /\ ~IsLast(v)
  <2>1. x \in Verb /\ x.kind = v.kind /\ x.item = v.item + 1 /\ x.of = "refused" /\ x.ids = v.ids /\ x.step = "refuse"
    BY <1>2, <1>3, <1>4, <1>7, <1>14 DEF AfterRefuse, NextItem, Verb, Steps
  <2>2. Shape(d)'
    BY <1>1, <1>3, <1>4, <1>7, <1>14, <2>1 DEF Shape, Verb, Steps, x
  <2>3. Written(d)'
    BY <1>1, <1>3, <1>4, <1>6, <1>7, <1>8, <1>14, <2>1 DEF Written, Sealed, x
  <2>4. Refusing(d)'
    BY <1>1, <1>3, <1>4, <1>6, <1>7, <1>8, <1>14, <2>1 DEF Refusing, Sealed, Transacted, x
  <2>5. Holding(d)'
    BY <1>3, <1>4, <1>5, <1>7, <1>14, <2>1 DEF Holding, Transacted, x
  <2>6. Settled(d)'
    BY <1>1, <1>3, <1>4, <1>5, <1>6, <1>7, <1>8, <1>14, <2>1 DEF Settled, Sealed, Transacted, Verb, DecisionKinds, x
  <2> QED BY <2>2, <2>3, <2>4, <2>5, <2>6 DEF Parts
<1> QED BY <1>3, <1>9, <1>10, <1>11, <1>12, <1>13, <1>14 DEF Verb

\* A step of one call keeps the parts of all the others.
LEMMA OneMoves ==
  ASSUME TrailInv, NEW d \in Decisions, NEW w, verb' = [verb EXCEPT ![d] = w], Parts(d)',
         trail \subseteq trail', trail' \subseteq Rows, onTheWay' \subseteq Rows, enabled \/ trail' \cup onTheWay' = {},
         kept' \subseteq Decisions, \A e \in Decisions \ {d} : e \in kept' <=> e \in kept,
         enabled' = enabled, troubles' \in Nat, troubles' >= troubles
  PROVE  TrailInv'
<1>1. ASSUME NEW e \in Decisions PROVE Parts(e)'
  <2>1. CASE e = d
    BY <2>1
  <2>2. CASE e # d
    <3>1. verb'[e] = verb[e]
      BY <2>2 DEF TrailInv
    <3> QED BY <2>2, <3>1, OtherCalls
  <2> QED BY <2>1, <2>2
<1>2. verb' = [e \in Decisions |-> verb'[e]] /\ enabled \in BOOLEAN
  BY DEF TrailInv
<1>3. \A e \in Decisions : (Shape(e) /\ Written(e) /\ Refusing(e) /\ Holding(e) /\ Settled(e))'
  BY <1>1 DEF Parts
<1> QED BY <1>2, <1>3 DEF TrailInv

LEMMA RowOfTyped == ASSUME TrailInv, NEW d \in Decisions PROVE RowOf(d) \in Rows
<1>1. Shape(d)
  BY DEF TrailInv
<1> QED BY <1>1, TrailAssumption DEF Shape, Verb, RowOf, Rows, ItemsOf

LEMMA BeginKeeps == ASSUME TrailInv, NEW d \in Decisions, BeginDecision(d) PROVE TrailInv'
<1> DEFINE o == verb[d]
           x == verb'[d]
<1>1. Parts(d) /\ troubles \in Nat /\ enabled \in BOOLEAN
  BY DEF TrailInv, Parts
<1>2. PICK k \in DecisionKinds :
        /\ o.step = "start"
        /\ verb' = [verb EXCEPT ![d].step = IF k = "refusal" THEN "refuse" ELSE "allow", ![d].kind = k,
                                ![d].of = IF k = "refusal" THEN "refused" ELSE "allowed"]
        /\ kept' = IF k = "operational" THEN kept \cup {d} ELSE kept
  BY DEF BeginDecision
<1>3. UNCHANGED <<trail, onTheWay, sink, enabled, troubles>>
  BY DEF BeginDecision
<1>4. /\ Waiting.step = "start" /\ Waiting.kind = "read" /\ Waiting.item = 1 /\ Waiting.of = "allowed"
      /\ Waiting.ok = FALSE /\ Waiting.ids = {} /\ Waiting \in Verb
  BY DEF Waiting, Verb, Steps, DecisionKinds
<1>5. /\ o \in Verb /\ o.item = 1 /\ o.ok = FALSE /\ o.ids = {} /\ d \notin kept
  BY <1>1, <1>2, <1>4 DEF Parts, Shape, Settled
<1>6. /\ x \in Verb /\ x.item = 1 /\ x.ok = FALSE /\ x.ids = {} /\ x.kind = k
      /\ x.step = IF k = "refusal" THEN "refuse" ELSE "allow"
      /\ x.of = IF k = "refusal" THEN "refused" ELSE "allowed"
  BY <1>2, <1>5 DEF TrailInv, Verb, Steps
<1> HIDE DEF o, x
<1>7. 1 \in ItemsOf(k) /\ \A i \in ItemsOf(k) : ~(i < 1)
  BY TrailAssumption DEF ItemsOf
<1>8. Shape(d)'
  BY <1>1, <1>6, <1>7 DEF Shape, Transacted, x
<1>9. Written(d)'
  BY <1>6, <1>7 DEF Written, x
<1>10. Refusing(d)'
  BY <1>6, <1>7 DEF Refusing, Transacted, x
<1>11. Holding(d)'
  BY <1>6 DEF Holding, x
<1>12. Settled(d)'
  <2>1. k \in Transacted => d \notin kept'
    BY <1>2, <1>5 DEF Transacted
  <2> QED BY <1>6, <2>1 DEF Settled, x
<1>13. Parts(d)'
  BY <1>8, <1>9, <1>10, <1>11, <1>12 DEF Parts
<1>14. kept' \subseteq Decisions /\ \A e \in Decisions \ {d} : e \in kept' <=> e \in kept
  BY <1>2 DEF TrailInv
<1>15. verb' = [verb EXCEPT ![d] = x]
  BY <1>2 DEF TrailInv, x
<1> QED BY <1>1, <1>3, <1>13, <1>14, <1>15, OneMoves DEF TrailInv

LEMMA RecordKeeps == ASSUME TrailInv, NEW d \in Decisions, Record(d) PROVE TrailInv'
<1>1. Parts(d) /\ troubles \in Nat /\ enabled \in BOOLEAN /\ verb[d].step \in {"allow", "refuse"}
  BY DEF TrailInv, Parts, Record
<1>2. UNCHANGED <<kept, sink, enabled>> /\ RowOf(d) \in Rows
  BY RowOfTyped DEF Record
\* Resume, with what the row has come to.
<1>3. ASSUME NEW recorded \in BOOLEAN, Resume(d, recorded), trail \subseteq trail', trail' \subseteq Rows,
             recorded => enabled /\ RowOf(d) \in trail', enabled \/ trail' = {}, onTheWay' = onTheWay,
             troubles' \in Nat, troubles' >= troubles, ~recorded /\ enabled => troubles' = troubles + 1
      PROVE  TrailInv'
  <2>1. ~recorded /\ enabled => /\ troubles' >= 1
                                /\ verb[d].of = "refused" /\ verb[d].kind \in Transacted => troubles' >= 2
    <3>1. verb[d].of = "refused" /\ verb[d].kind \in Transacted => troubles >= 1
      BY <1>1 DEF Parts, Refusing
    <3> QED BY <1>1, <1>3, <3>1
  <2>2. Parts(d)'
    BY <1>1, <1>2, <1>3, <2>1, ResumeKeeps
  <2>3. verb' = [verb EXCEPT ![d] = verb'[d]]
    BY <1>3 DEF Resume, TrailInv
  <2>4. kept' \subseteq Decisions /\ (enabled \/ trail' \cup onTheWay' = {}) /\ onTheWay' \subseteq Rows
    BY <1>2, <1>3 DEF TrailInv
  <2> QED BY <1>2, <1>3, <2>2, <2>3, <2>4, OneMoves
<1>4. CASE NotRecorded(d)
  <2>1. Resume(d, FALSE) /\ UNCHANGED <<trail, onTheWay, troubles>> /\ ~enabled
    BY <1>4 DEF NotRecorded
  <2>2. trail' \subseteq Rows /\ trail' = {} /\ trail \subseteq trail' /\ onTheWay' = onTheWay
    BY <2>1 DEF TrailInv
  <2>3. troubles' \in Nat /\ troubles' >= troubles
    BY <1>1, <2>1
  <2> QED BY <1>3, <2>1, <2>2, <2>3
<1>5. CASE Stored(d)
  <2>1. Resume(d, TRUE) /\ UNCHANGED <<onTheWay, troubles>> /\ enabled /\ trail' = trail \cup {RowOf(d)}
    BY <1>5 DEF Stored
  <2>2. trail' \subseteq Rows /\ trail \subseteq trail' /\ RowOf(d) \in trail' /\ onTheWay' = onTheWay
    BY <1>2, <2>1 DEF TrailInv
  <2>3. troubles' \in Nat /\ troubles' >= troubles
    BY <1>1, <2>1
  <2> QED BY <1>3, <2>1, <2>2, <2>3
<1>6. CASE Failed(d)
  <2>1. trail \subseteq trail' /\ trail' \subseteq trail \cup {RowOf(d)}
    BY <1>6 DEF Failed
  <2>2. Resume(d, FALSE) /\ onTheWay' = onTheWay /\ enabled /\ troubles' = troubles + 1
    BY <1>6 DEF Failed, Trouble
  <2>3. trail' \subseteq Rows
    BY <1>2, <2>1 DEF TrailInv
  <2>4. troubles' \in Nat /\ troubles' >= troubles
    BY <1>1, <2>2
  <2> QED BY <1>3, <2>1, <2>2, <2>3, <2>4
<1>7. CASE Hangs(d)
  <2> DEFINE o == verb[d]
             x == verb'[d]
  <2>1. o \in Verb /\ x = [o EXCEPT !.step = "hung"]
    BY <1>1, <1>7 DEF Parts, Shape, Hangs, TrailInv
  <2>2. x \in Verb /\ x.kind = o.kind /\ x.item = o.item /\ x.of = o.of /\ x.ok = o.ok /\ x.ids = o.ids /\ x.step = "hung"
    BY <2>1 DEF Verb, Steps
  <2>3. enabled /\ trail' = trail /\ troubles' = troubles + 1
    BY <1>7 DEF Hangs, Trouble
  <2>4. o.kind \in Transacted /\ o.of = "refused" => troubles >= 1
    BY <1>1 DEF Parts, Refusing
  <2>5. o.step \in {"allow", "refuse"}
    BY <1>1
  <2> HIDE DEF o, x
  <2>6. Shape(d)'
    BY <1>1, <1>2, <2>2, <2>3, <2>5 DEF Parts, Shape, o, x
  <2>7. Written(d)'
    <3>1. enabled /\ o.of = "allowed" => \A i \in ItemsOf(o.kind) : i < o.item => RowIn(trail, d, i, "allowed")
      BY <1>1, <2>5 DEF Parts, Shape, Written, o
    <3> QED BY <1>2, <2>2, <2>3, <3>1 DEF Written, x
  <2>8. Refusing(d)'
    BY <1>1, <1>2, <2>2, <2>3, <2>4 DEF Refusing, x
  <2>9. Holding(d)'
    BY <1>1, <2>2, <2>3, <2>5 DEF Parts, Holding, o, x
  <2>10. Settled(d)'
    <3>1. d \in kept /\ o.kind \in Transacted /\ enabled => \A i \in ItemsOf(o.kind) : RowIn(trail, d, i, "allowed")
      BY <1>1 DEF Parts, Settled, o
    <3> QED BY <1>2, <2>2, <2>3, <3>1 DEF Settled, x
  <2>11. verb' = [verb EXCEPT ![d] = x] /\ onTheWay' \subseteq Rows /\ kept' \subseteq Decisions
    BY <1>2, <1>7 DEF Hangs, TrailInv, x
  <2>12. Parts(d)'
    BY <2>6, <2>7, <2>8, <2>9, <2>10 DEF Parts
  <2>13. trail' \subseteq Rows /\ enabled' = enabled /\ kept' = kept
    BY <1>2, <2>3 DEF TrailInv
  <2>14. troubles' \in Nat /\ troubles' >= troubles
    BY <1>1, <2>3
  <2>15. (enabled \/ trail' \cup onTheWay' = {}) /\ trail \subseteq trail' /\ \A e \in Decisions \ {d} : e \in kept' <=> e \in kept
    BY <2>3, <2>13
  <2> QED BY <2>11, <2>12, <2>13, <2>14, <2>15, OneMoves
<1> QED BY <1>4, <1>5, <1>6, <1>7 DEF Record

LEMMA GivesUpKeeps == ASSUME TrailInv, NEW d \in Decisions, GivesUp(d) PROVE TrailInv'
<1>1. Parts(d) /\ troubles \in Nat /\ verb[d].step = "hung"
  BY DEF TrailInv, Parts, GivesUp, Deadline
<1>2. UNCHANGED <<trail, onTheWay, kept, sink, enabled, troubles>> /\ Resume(d, FALSE)
  BY DEF GivesUp
<1>3. troubles >= 1 /\ (verb[d].of = "refused" /\ verb[d].kind \in Transacted => troubles >= 2)
  BY <1>1 DEF Parts, Refusing
<1>4. Parts(d)'
  <2>1. kept' = kept /\ enabled' = enabled /\ trail' = trail /\ troubles' = troubles /\ Resume(d, FALSE)
    BY <1>2
  <2>2. /\ troubles' \in Nat /\ troubles' >= troubles /\ troubles' >= 1
        /\ verb[d].of = "refused" /\ verb[d].kind \in Transacted => troubles' >= 2
    BY <1>1, <1>3, <2>1
  <2>3. verb[d].step \in {"allow", "refuse", "hung"}
    BY <1>1
  <2> QED BY <2>1, <2>2, <2>3, ResumeKeeps
<1>5. verb' = [verb EXCEPT ![d] = verb'[d]]
  BY <1>2 DEF Resume, TrailInv
<1> QED BY <1>1, <1>2, <1>4, <1>5, OneMoves DEF TrailInv

LEMMA CommitKeeps == ASSUME TrailInv, NEW d \in Decisions, CommitRow(d) PROVE TrailInv'
<1> DEFINE o == verb[d]
           x == verb'[d]
<1>1. /\ Parts(d) /\ troubles \in Nat /\ enabled \in BOOLEAN /\ o.step = "commit"
      /\ UNCHANGED <<trail, onTheWay, sink, enabled>>
  BY DEF TrailInv, Parts, CommitRow
<1>2. o \in Verb /\ o.of = "allowed" /\ o.kind \in Transacted
  BY <1>1 DEF Parts, Shape
\* Every row of the answer is there.
<1>3. /\ enabled => \A i \in ItemsOf(o.kind) : RowIn(trail, d, i, "allowed")
      /\ o.item \in ItemsOf(o.kind) /\ o.ids \subseteq RowsFor(d, o.kind, o.of) /\ o.ids \subseteq trail
  BY <1>1, <1>2 DEF Parts, Shape, Written, Holding
<1>4. verb' = [verb EXCEPT ![d] = x]
  BY DEF CommitRow, TrailInv
<1>5. CASE kept' = kept \cup {d} /\ verb' = [verb EXCEPT ![d] = Answered(@, TRUE)] /\ UNCHANGED troubles
  <2>1. x = [o EXCEPT !.step = "answered", !.ok = TRUE]
    BY <1>5 DEF Answered, TrailInv
  <2>2. /\ x \in Verb /\ x.kind = o.kind /\ x.item = o.item /\ x.of = "allowed" /\ x.ids = o.ids
        /\ x.step = "answered" /\ x.ok = TRUE
    BY <1>2, <2>1 DEF Verb, Steps
  <2> HIDE DEF o, x
  <2>3. Shape(d)'
    BY <1>1, <1>2, <1>3, <2>2 DEF Shape, Transacted, x
  <2>4. Written(d)' /\ Refusing(d)'
    BY <2>2 DEF Written, Refusing, x
  <2>5. Holding(d)'
    BY <1>1, <1>2, <1>3, <2>2 DEF Holding, x
  <2>6. Settled(d)'
    BY <1>1, <1>2, <1>3, <1>5, <2>2 DEF Settled, Transacted, x
  <2>7. Parts(d)'
    BY <2>3, <2>4, <2>5, <2>6 DEF Parts
  <2>8. kept' \subseteq Decisions /\ \A e \in Decisions \ {d} : e \in kept' <=> e \in kept
    BY <1>5 DEF TrailInv
  <2>9. trail' = trail /\ onTheWay' = onTheWay /\ enabled' = enabled /\ troubles' = troubles /\ troubles' >= troubles
    BY <1>1, <1>5
  <2> QED BY <1>1, <1>4, <2>7, <2>8, <2>9, OneMoves DEF TrailInv
<1>6. CASE Trouble /\ (kept' = kept \/ kept' = kept \cup {d}) /\ verb' = [verb EXCEPT ![d] = CatchOf(@)]
  <2>1. x = [o EXCEPT !.step = "refuse", !.of = "refused", !.item = 1, !.ids = {}]
    BY <1>6 DEF CatchOf, RolledBack, TrailInv
  <2> HIDE DEF o, x
  <2>2. x \in Verb /\ x.kind = o.kind /\ x.item = 1 /\ x.of = "refused" /\ x.ids = {} /\ x.step = "refuse"
    BY <1>2, <2>1 DEF Verb, Steps
  <2>3. troubles' = troubles + 1
    BY <1>6 DEF Trouble
  <2>4. 1 \in ItemsOf(o.kind) /\ \A i \in ItemsOf(o.kind) : ~(i < 1)
    BY TrailAssumption DEF ItemsOf
  <2>5. Shape(d)'
    BY <1>1, <1>2, <2>2, <2>4 DEF Shape, Transacted, x
  <2>6. Written(d)'
    BY <2>2 DEF Written, x
  <2>7. Refusing(d)'
    BY <1>1, <2>2, <2>3, <2>4 DEF Refusing, x
  <2>8. Holding(d)'
    BY <2>2 DEF Holding, x
  <2>9. Settled(d)'
    BY <1>1, <1>3, <2>2 DEF Settled, x
  <2>10. Parts(d)'
    BY <2>5, <2>6, <2>7, <2>8, <2>9 DEF Parts
  <2>11. kept' \subseteq Decisions /\ \A e \in Decisions \ {d} : e \in kept' <=> e \in kept
    BY <1>6 DEF TrailInv
  <2> QED BY <1>1, <1>4, <2>3, <2>10, <2>11, OneMoves DEF TrailInv
<1> QED BY <1>5, <1>6 DEF CommitRow

LEMMA ArrivesKeeps == ASSUME TrailInv, ArrivesLate PROVE TrailInv'
<1>1. PICK r \in onTheWay : trail' = trail \cup {r} /\ onTheWay' = onTheWay \ {r}
  BY DEF ArrivesLate
<1>2. UNCHANGED <<verb, kept, sink, enabled, troubles>>
  BY DEF ArrivesLate
<1>3. ASSUME NEW d \in Decisions PROVE Parts(d)'
  BY <1>1, <1>2, OtherCalls DEF TrailInv
<1>4. \A d \in Decisions : (Shape(d) /\ Written(d) /\ Refusing(d) /\ Holding(d) /\ Settled(d))'
  BY <1>3 DEF Parts
<1> QED BY <1>1, <1>2, <1>4 DEF TrailInv

LEMMA DeathKeeps == ASSUME TrailInv, ServerDies PROVE TrailInv'
<1>1. UNCHANGED <<trail, onTheWay, kept, sink, enabled>> /\ troubles \in Nat /\ troubles' = troubles + 1
  BY DEF ServerDies, Trouble, TrailInv
<1>2. ASSUME NEW d \in Decisions PROVE Parts(d)'
  <2> DEFINE o == verb[d]
             x == verb'[d]
  <2>1. Parts(d)
    BY DEF TrailInv, Parts
  <2>2. CASE o.step \in {"start", "answered"}
    <3>1. verb'[d] = verb[d]
      BY <2>2 DEF ServerDies
    <3> QED BY <1>1, <3>1, OtherCalls
  <2>3. CASE o.step \notin {"start", "answered"}
    <3>1. x = [o EXCEPT !.step = "dead"] /\ o \in Verb
      BY <2>1, <2>3 DEF ServerDies, Parts, Shape
    <3>2. /\ x \in Verb /\ x.kind = o.kind /\ x.item = o.item /\ x.of = o.of /\ x.ok = o.ok /\ x.ids = o.ids
          /\ x.step = "dead"
      BY <3>1 DEF Verb, Steps
    <3> HIDE DEF o, x
    <3>3. Shape(d)'
      BY <2>1, <2>3, <3>2 DEF Parts, Shape, o, x
    <3>4. Written(d)'
      BY <3>2 DEF Written, x
    <3>5. Refusing(d)'
      BY <1>1, <2>1, <3>2 DEF Parts, Refusing, o, x
    <3>6. Holding(d)'
      BY <1>1, <2>1, <3>2 DEF Parts, Holding, o, x
    <3>7. Settled(d)'
      BY <1>1, <2>1, <3>2 DEF Parts, Settled, o, x
    <3> QED BY <3>3, <3>4, <3>5, <3>6, <3>7 DEF Parts
  <2> QED BY <2>2, <2>3
<1>3. \A d \in Decisions : (Shape(d) /\ Written(d) /\ Refusing(d) /\ Holding(d) /\ Settled(d))'
  BY <1>2 DEF Parts
<1>4. verb' = [d \in Decisions |-> verb'[d]]
  BY DEF ServerDies
<1> QED BY <1>1, <1>3, <1>4 DEF TrailInv

LEMMA StutterKeeps == ASSUME TrailInv, UNCHANGED trailVars PROVE TrailInv'
<1>1. UNCHANGED <<verb, trail, onTheWay, kept, sink, enabled, troubles>>
  BY DEF trailVars
<1>2. ASSUME NEW d \in Decisions PROVE Parts(d)'
  BY <1>1, OtherCalls DEF TrailInv
<1>3. \A d \in Decisions : (Shape(d) /\ Written(d) /\ Refusing(d) /\ Holding(d) /\ Settled(d))'
  BY <1>2 DEF Parts
<1> QED BY <1>1, <1>3 DEF TrailInv

LEMMA TrailInvStep == TrailInv /\ [TrailNext]_trailVars => TrailInv'
<1> SUFFICES ASSUME TrailInv, [TrailNext]_trailVars PROVE TrailInv'
  OBVIOUS
<1>1. CASE \E d \in Decisions : DecisionStep(d)
  BY <1>1, BeginKeeps, RecordKeeps, GivesUpKeeps, CommitKeeps DEF DecisionStep
<1>2. CASE ArrivesLate
  BY <1>2, ArrivesKeeps
<1>3. CASE ServerDies
  BY <1>3, DeathKeeps
<1>4. CASE UNCHANGED trailVars
  BY <1>4, StutterKeeps
<1> QED BY <1>1, <1>2, <1>3, <1>4 DEF TrailNext

---------------------------------------------------------------------------
(* What the trail promises *)

\* No caller is told yes, and nothing a write or a batch committed is kept, without every row of
\* it; an id in an answer names a row of that outcome; an allow row of what was undone has the
\* refusal beside it; and a deployment that switched its trail off is refused nothing for that
\* (audit/decision.ts, verbs/propose.ts:728-741): for any number of calls, any batch, any
\* destination, and any number of writes and commits that fail, are lost or come late.
THEOREM TrailCorrectAlways == TrailSpec => []TrailCorrect
<1>1. TrailSpec => []TrailInv
  BY TrailInvInit, TrailInvStep, PTL DEF TrailSpec
<1> QED BY <1>1, TrailInvCorrect, PTL

---------------------------------------------------------------------------
(* The change feed: its inductive invariant *)

\* Every entry, committed or not.
Fed == log \cup UNION {tx[w].fed : w \in Writers}

\* A transaction is older than the next one, and its entries carry its id.
Stamps ==
  \A w \in Writers : /\ tx[w].xid < nextXid
                     /\ \A e \in tx[w].fed : e.xid = tx[w].xid
                     /\ w \in Importers /\ tx[w].pc # "feed" => tx[w].fed = {}

\* Entries have numbers of their own.
Numbers ==
  /\ \A e \in Fed : e.seq < nextSeq
  /\ \A e, f \in Fed : e.seq = f.seq => e = f

Finite ==
  IsFiniteSet(log) /\ \A w \in Writers : IsFiniteSet(tx[w].fed) /\ IsFiniteSet(tx[w].wrote)

\* An entry the client has passed, committed or not, is younger than one it has.
Passed ==
  \A e \in Fed :
    e.seq <= since /\ e.rev.coll \in Readable /\ e \notin got =>
      \E g \in got : g.seq > e.seq /\ g.xid < e.xid

\* A writer writes as itself and feeds what it has written; what an import feeds has
\* been committed.
Sources ==
  \A w \in Writers :
    /\ \A r \in tx[w].wrote : r.by = w
    /\ \A e \in tx[w].fed : e.rev \in tx[w].wrote
    /\ tx[w].pc = "feed" => w \in Importers /\ tx[w].wrote \subseteq revised

Ordered == TypeOK /\ Stamps /\ Numbers /\ Finite

\* The watermark is on top of the order, and only it needs ids that fit in xmin.
IInv == Ordered /\ Passed

Exact == Sources /\ InFeed /\ NoPhantom

---------------------------------------------------------------------------

LEMMA ClosedType ==
  /\ Closed \in Transaction /\ Closed.fed = {} /\ Closed.wrote = {} /\ Closed.xid = 0
  /\ Closed.pc = "idle"
BY FeedAssumption DEF Closed, Transaction

LEMMA Updated ==
  ASSUME NEW r \in Transaction, NEW x \in 0 .. MaxXid,
         NEW p \in {"idle", "open", "feed"}, NEW W \in SUBSET Revision, NEW F \in SUBSET Entry
  PROVE  /\ [r EXCEPT !.pc = p, !.xid = x, !.wrote = W] \in Transaction
         /\ [r EXCEPT !.xid = x, !.fed = F] \in Transaction
         /\ [r EXCEPT !.pc = p, !.xid = x] \in Transaction
BY DEF Transaction

LEMMA FeedInit == Init => IInv
<1> SUFFICES ASSUME Init PROVE IInv
  OBVIOUS
<1>1. \A w \in Writers : tx[w] = Closed
  BY DEF Init
<1>2. TypeOK
  BY ClosedType, FeedAssumption DEF Init, TypeOK
<1>3. Fed = {}
  BY <1>1, ClosedType DEF Init, Fed
<1>4. Stamps /\ Numbers
  BY <1>1, <1>3, ClosedType DEF Init, Stamps, Numbers
<1>5. Finite
  BY <1>1, ClosedType, FS_EmptySet DEF Init, Finite
<1>6. Passed
  BY <1>3 DEF Passed
<1> QED BY <1>2, <1>4, <1>5, <1>6 DEF Ordered, IInv

\* A step that adds no entry and moves no cursor, but may forget some.
LEMMA FewerEntries ==
  ASSUME Ordered, Fed' \subseteq Fed, UNCHANGED <<nextSeq, since, got>>
  PROVE  Numbers' /\ (Passed => Passed')
BY DEF Ordered, Numbers, Passed

LEMMA WriteRevisionStep ==
  ASSUME Ordered, NEW w \in Writers, NEW c \in Collections, WriteRevision(w, c)
  PROVE  Ordered' /\ (Passed => Passed')
<1> DEFINE rev == [by |-> w, xid |-> Stamped(w), n |-> Cardinality(tx[w].wrote) + 1, coll |-> c]
           t == [tx[w] EXCEPT !.pc = "open", !.xid = Stamped(w), !.wrote = @ \cup {rev}]
<1>1. tx[w] \in Transaction /\ nextXid \in Nat \ {0} /\ MaxXid \in Nat /\ MaxBatch \in Nat
  BY FeedAssumption DEF Ordered, TypeOK
<1>2. Stamped(w) \in 1 .. MaxXid /\ nextXid' \in 1 .. MaxXid + 1 /\ Stamped(w) < nextXid' /\ nextXid <= nextXid'
  <2>1. CASE tx[w].xid = 0
    BY <1>1, <2>1 DEF WriteRevision, Stamped, Stamp
  <2>2. CASE tx[w].xid # 0
    BY <1>1, <2>2 DEF WriteRevision, Stamped, Stamp, Transaction, Ordered, TypeOK, Stamps
  <2> QED BY <2>1, <2>2
<1>3. tx' = [tx EXCEPT ![w] = t] /\ UNCHANGED <<nextSeq, revised, log, since, got>>
  BY DEF WriteRevision, Ordered, TypeOK
<1>4. rev \in Revision
  <2>1. Cardinality(tx[w].wrote) \in Nat /\ Cardinality(tx[w].wrote) < MaxBatch
    BY FS_CardinalityType DEF Ordered, Finite, WriteRevision
  <2>2. Cardinality(tx[w].wrote) + 1 \in 1 .. MaxBatch
    BY <1>1, <2>1
  <2> QED BY <1>2, <2>2 DEF Revision
<1>5. t \in Transaction
  <2>1. tx[w].wrote \cup {rev} \in SUBSET Revision
    BY <1>1, <1>4 DEF Transaction
  <2>2. Stamped(w) \in 0 .. MaxXid
    BY <1>1, <1>2
  <2> HIDE DEF rev
  <2> QED BY <1>1, <2>1, <2>2, Updated
<1>6. t.fed = tx[w].fed /\ t.pc = "open" /\ t.xid = Stamped(w) /\ t.wrote = tx[w].wrote \cup {rev}
  BY <1>1 DEF Transaction
<1> HIDE DEF t, rev
<1>7. \A v \in Writers : tx'[v] = IF v = w THEN t ELSE tx[v]
  BY <1>3 DEF Ordered, TypeOK
<1>8. TypeOK'
  BY <1>2, <1>3, <1>5 DEF Ordered, TypeOK
<1>9. Fed' = Fed
  BY <1>3, <1>6, <1>7 DEF Fed
<1>10. Stamps'
  <2>1. \A e \in t.fed : e.xid = Stamped(w)
    BY <1>1, <1>6 DEF Ordered, Stamps, Stamped, Transaction, Entry
  <2>2. w \in Importers => tx[w].fed = {}
    BY DEF WriteRevision, Ordered, Stamps
  <2>3. \A v \in Writers : tx[v].xid < nextXid'
    BY <1>1, <1>2 DEF Ordered, Stamps, TypeOK, Transaction
  <2> QED BY <1>2, <1>6, <1>7, <2>1, <2>2, <2>3 DEF Ordered, Stamps
<1>11. Finite'
  BY <1>3, <1>6, <1>7, FS_AddElement DEF Ordered, Finite
<1> QED BY <1>3, <1>8, <1>9, <1>10, <1>11, FewerEntries DEF Ordered

LEMMA WriteChangeLogStep ==
  ASSUME Ordered, NEW w \in Writers, WriteChangeLog(w)
  PROVE  Ordered' /\ (Passed => Passed')
<1>1. PICK rev \in Owed(w) :
        tx' = [tx EXCEPT ![w].xid = Stamped(w),
                         ![w].fed = @ \cup {[seq |-> nextSeq, xid |-> Stamped(w), rev |-> rev]}]
  BY DEF WriteChangeLog
<1> DEFINE new == [seq |-> nextSeq, xid |-> Stamped(w), rev |-> rev]
           t == [tx[w] EXCEPT !.xid = Stamped(w), !.fed = @ \cup {new}]
<1>2. tx[w] \in Transaction /\ nextXid \in Nat \ {0} /\ nextSeq \in 1 .. MaxSeq
        /\ MaxXid \in Nat /\ MaxSeq \in Nat
  BY FeedAssumption DEF WriteChangeLog, Ordered, TypeOK
<1>3. Stamped(w) \in 1 .. MaxXid /\ nextXid' \in 1 .. MaxXid + 1 /\ Stamped(w) < nextXid' /\ nextXid <= nextXid'
  <2>1. CASE tx[w].xid = 0
    BY <1>2, <2>1 DEF WriteChangeLog, Stamped, Stamp
  <2>2. CASE tx[w].xid # 0
    BY <1>2, <2>2 DEF WriteChangeLog, Stamped, Stamp, Transaction, Ordered, TypeOK, Stamps
  <2> QED BY <2>1, <2>2
<1>4. new \in Entry
  <2>1. rev \in Revision
    BY <1>2 DEF Owed, Transaction
  <2> QED BY <1>2, <1>3, <2>1 DEF Entry
<1>5. t \in Transaction
  <2>1. tx[w].fed \cup {new} \in SUBSET Entry
    BY <1>2, <1>4 DEF Transaction
  <2>2. Stamped(w) \in 0 .. MaxXid
    BY <1>2, <1>3
  <2> HIDE DEF new
  <2> QED BY <1>2, <2>1, <2>2, Updated
<1>6. t.fed = tx[w].fed \cup {new} /\ t.pc = tx[w].pc /\ t.xid = Stamped(w) /\ t.wrote = tx[w].wrote
  BY <1>2 DEF Transaction
<1>7. nextSeq' = nextSeq + 1 /\ UNCHANGED <<revised, log, since, got>>
  BY DEF WriteChangeLog
<1>8. \A v \in Writers : tx'[v] = IF v = w THEN t ELSE tx[v]
  BY <1>1 DEF Ordered, TypeOK
<1>9. new.seq = nextSeq /\ new.xid = Stamped(w)
  OBVIOUS
<1>10. TypeOK'
  <2>1. tx' \in [Writers -> Transaction]
    BY <1>1, <1>5 DEF Ordered, TypeOK
  <2>2. nextSeq' \in 1 .. MaxSeq + 1 /\ since' \in 0 .. nextSeq' - 1
    BY <1>2, <1>7 DEF Ordered, TypeOK
  <2> QED BY <1>3, <1>7, <2>1, <2>2 DEF Ordered, TypeOK
<1> HIDE DEF t, new
<1>11. Fed' = Fed \cup {new}
  BY <1>6, <1>7, <1>8 DEF Fed
<1>12. Stamps'
  <2>1. \A e \in t.fed : e.xid = Stamped(w)
    BY <1>2, <1>6, <1>9 DEF Ordered, Stamps, Stamped, Transaction, Entry
  <2>2. w \in Importers => t.pc = "feed"
    BY <1>6 DEF WriteChangeLog
  <2>3. \A v \in Writers : tx[v].xid < nextXid'
    BY <1>2, <1>3 DEF Ordered, Stamps, TypeOK, Transaction
  <2> QED BY <1>3, <1>6, <1>8, <2>1, <2>2, <2>3 DEF Ordered, Stamps
<1>13. \A e \in Fed : e.seq \in Nat
  BY DEF Fed, Ordered, TypeOK, Transaction, Entry
<1>14. Numbers'
  BY <1>2, <1>7, <1>9, <1>11, <1>13 DEF Ordered, Numbers
<1>15. Finite'
  BY <1>6, <1>7, <1>8, FS_AddElement DEF Ordered, Finite
<1>16. Passed => Passed'
  <2>1. ~(new.seq <= since)
    BY <1>2, <1>9 DEF Ordered, TypeOK
  <2> QED BY <1>7, <1>11, <2>1 DEF Ordered, Passed
<1> QED BY <1>10, <1>12, <1>14, <1>15, <1>16 DEF Ordered

\* A transaction is over: its entries are in the log or gone.
LEMMA FinishStep ==
  ASSUME Ordered, NEW w \in Writers, Finish(w)
  PROVE  Ordered' /\ (Passed => Passed')
<1>1. UNCHANGED <<nextXid, nextSeq, since, got>>
  BY DEF Finish, Commit, CommitImport, CommitFeed, Abort
<1>2. tx[w] \in Transaction
  BY DEF Ordered, TypeOK
<1>3. CASE CommitImport(w)
  <2> DEFINE t == [tx[w] EXCEPT !.pc = "feed", !.xid = 0]
  <2>1. t \in Transaction /\ t.fed = {} /\ t.wrote = tx[w].wrote /\ t.xid = 0 /\ t.pc = "feed"
    <3>1. t.fed = {} /\ t.wrote = tx[w].wrote /\ t.xid = 0 /\ t.pc = "feed"
      BY <1>2, <1>3 DEF CommitImport, Transaction, Ordered, Stamps
    <3>2. 0 \in 0 .. MaxXid
      BY FeedAssumption
    <3>3. t \in Transaction
      BY <1>2, <3>2, Updated
    <3> QED BY <3>1, <3>3
  <2>2. tx' = [tx EXCEPT ![w] = t] /\ log' = log /\ revised' = revised \cup tx[w].wrote
    BY <1>3 DEF CommitImport, Ordered, TypeOK
  <2> HIDE DEF t
  <2>3. \A v \in Writers : tx'[v] = IF v = w THEN t ELSE tx[v]
    BY <2>2 DEF Ordered, TypeOK
  <2>4. tx[w].fed = {}
    BY <1>3 DEF CommitImport, Ordered, Stamps
  <2>5. TypeOK'
    BY <1>1, <1>2, <2>1, <2>2 DEF Ordered, TypeOK, Transaction
  <2>6. Fed' \subseteq Fed
    BY <2>1, <2>2, <2>3, <2>4 DEF Fed
  <2>7. Stamps'
    BY <1>1, <2>1, <2>3 DEF Ordered, Stamps, TypeOK
  <2>8. Finite'
    BY <2>1, <2>2, <2>3, FS_EmptySet DEF Ordered, Finite
  <2> QED BY <1>1, <2>5, <2>6, <2>7, <2>8, FewerEntries DEF Ordered
<1>4. CASE ~CommitImport(w)
  <2>1. tx' = [tx EXCEPT ![w] = Closed] /\ (log' = log \/ log' = log \cup tx[w].fed)
          /\ (revised' = revised \/ revised' = revised \cup tx[w].wrote)
    BY <1>4 DEF Finish, Commit, CommitFeed, Abort
  <2>2. \A v \in Writers : tx'[v] = IF v = w THEN Closed ELSE tx[v]
    BY <2>1 DEF Ordered, TypeOK
  <2>3. TypeOK'
    BY <1>1, <1>2, <2>1, ClosedType DEF Ordered, TypeOK, Transaction
  <2>4. Fed' \subseteq Fed
    BY <2>1, <2>2, ClosedType DEF Fed
  <2>5. Stamps'
    BY <1>1, <2>2, ClosedType DEF Ordered, Stamps, TypeOK
  <2>6. Finite'
    <3>1. IsFiniteSet(log \cup tx[w].fed)
      BY FS_Union DEF Ordered, Finite
    <3>2. IsFiniteSet(log')
      BY <2>1, <3>1 DEF Ordered, Finite
    <3> QED BY <2>2, <3>2, ClosedType, FS_EmptySet DEF Ordered, Finite
  <2> QED BY <1>1, <2>3, <2>4, <2>5, <2>6, FewerEntries DEF Ordered
<1> QED BY <1>3, <1>4

\* A page leaves out no released entry before one it holds.
LEMMA PageIsPrefix ==
  ASSUME Ordered, NEW m \in Page, NEW e \in Visible, e.seq < m.seq
  PROVE  e \in Page
<1> DEFINE below(x) == {y \in Visible : y.seq < x.seq}
<1>1. IsFiniteSet(below(m))
  BY FS_Subset DEF Ordered, Finite, Visible
<1>2. below(e) \subseteq below(m)
  BY DEF Visible, Page, Ordered, TypeOK, Entry
<1>3. Cardinality(below(e)) <= Cardinality(below(m)) /\ Cardinality(below(m)) \in Nat
        /\ Cardinality(below(e)) \in Nat
  BY <1>1, <1>2, FS_Subset, FS_CardinalityType
<1> QED BY <1>3, FeedAssumption DEF Page

LEMMA ChangesOrder ==
  ASSUME Ordered, Changes
  PROVE  /\ UNCHANGED <<nextXid, nextSeq, tx, revised, log>> /\ got' = got \cup Entries
         /\ Fed' = Fed
         /\ Entries \subseteq log /\ Entries \subseteq Page /\ Page \subseteq Visible
         /\ Visible \subseteq log
         /\ Entries # {} => \E m \in Entries : /\ since' = m.seq /\ \A x \in Entries : x.seq <= m.seq
                                               /\ m.seq < nextSeq /\ since < m.seq
         /\ Ordered'
<1>1. UNCHANGED <<nextXid, nextSeq, tx, revised, log>> /\ got' = got \cup Entries
  BY DEF Changes
<1>2. Fed' = Fed
  BY <1>1 DEF Fed
<1>3. Stamps' /\ Numbers' /\ Finite'
  BY <1>1, <1>2 DEF Ordered, Stamps, Numbers, Finite
<1>4. Entries \subseteq log /\ Entries \subseteq Page /\ Page \subseteq Visible /\ Visible \subseteq log
  BY DEF Entries, Page, Visible
<1>5. CASE Entries = {}
  <2>1. since' = since /\ got' = got
    BY <1>1, <1>5 DEF Changes, Cursors
  <2> QED BY <1>1, <1>2, <1>3, <1>4, <1>5, <2>1 DEF Ordered, TypeOK
<1>6. CASE Entries # {}
  <2>1. PICK m \in Entries : since' = m.seq /\ \A x \in Entries : x.seq <= m.seq
    BY <1>6 DEF Changes, Cursors
  <2>2. m \in Fed /\ m.seq \in Nat /\ m.seq < nextSeq /\ since < m.seq
    BY <1>4 DEF Fed, Visible, Ordered, TypeOK, Entry, Numbers
  <2>3. TypeOK'
    BY <1>1, <1>4, <2>1, <2>2 DEF Ordered, TypeOK
  <2> QED BY <1>1, <1>2, <1>3, <1>4, <2>1, <2>2, <2>3 DEF Ordered
<1> QED BY <1>5, <1>6

LEMMA ChangesStep ==
  ASSUME MaxXid < Wrap, Ordered, Passed, Changes
  PROVE  Passed'
<1>1. /\ UNCHANGED <<nextXid, nextSeq, tx, revised, log>> /\ got' = got \cup Entries /\ Fed' = Fed
      /\ Entries \subseteq log /\ Entries \subseteq Page /\ Page \subseteq Visible /\ Visible \subseteq log
  BY ChangesOrder
<1>2. CASE Entries = {}
  <2>1. since' = since /\ got' = got
    BY <1>1, <1>2 DEF Changes, Cursors
  <2> QED BY <1>1, <2>1 DEF Passed
<1>3. CASE Entries # {}
  <2>1. PICK m \in Entries : /\ since' = m.seq /\ \A x \in Entries : x.seq <= m.seq
                             /\ m.seq < nextSeq /\ since < m.seq
    BY <1>3, ChangesOrder
  <2>2. m \in Fed /\ m.seq \in Nat /\ m.xid \in 1 .. MaxXid /\ m \in got'
    BY <1>1 DEF Fed, Ordered, TypeOK, Entry
  <2>4. m.xid < nextXid /\ \A w \in Writers : tx[w].xid # 0 => m.xid < tx[w].xid
    <3>1. m.xid % Wrap = m.xid
      BY <2>2, FeedAssumption
    <3>2. BelowXmin(m.xid)
      BY <1>1, <3>1 DEF Visible, Released
    <3> QED BY <3>2 DEF BelowXmin, Running
  <2>5. ASSUME NEW e \in Fed, e.seq <= since', e.rev.coll \in Readable, e \notin got'
        PROVE  \E g \in got' : g.seq > e.seq /\ g.xid < e.xid
    <3>1. e.seq \in Nat /\ e.xid \in 1 .. MaxXid /\ since \in Nat
      BY DEF Fed, Ordered, TypeOK, Transaction, Entry
    <3>2. CASE e.seq <= since
      BY <1>1, <2>5, <3>2 DEF Passed
    <3>3. CASE e.seq > since
      <4>1. e.seq < m.seq
        BY <2>1, <2>2, <2>5, <3>1 DEF Ordered, Numbers
      <4>2. CASE e \in Visible
        <5>1. e \in Entries
          BY <1>1, <2>1, <2>5, <4>1, <4>2, PageIsPrefix DEF Entries
        <5> QED BY <1>1, <2>5, <5>1
      <4>3. CASE e \notin Visible
        <5>1. m.xid < e.xid
          <6>1. CASE e \in log
            <7>1. ~BelowXmin(e.xid)
              <8>1. e.xid % Wrap = e.xid
                BY <3>1, FeedAssumption
              <8> QED BY <3>3, <4>3, <6>1, <8>1 DEF Visible, Released
            <7>2. e.xid >= nextXid \/ \E w \in Writers : tx[w].xid # 0 /\ e.xid >= tx[w].xid
              BY <3>1, <7>1 DEF BelowXmin, Running, Ordered, TypeOK, Transaction
            <7> QED BY <2>2, <2>4, <3>1, <7>2 DEF Ordered, TypeOK, Transaction
          <6>2. CASE e \notin log
            <7>1. PICK w \in Writers : e \in tx[w].fed
              BY <6>2 DEF Fed
            <7>2. e.xid = tx[w].xid
              BY <7>1 DEF Ordered, Stamps
            <7> QED BY <2>4, <3>1, <7>2
          <6> QED BY <6>1, <6>2
        <5> QED BY <2>2, <4>1, <5>1
      <4> QED BY <4>2, <4>3
    <3> QED BY <2>1, <2>2, <3>1, <3>2, <3>3
  <2> QED BY <1>1, <2>5 DEF Passed
<1> QED BY <1>2, <1>3

LEMMA FeedStep == Ordered /\ [Next]_vars => Ordered' /\ (Passed /\ MaxXid < Wrap => Passed')
<1> SUFFICES ASSUME Ordered, [Next]_vars PROVE Ordered' /\ (Passed /\ MaxXid < Wrap => Passed')
  OBVIOUS
<1>1. CASE UNCHANGED vars \/ Done
  BY <1>1 DEF vars, Done, Ordered, TypeOK, Stamps, Numbers, Finite, Passed, Fed
<1>2. CASE Changes
  BY <1>2, ChangesOrder, ChangesStep
<1>3. ASSUME NEW w \in Writers, (\E c \in Collections : WriteRevision(w, c)) \/ WriteChangeLog(w) \/ Finish(w)
      PROVE  Ordered' /\ (Passed => Passed')
  BY <1>3, WriteRevisionStep, WriteChangeLogStep, FinishStep
<1> QED BY <1>1, <1>2, <1>3 DEF Next

\* What is committed and what is fed, at every step.
LEMMA ExactStep == Ordered /\ Exact /\ [Next]_vars => Exact'
<1> SUFFICES ASSUME Ordered, Exact, [Next]_vars PROVE Exact'
  OBVIOUS
<1>1. CASE UNCHANGED vars \/ Done \/ Changes
  BY <1>1 DEF vars, Done, Changes, Exact, Sources, InFeed, NoPhantom
<1>2. ASSUME NEW w \in Writers, (\E c \in Collections : WriteRevision(w, c)) \/ WriteChangeLog(w) \/ Finish(w)
      PROVE  Exact'
  <2>0. tx \in [Writers -> Transaction]
    BY DEF Ordered, TypeOK
  <2>1. ASSUME NEW c \in Collections, WriteRevision(w, c) PROVE Exact'
    <3> DEFINE rev == [by |-> w, xid |-> Stamped(w), n |-> Cardinality(tx[w].wrote) + 1, coll |-> c]
    <3>1. /\ tx'[w].pc = "open" /\ tx'[w].fed = tx[w].fed /\ tx'[w].wrote = tx[w].wrote \cup {rev}
          /\ rev.by = w /\ UNCHANGED <<revised, log>>
      BY <2>0, <2>1 DEF WriteRevision, Transaction
    <3>2. \A v \in Writers \ {w} : tx'[v] = tx[v]
      BY <2>0, <2>1 DEF WriteRevision
    <3> HIDE DEF rev
    <3> QED BY <3>1, <3>2 DEF Exact, Sources, InFeed, NoPhantom
  <2>2. CASE WriteChangeLog(w)
    <3>1. PICK rev \in Owed(w) :
            tx' = [tx EXCEPT ![w].xid = Stamped(w),
                             ![w].fed = @ \cup {[seq |-> nextSeq, xid |-> Stamped(w), rev |-> rev]}]
      BY <2>2 DEF WriteChangeLog
    <3> DEFINE new == [seq |-> nextSeq, xid |-> Stamped(w), rev |-> rev]
    <3>2. /\ tx'[w].pc = tx[w].pc /\ tx'[w].wrote = tx[w].wrote /\ tx'[w].fed = tx[w].fed \cup {new}
          /\ new.rev \in tx[w].wrote
      BY <2>0, <3>1 DEF Transaction, Owed
    <3>3. (\A v \in Writers \ {w} : tx'[v] = tx[v]) /\ UNCHANGED <<revised, log>>
      BY <2>0, <2>2, <3>1 DEF WriteChangeLog
    <3> HIDE DEF new
    <3> QED BY <3>2, <3>3 DEF Exact, Sources, InFeed, NoPhantom
  <2>3. CASE Finish(w)
    <3>1. \A v \in Writers \ {w} : tx'[v] = tx[v]
      BY <2>0, <2>3 DEF Finish, Commit, CommitImport, CommitFeed, Abort
    <3>2. revised \subseteq revised'
      BY <2>3 DEF Finish, Commit, CommitImport, CommitFeed, Abort
    <3>3. Sources'
      <4>1. CASE CommitImport(w)
        <5>1. tx'[w].pc = "feed" /\ tx'[w].wrote = tx[w].wrote /\ tx'[w].fed = tx[w].fed
          BY <2>0, <4>1 DEF CommitImport, Transaction
        <5>2. w \in Importers /\ revised' = revised \cup tx[w].wrote
          BY <4>1 DEF CommitImport
        <5> QED BY <3>1, <3>2, <5>1, <5>2 DEF Exact, Sources
      <4>2. CASE ~CommitImport(w)
        <5>1. tx'[w] = Closed
          BY <2>0, <2>3, <4>2 DEF Finish, Commit, CommitFeed, Abort
        <5> QED BY <3>1, <3>2, <5>1, ClosedType DEF Exact, Sources
      <4> QED BY <4>1, <4>2
    <3>4. CASE Commit(w)
      <4>1. \A r \in tx[w].wrote : \E e \in tx[w].fed : e.rev = r
        BY <3>4 DEF Commit, AllFed, Owed
      <4>2. revised' = revised \cup tx[w].wrote /\ log' = log \cup tx[w].fed
        BY <3>4 DEF Commit
      <4> QED BY <3>3, <4>1, <4>2 DEF Exact, Sources, InFeed, NoPhantom
    <3>5. CASE CommitImport(w)
      <4>1. \A r \in tx[w].wrote : r.by \notin Mutators
        BY <3>5, FeedAssumption DEF CommitImport, Exact, Sources
      <4>2. revised' = revised \cup tx[w].wrote /\ log' = log
        BY <3>5 DEF CommitImport
      <4> QED BY <3>3, <4>1, <4>2 DEF Exact, InFeed, NoPhantom
    <3>6. CASE CommitFeed(w)
      <4>1. \A e \in tx[w].fed : e.rev \in revised
        BY <3>6 DEF CommitFeed, Exact, Sources
      <4>2. revised' = revised /\ log' = log \cup tx[w].fed
        BY <3>6 DEF CommitFeed
      <4> QED BY <3>3, <4>1, <4>2 DEF Exact, InFeed, NoPhantom
    <3>7. CASE Abort(w)
      BY <3>3, <3>7 DEF Abort, Exact, InFeed, NoPhantom
    <3> QED BY <2>3, <3>4, <3>5, <3>6, <3>7 DEF Finish
  <2> QED BY <1>2, <2>1, <2>2, <2>3
<1> QED BY <1>1, <1>2 DEF Next

LEMMA ExactInit == Init => Exact
<1> SUFFICES ASSUME Init PROVE Exact
  OBVIOUS
<1>1. \A w \in Writers : tx[w] = Closed
  BY DEF Init
<1> QED BY <1>1, ClosedType DEF Init, Exact, Sources, InFeed, NoPhantom

\* The watermark: while transaction ids fit in xmin, the only entries a polling
\* client passes without being given them are those of a transaction that began to
\* write after one whose entry it has.
THEOREM Watermark == ASSUME MaxXid < Wrap PROVE Spec => []MissedAreYounger
<1>1. Init => IInv
  BY FeedInit
<1>2. IInv /\ [Next]_vars => IInv'
  BY FeedStep DEF IInv
<1>3. IInv => MissedAreYounger
  BY DEF IInv, Passed, MissedAreYounger, Fed
<1> QED BY <1>1, <1>2, <1>3, PTL DEF Spec

\* Whatever overlaps, fails or wraps: what a mutator or a decision commits has its
\* entry from that moment, and no entry names a revision that is not committed.
THEOREM FeedExact == Spec => []FeedIsExact
<1>1. Init => Ordered /\ Exact
  BY FeedInit, ExactInit DEF IInv
<1>2. Ordered /\ Exact /\ [Next]_vars => (Ordered /\ Exact)'
  BY FeedStep, ExactStep
<1>3. Ordered /\ Exact => FeedIsExact
  BY DEF Ordered, Exact, FeedIsExact
<1> QED BY <1>1, <1>2, <1>3, PTL DEF Spec
=============================================================================
