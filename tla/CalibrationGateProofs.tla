----------------------- MODULE CalibrationGateProofs -----------------------
(***************************************************************************)
(* Calibration for any archive, any evidence and any number of writers:    *)
(* the statistics stay opaque, what is proved is the order in which a      *)
(* writer claims, rechecks and writes.                                     *)
(***************************************************************************)
EXTENDS CalibrationGate, TLAPS

PlanFields == {"job", "gate", "rows", "canon", "cohort", "hash", "off", "old", "new", "base"}

\* The old weights are read between two places that depend on the job.
OldRead(w) ==
    LET unread == \/ pc[w] \in {"ensure", "export", "items", "outcomes"}
                  \/ pc[w] = "hash" /\ plan[w].job # "manual"
        read == \/ pc[w] = "propose"
                \/ pc[w] = "hash" /\ plan[w].job = "manual"
    IN  /\ plan[w].rows # {}
        /\ unread => DOMAIN plan[w].old = {}
        /\ read => DOMAIN plan[w].old = plan[w].rows
        /\ pc[w] = "targets" => ~(plan[w].rows \subseteq DOMAIN plan[w].old)

\* A running plan is about the rows of one gate and holds weights only.
PlanOK(w) ==
    pc[w] # "idle" =>
        /\ DOMAIN plan[w] = PlanFields
        /\ plan[w].gate \in Gates
        /\ plan[w].rows \subseteq RowsOf(plan[w].gate)
        /\ DOMAIN plan[w].old \subseteq plan[w].rows
        /\ \A r \in DOMAIN plan[w].old : plan[w].old[r] \in Weights
        /\ DOMAIN plan[w].new \subseteq plan[w].rows
        /\ \A r \in DOMAIN plan[w].new : plan[w].new[r] \in Weights
        /\ OldRead(w)
Plans == \A w \in Writers : PlanOK(w)

\* A writer past the export has a baseline behind it; the one about to insert
\* has read the deployed weights, unless someone else inserted meanwhile.
BaselineOf(w) ==
    /\ pc[w] \notin {"idle", "ensure", "export"} => baseline[plan[w].gate] # None
    /\ pc[w] = "export" /\ baseline[plan[w].gate] = None =>
          plan[w].base = [r \in RowsOf(plan[w].gate) |-> InitWeight[r]]
Baselines ==
    /\ \A w \in Writers : BaselineOf(w)
    /\ \A g \in Gates : baseline[g] = None => \A r \in RowsOf(g) : weight[r] = InitWeight[r]
    /\ BaselineIsFirst

\* The write reservation is held from the claim to the end, by one writer,
\* and while it is held what was rechecked stays true.
Holder(w) ==
    /\ lock = w <=> pc[w] \in {"recheck", "write"}
    /\ pc[w] \in {"recheck", "write"} => ~Duplicate(w)
    /\ pc[w] = "write" => GatesHold(w)
    /\ pc[w] = "write" => \A r \in DOMAIN txn.weight :
                             r \in Batch(w) /\ txn.weight[r] = plan[w].new[r]
    /\ pc[w] = "recheck" => txn.weight = <<>>
Reservation ==
    /\ DOMAIN txn = {"claims", "weight"}
    /\ \A w \in Writers : Holder(w)

Shapes == /\ plan = [w \in Writers |-> plan[w]]
          /\ baseline = [g \in Gates |-> baseline[g]]

GateInv == TypeOK /\ Shapes /\ Plans /\ Baselines /\ Reservation /\ AuditTrail /\ OncePerCohort

USE WeightsTyped, NoneIsNothing, ModesTyped

-----------------------------------------------------------------------------
(* Frames: what a writer holds depends on its plan and the committed rows. *)

\* The gates a writer rechecked hold as long as nothing they read changes.
LEMMA GatesFrame ==
    ASSUME NEW w \in Writers, GatesHold(w), plan'[w] = plan[w],
           UNCHANGED <<mode, pinned, auto, weight, archive, outcomes>>
    PROVE  GatesHold(w)'
  BY DEF GatesHold, LiveConfig, Batch, FreshCohort, PlannedFingerprint

\* A claim that was free stays free as long as nothing is committed.
LEMMA DuplicateFrame ==
    ASSUME NEW w \in Writers, ~Duplicate(w), plan'[w] = plan[w], applied' = applied
    PROVE  ~Duplicate(w)'
  BY DEF Duplicate, Batch, PlannedFingerprint, ClaimKey

\* A writer that does nothing keeps its plan, whatever the others do, as long
\* as no baseline disappears.
LEMMA PlanFrame ==
    ASSUME NEW w \in Writers, PlanOK(w), plan'[w] = plan[w], pc'[w] = pc[w]
    PROVE  PlanOK(w)'
  BY DEF PlanOK, OldRead

Labels == {"idle", "ensure", "export", "items", "outcomes", "hash",
           "targets", "propose", "claim", "recheck", "write"}

\* A step of one writer that commits nothing and holds nothing.
LEMMA PlanningStep ==
    ASSUME GateInv, NEW u \in Writers, NEW label \in Labels \ {"recheck", "write"}, NEW p,
           pc[u] \notin {"recheck", "write"},
           Goto(u, label), plan' = [plan EXCEPT ![u] = p],
           UNCHANGED <<archiveVars, mode, pinned, auto, weight, baseline, applied, commits, lock, txn>>,
           PlanOK(u)', BaselineOf(u)'
    PROVE  GateInv'
  <1>1. \A w \in Writers \ {u} : pc'[w] = pc[w] /\ plan'[w] = plan[w]
    BY DEF Goto, GateInv, TypeOK, Shapes
  <1>2. pc'[u] = label
    BY DEF Goto, GateInv, TypeOK
  <1>3. TypeOK' /\ Shapes'
    BY DEF Goto, GateInv, TypeOK, Shapes, Labels
  <1>4. Plans'
    <2> SUFFICES ASSUME NEW w \in Writers PROVE PlanOK(w)'
      BY DEF Plans
    <2>1. CASE w = u
      BY <2>1
    <2>2. CASE w # u
      BY <2>2, <1>1, PlanFrame DEF GateInv, Plans
    <2> QED
      BY <2>1, <2>2
  <1>5. Baselines'
    <2>1. ASSUME NEW w \in Writers PROVE BaselineOf(w)'
      <3>1. CASE w = u
        BY <3>1
      <3>2. CASE w # u
        BY <3>2, <1>1 DEF GateInv, Baselines, BaselineOf
      <3> QED
        BY <3>1, <3>2
    <2>2. \A g \in Gates : baseline'[g] = None => \A r \in RowsOf(g) : weight'[r] = InitWeight[r]
      BY DEF GateInv, Baselines
    <2>3. BaselineIsFirst'
      BY DEF GateInv, Baselines, BaselineIsFirst
    <2> QED
      BY <2>1, <2>2, <2>3 DEF Baselines
  <1>6. Reservation'
    <2>1. ASSUME NEW w \in Writers PROVE Holder(w)'
      <3>1. CASE w = u
        BY <3>1, <1>2 DEF GateInv, Reservation, Holder
      <3>2. CASE w # u
        <4>1. Holder(w)
          BY DEF GateInv, Reservation
        <4>2. plan'[w] = plan[w] /\ pc'[w] = pc[w]
          BY <3>2, <1>1
        <4>3. pc[w] = "write" => GatesHold(w)'
          BY <4>1, <4>2, GatesFrame DEF Holder, archiveVars
        <4>4. pc[w] \in {"recheck", "write"} => ~Duplicate(w)'
          BY <4>1, <4>2, DuplicateFrame DEF Holder
        <4> QED
          BY <4>1, <4>2, <4>3, <4>4 DEF Holder, Batch
      <3> QED
        BY <3>1, <3>2
    <2> QED
      BY <2>1 DEF Reservation, GateInv
  <1>7. AuditTrail'
    BY DEF GateInv, AuditTrail, Before
  <1>8. OncePerCohort'
    BY DEF GateInv, OncePerCohort, ClaimKey
  <1> QED
    BY <1>3, <1>4, <1>5, <1>6, <1>7, <1>8 DEF GateInv

-----------------------------------------------------------------------------
(* Planning actions. *)
\* ---- actions ----

\* A writer that gives up is idle and holds nothing.
LEMMA StopStep ==
    ASSUME GateInv, NEW u \in Writers, pc[u] \notin {"recheck", "write"}, Stop(u),
           UNCHANGED <<archiveVars, mode, pinned, auto, weight, baseline, applied, commits, lock, txn>>
    PROVE  GateInv'
  <1>1. pc'[u] = "idle"
    BY DEF Stop, Goto, GateInv, TypeOK
  <1>2. PlanOK(u)' /\ BaselineOf(u)'
    BY <1>1 DEF PlanOK, BaselineOf
  <1> QED
    BY <1>2, PlanningStep DEF Stop, Labels

LEMMA StartBatchKeeps ==
    ASSUME GateInv, NEW u \in Writers, NEW g \in Gates, StartBatch(u, g)
    PROVE  GateInv'
  <1> DEFINE p == FreshPlan(g[1], g, RowsOf(g))
  <1>1. pc'[u] = "ensure" /\ plan'[u] = p
    BY DEF StartBatch, Goto, GateInv, TypeOK, Shapes
  <1>2. RowsOf(g) # {}
    BY DEF RowsOf, Gates, GateOf
  <1>3. PlanOK(u)'
    BY <1>1, <1>2 DEF PlanOK, OldRead, FreshPlan, PlanFields
  <1>4. BaselineOf(u)'
    BY <1>1 DEF BaselineOf
  <1> QED
    BY <1>3, <1>4, PlanningStep DEF StartBatch, Labels

LEMMA StartManualKeeps ==
    ASSUME GateInv, NEW u \in Writers, NEW row \in Rows, NEW n \in Weights, StartManual(u, row, n)
    PROVE  GateInv'
  <1> DEFINE p == [FreshPlan("manual", GateOf(row), {row}) EXCEPT !.new = [r \in {row} |-> n]]
  <1>1. pc'[u] = "ensure" /\ plan'[u] = p
    BY DEF StartManual, Goto, GateInv, TypeOK, Shapes
  <1>2. row \in RowsOf(GateOf(row)) /\ GateOf(row) \in Gates
    BY DEF RowsOf, Gates, GateOf
  <1>3. PlanOK(u)'
    BY <1>1, <1>2 DEF PlanOK, OldRead, FreshPlan, PlanFields
  <1>4. BaselineOf(u)'
    BY <1>1 DEF BaselineOf
  <1> QED
    BY <1>3, <1>4, PlanningStep DEF StartManual, Labels

LEMMA EnsureBaselineKeeps ==
    ASSUME GateInv, NEW u \in Writers, EnsureBaseline(u)
    PROVE  GateInv'
  <1>0. PlanOK(u) /\ pc[u] = "ensure"
    BY DEF GateInv, Plans, EnsureBaseline
  <1>1. CASE baseline[plan[u].gate] # None
    <2>1. pc'[u] = "items" /\ plan' = plan
      BY <1>1 DEF EnsureBaseline, Goto, GateInv, TypeOK
    <2>2. plan' = [plan EXCEPT ![u] = plan[u]]
      BY <2>1 DEF GateInv, Shapes, TypeOK
    <2>3. PlanOK(u)'
      BY <1>0, <2>1 DEF PlanOK, OldRead
    <2>4. BaselineOf(u)'
      BY <1>1, <2>1 DEF BaselineOf, EnsureBaseline
    <2> QED
      BY <1>1, <2>2, <2>3, <2>4, <1>0, PlanningStep DEF EnsureBaseline, Labels
  <1>2. CASE baseline[plan[u].gate] = None
    <2> DEFINE p == [plan[u] EXCEPT !.base = [r \in RowsOf(plan[u].gate) |-> weight[r]]]
    <2>1. pc'[u] = "export" /\ plan'[u] = p /\ plan' = [plan EXCEPT ![u] = p]
      BY <1>2 DEF EnsureBaseline, Goto, GateInv, TypeOK, Shapes
    <2>2. PlanOK(u)'
      BY <1>0, <2>1 DEF PlanOK, OldRead, PlanFields
    <2>3. BaselineOf(u)'
      <3>1. plan'[u].base = [r \in RowsOf(plan[u].gate) |-> InitWeight[r]]
        BY <1>0, <1>2, <2>1 DEF GateInv, Baselines, PlanOK, PlanFields
      <3>2. plan'[u].gate = plan[u].gate
        BY <1>0, <2>1 DEF PlanOK, PlanFields
      <3> QED
        BY <2>1, <3>1, <3>2 DEF BaselineOf
    <2> QED
      BY <1>2, <2>1, <2>2, <2>3, <1>0, PlanningStep DEF EnsureBaseline, Labels
  <1> QED
    BY <1>1, <1>2

LEMMA ReadItemsKeeps ==
    ASSUME GateInv, NEW u \in Writers, ReadItems(u)
    PROVE  GateInv'
  <1> DEFINE p == [plan[u] EXCEPT !.canon = Canonical(plan[u].gate[1], plan[u].gate[2], archive)]
  <1>0. PlanOK(u) /\ BaselineOf(u) /\ pc[u] = "items"
    BY DEF GateInv, Plans, Baselines, ReadItems
  <1>1. pc'[u] = "outcomes" /\ plan'[u] = p /\ plan' = [plan EXCEPT ![u] = p]
    BY DEF ReadItems, Goto, GateInv, TypeOK, Shapes
  <1>2. PlanOK(u)' /\ BaselineOf(u)'
    BY <1>0, <1>1 DEF PlanOK, OldRead, PlanFields, BaselineOf, ReadItems
  <1> QED
    BY <1>0, <1>1, <1>2, PlanningStep DEF ReadItems, Labels

LEMMA ReadOutcomesKeeps ==
    ASSUME GateInv, NEW u \in Writers, ReadOutcomes(u)
    PROVE  GateInv'
  <1> DEFINE label == IF plan[u].job = "manual" THEN "targets" ELSE "hash"
             p == [plan[u] EXCEPT !.cohort = Cohort(plan[u].gate[1], plan[u].canon, outcomes),
                                  !.canon = {}]
  <1>0. PlanOK(u) /\ BaselineOf(u) /\ pc[u] = "outcomes"
    BY DEF GateInv, Plans, Baselines, ReadOutcomes
  <1>1. pc'[u] = label /\ plan'[u] = p /\ plan' = [plan EXCEPT ![u] = p]
    BY DEF ReadOutcomes, Goto, GateInv, TypeOK, Shapes
  <1>2. plan'[u].job = plan[u].job /\ plan'[u].gate = plan[u].gate /\ DOMAIN plan'[u] = PlanFields
        /\ plan'[u].rows = plan[u].rows /\ plan'[u].old = plan[u].old /\ plan'[u].new = plan[u].new
    BY <1>0, <1>1 DEF PlanOK, PlanFields
  <1>3. DOMAIN plan[u].old = {} /\ plan[u].rows # {}
    BY <1>0 DEF PlanOK, OldRead
  <1>4. OldRead(u)'
    BY <1>1, <1>2, <1>3 DEF OldRead
  <1>5. PlanOK(u)' /\ BaselineOf(u)'
    BY <1>0, <1>1, <1>2, <1>4 DEF PlanOK, BaselineOf, ReadOutcomes
  <1> QED
    BY <1>0, <1>1, <1>5, PlanningStep DEF ReadOutcomes, Labels

LEMMA ReadConfigKeeps ==
    ASSUME GateInv, NEW u \in Writers, ReadConfig(u)
    PROVE  GateInv'
  <1> DEFINE label == IF plan[u].job = "manual" THEN "propose" ELSE "targets"
             p == [plan[u] EXCEPT !.hash = LiveConfig(plan[u].gate)]
  <1>0. PlanOK(u) /\ BaselineOf(u) /\ pc[u] = "hash"
    BY DEF GateInv, Plans, Baselines, ReadConfig
  <1>1. pc'[u] = label /\ plan'[u] = p /\ plan' = [plan EXCEPT ![u] = p]
    BY DEF ReadConfig, Goto, GateInv, TypeOK, Shapes
  <1>2. plan'[u].job = plan[u].job /\ plan'[u].gate = plan[u].gate /\ DOMAIN plan'[u] = PlanFields
        /\ plan'[u].rows = plan[u].rows /\ plan'[u].old = plan[u].old /\ plan'[u].new = plan[u].new
    BY <1>0, <1>1 DEF PlanOK, PlanFields
  <1>3. OldRead(u)'
    BY <1>0, <1>1, <1>2 DEF PlanOK, OldRead
  <1>4. PlanOK(u)' /\ BaselineOf(u)'
    BY <1>0, <1>1, <1>2, <1>3 DEF PlanOK, BaselineOf, ReadConfig
  <1> QED
    BY <1>0, <1>1, <1>4, PlanningStep DEF ReadConfig, Labels

LEMMA ReadTargetKeeps ==
    ASSUME GateInv, NEW u \in Writers, ReadTarget(u)
    PROVE  GateInv'
  <1>0. PlanOK(u) /\ BaselineOf(u) /\ pc[u] = "targets"
    BY DEF GateInv, Plans, Baselines, ReadTarget
  <1> DEFINE row == CHOOSE r \in plan[u].rows : r \notin DOMAIN plan[u].old
             last == plan[u].rows \subseteq DOMAIN plan[u].old \cup {row}
             label == IF last THEN IF plan[u].job = "manual" THEN "hash" ELSE "propose"
                              ELSE "targets"
             p == [plan[u] EXCEPT !.old = Put(@, row, weight[row]),
                                  !.off = IF row \in pinned \/ row \notin auto
                                          THEN @ \cup {row} ELSE @]
  <1>1. row \in plan[u].rows /\ row \notin DOMAIN plan[u].old
    <2>1. \E r \in plan[u].rows : r \notin DOMAIN plan[u].old
      BY <1>0 DEF PlanOK, OldRead
    <2> QED
      BY <2>1
  <1>2. pc'[u] = label /\ plan'[u] = p /\ plan' = [plan EXCEPT ![u] = p]
    <2>1. Goto(u, label)
      BY DEF ReadTarget
    <2>2. plan' = [plan EXCEPT ![u] = p]
      BY Zenon DEF ReadTarget
    <2> QED
      BY <2>1, <2>2 DEF Goto, GateInv, TypeOK, Shapes
  <1>3. plan'[u].job = plan[u].job /\ plan'[u].gate = plan[u].gate /\ DOMAIN plan'[u] = PlanFields
        /\ plan'[u].rows = plan[u].rows /\ plan'[u].new = plan[u].new
    BY <1>0, <1>2 DEF PlanOK, PlanFields
  <1>4. plan'[u].old = Put(plan[u].old, row, weight[row])
    BY <1>0, <1>2 DEF PlanOK, PlanFields
  <1>5. /\ DOMAIN plan'[u].old = DOMAIN plan[u].old \cup {row}
        /\ \A r \in DOMAIN plan'[u].old :
              plan'[u].old[r] = IF r = row THEN weight[r] ELSE plan[u].old[r]
    BY <1>1, <1>4 DEF Put
  <1>6. row \in Rows /\ weight[row] \in Weights
    BY <1>0, <1>1 DEF PlanOK, RowsOf, GateInv, TypeOK
  <1>7. DOMAIN plan'[u].old \subseteq plan'[u].rows /\ \A r \in DOMAIN plan'[u].old : plan'[u].old[r] \in Weights
    BY <1>0, <1>1, <1>3, <1>5, <1>6 DEF PlanOK
  <1>8. OldRead(u)'
    <2> HIDE DEF row
    <2>0. plan[u].rows # {} /\ DOMAIN plan[u].old \subseteq plan[u].rows
      BY <1>0 DEF PlanOK, OldRead
    <2>1. CASE last
      <3>1. DOMAIN plan'[u].old = plan'[u].rows
        BY <2>0, <2>1, <1>1, <1>3, <1>5
      <3> QED
        BY <2>0, <2>1, <3>1, <1>2, <1>3 DEF OldRead
    <2>2. CASE ~last
      BY <2>0, <2>2, <1>2, <1>3, <1>5 DEF OldRead
    <2> QED
      BY <2>1, <2>2
  <1>9. PlanOK(u)' /\ BaselineOf(u)'
    <2> HIDE DEF row
    <2> QED
      BY <1>0, <1>2, <1>3, <1>7, <1>8 DEF PlanOK, BaselineOf, ReadTarget
  <1> QED
    BY <1>0, <1>2, <1>9, PlanningStep DEF ReadTarget, Labels

LEMMA ProposeKeeps ==
    ASSUME GateInv, NEW u \in Writers, Propose(u)
    PROVE  GateInv'
  <1>0. PlanOK(u) /\ BaselineOf(u) /\ pc[u] = "propose"
    BY DEF GateInv, Plans, Baselines, Propose
  <1> DEFINE targets == {r \in plan[u].rows : /\ MayPropose(u, r) /\ Blend(u, r) # plan[u].old[r]}
             p == [plan[u] EXCEPT !.new = [r \in targets |-> Blend(u, r)]]
  <1>1. CASE targets = {}
    BY <1>0, <1>1, StopStep DEF Propose
  <1>2. CASE targets # {}
    <2>1. pc'[u] = "claim" /\ plan'[u] = p /\ plan' = [plan EXCEPT ![u] = p]
      BY <1>2 DEF Propose, Goto, GateInv, TypeOK, Shapes
    <2>2. plan'[u].new = [r \in targets |-> Blend(u, r)]
      BY <1>0, <2>1 DEF PlanOK, PlanFields
    <2>3. plan'[u].gate = plan[u].gate /\ DOMAIN plan'[u] = PlanFields
          /\ plan'[u].rows = plan[u].rows /\ plan'[u].old = plan[u].old
      BY <1>0, <2>1 DEF PlanOK, PlanFields
    <2>4. \A r \in targets : plan[u].old[r] \in Weights
      BY <1>0 DEF PlanOK, OldRead
    <2>5. \A r \in targets : Blend(u, r) \in Weights
      BY <2>4 DEF Blend
    <2>6. OldRead(u)'
      BY <1>0, <2>1, <2>3 DEF PlanOK, OldRead
    <2>7. PlanOK(u)' /\ BaselineOf(u)'
      BY <1>0, <2>1, <2>2, <2>3, <2>5, <2>6 DEF PlanOK, BaselineOf, Propose
    <2> QED
      BY <1>0, <1>2, <2>1, <2>7, PlanningStep DEF Propose, Labels
  <1> QED
    BY <1>1, <1>2

LEMMA ProposeManualKeeps ==
    ASSUME GateInv, NEW u \in Writers, ProposeManual(u)
    PROVE  GateInv'
  <1>0. PlanOK(u) /\ BaselineOf(u) /\ pc[u] = "propose"
    BY DEF GateInv, Plans, Baselines, ProposeManual
  <1>1. pc'[u] = "claim" /\ plan' = [plan EXCEPT ![u] = plan[u]] /\ plan' = plan
    BY DEF ProposeManual, Goto, GateInv, TypeOK, Shapes
  <1>2. PlanOK(u)' /\ BaselineOf(u)'
    BY <1>0, <1>1 DEF PlanOK, OldRead, BaselineOf, ProposeManual
  <1> QED
    BY <1>0, <1>1, <1>2, PlanningStep DEF ProposeManual, Labels

-----------------------------------------------------------------------------
(* Baselines, claims and commits. *)

\* The first insert of a gate's baseline stores the deployed weights; the
\* unique key turns every later one away.
LEMMA ExportBaselineKeeps ==
    ASSUME GateInv, NEW u \in Writers, ExportBaseline(u)
    PROVE  GateInv'
  <1>0. PlanOK(u) /\ BaselineOf(u) /\ pc[u] = "export"
    BY DEF GateInv, Plans, Baselines, ExportBaseline
  <1>1. CASE baseline[plan[u].gate] # None
    BY <1>0, <1>1, StopStep DEF ExportBaseline
  <1>2. CASE baseline[plan[u].gate] = None
    <2> DEFINE g == plan[u].gate
               deployed == [r \in RowsOf(g) |-> InitWeight[r]]
    <2>1. pc' = [pc EXCEPT ![u] = "items"] /\ plan' = plan
          /\ baseline' = [baseline EXCEPT ![g] = plan[u].base]
      BY <1>2 DEF ExportBaseline, Goto
    <2>2. g \in Gates /\ plan[u].base = deployed
      BY <1>0, <1>2 DEF PlanOK, BaselineOf
    <2>3. deployed \in [RowsOf(g) -> Weights] /\ deployed # None
      <3>1. deployed \in [RowsOf(g) -> Weights]
        BY DEF RowsOf
      <3> QED
        BY <2>2, <3>1
    <2>4. baseline' = [h \in Gates |-> IF h = g THEN deployed ELSE baseline[h]]
      BY <2>1, <2>2 DEF GateInv, Shapes
    <2>5. pc' = [w \in Writers |-> IF w = u THEN "items" ELSE pc[w]]
      BY <2>1 DEF GateInv, TypeOK
    <2>6. UNCHANGED <<archiveVars, mode, pinned, auto, weight, applied, commits, lock, txn>>
      BY DEF ExportBaseline
    <2> HIDE DEF g, deployed
    <2>7. TypeOK' /\ Shapes'
      BY <2>1, <2>2, <2>3, <2>4, <2>5, <2>6 DEF GateInv, TypeOK, Shapes
    <2>8. Plans'
      <3> SUFFICES ASSUME NEW w \in Writers PROVE PlanOK(w)'
        BY DEF Plans
      <3>1. PlanOK(w)
        BY DEF GateInv, Plans
      <3> QED
        BY <3>1, <1>0, <2>1, <2>5 DEF PlanOK, OldRead
    <2>9. Baselines'
      <3>1. ASSUME NEW w \in Writers PROVE BaselineOf(w)'
        <4>1. BaselineOf(w) /\ PlanOK(w)
          BY DEF GateInv, Baselines, Plans
        <4>2. CASE w = u
          BY <4>2, <2>1, <2>2, <2>3, <2>4, <2>5 DEF BaselineOf, g
        <4>3. CASE w # u /\ pc[w] # "idle"
          <5>1. plan[w].gate \in Gates
            BY <4>1, <4>3 DEF PlanOK
          <5> QED
            BY <4>1, <4>3, <5>1, <2>1, <2>3, <2>4, <2>5 DEF BaselineOf
        <4>4. CASE w # u /\ pc[w] = "idle"
          BY <4>4, <2>5 DEF BaselineOf
        <4> QED
          BY <4>2, <4>3, <4>4
      <3>2. \A h \in Gates : baseline'[h] = None => \A r \in RowsOf(h) : weight'[r] = InitWeight[r]
        BY <2>3, <2>4, <2>6 DEF GateInv, Baselines
      <3>3. BaselineIsFirst'
        BY <2>2, <2>3, <2>4, <2>6 DEF GateInv, Baselines, BaselineIsFirst, deployed
      <3> QED
        BY <3>1, <3>2, <3>3 DEF Baselines
    <2>10. Reservation'
      <3>1. ASSUME NEW w \in Writers PROVE Holder(w)'
        <4>1. Holder(w)
          BY DEF GateInv, Reservation
        <4>2. CASE w = u
          BY <4>2, <1>0, <4>1, <2>5, <2>6 DEF Holder
        <4>3. CASE w # u
          <5>1. plan'[w] = plan[w] /\ pc'[w] = pc[w]
            BY <4>3, <2>1, <2>5
          <5>2. pc[w] = "write" => GatesHold(w)'
            BY <4>1, <5>1, <2>6, GatesFrame DEF Holder, archiveVars
          <5>3. pc[w] \in {"recheck", "write"} => ~Duplicate(w)'
            BY <4>1, <5>1, <2>6, DuplicateFrame DEF Holder
          <5> QED
            BY <4>1, <5>1, <5>2, <5>3, <2>6 DEF Holder, Batch
        <4> QED
          BY <4>2, <4>3
      <3> QED
        BY <3>1, <2>6 DEF Reservation, GateInv
    <2>11. AuditTrail' /\ OncePerCohort'
      BY <2>6 DEF GateInv, AuditTrail, OncePerCohort, Before, ClaimKey
    <2> QED
      BY <2>7, <2>8, <2>9, <2>10, <2>11 DEF GateInv
  <1> QED
    BY <1>1, <1>2

\* Steps of the holder, or into holding: nothing committed changes, and what
\* has to be shown is the holder's own part of the reservation.
LEMMA HolderStep ==
    ASSUME GateInv, NEW u \in Writers, NEW label \in Labels,
           Goto(u, label), label \notin {"ensure", "export", "items", "outcomes", "hash", "targets", "propose"},
           \/ label = "idle" /\ plan' = [plan EXCEPT ![u] = NoPlan]
           \/ plan' = plan /\ pc[u] \in {"claim", "recheck", "write"},
           UNCHANGED <<archiveVars, mode, pinned, auto, weight, baseline, applied, commits>>,
           lock' \in Writers \cup {None}, DOMAIN txn' = {"claims", "weight"},
           Holder(u)',
           \A w \in Writers \ {u} : pc[w] \notin {"recheck", "write"} /\ lock' # w
    PROVE  GateInv'
  <1>1. \A w \in Writers \ {u} : pc'[w] = pc[w] /\ plan'[w] = plan[w]
    BY DEF Goto, GateInv, TypeOK, Shapes
  <1>2. pc'[u] = label
    BY DEF Goto, GateInv, TypeOK
  <1>3. TypeOK' /\ Shapes'
    BY DEF Goto, GateInv, TypeOK, Shapes, Labels
  <1>4. ASSUME NEW w \in Writers PROVE PlanOK(w)' /\ BaselineOf(w)'
    <2>0. PlanOK(w) /\ BaselineOf(w)
      BY DEF GateInv, Plans, Baselines
    <2>1. CASE w # u
      BY <2>0, <2>1, <1>1, PlanFrame DEF BaselineOf
    <2>2. CASE w = u /\ label = "idle"
      BY <2>2, <1>2 DEF PlanOK, BaselineOf
    <2>3. CASE w = u /\ label # "idle"
      <3>1. plan' = plan /\ pc[u] \in {"claim", "recheck", "write"} /\ label \in {"claim", "recheck", "write"}
        BY <2>3 DEF Labels
      <3> QED
        BY <2>0, <2>3, <3>1, <1>2 DEF PlanOK, OldRead, BaselineOf
    <2> QED
      BY <2>1, <2>2, <2>3
  <1>5. Baselines'
    BY <1>4 DEF GateInv, Baselines, BaselineIsFirst
  <1>6. Reservation'
    <2>1. ASSUME NEW w \in Writers \ {u} PROVE Holder(w)'
      BY <1>1 DEF Holder
    <2> QED
      BY <2>1 DEF Reservation
  <1>7. AuditTrail' /\ OncePerCohort'
    BY DEF GateInv, AuditTrail, OncePerCohort, Before, ClaimKey
  <1> QED
    BY <1>3, <1>4, <1>5, <1>6, <1>7 DEF GateInv, Plans

LEMMA ClaimKeeps ==
    ASSUME GateInv, NEW u \in Writers, Claim(u)
    PROVE  GateInv'
  <1>0. pc[u] = "claim" /\ lock = None
    BY DEF Claim, Free
  <1>1. CASE Duplicate(u)
    BY <1>0, <1>1, StopStep DEF Claim
  <1>2. CASE ~Duplicate(u)
    <2>1. /\ Goto(u, "recheck") /\ plan' = plan /\ lock' = u
          /\ txn' = [claims |-> Batch(u), weight |-> <<>>]
          /\ UNCHANGED <<archiveVars, mode, pinned, auto, weight, baseline, applied, commits>>
      BY <1>2 DEF Claim
    <2>2. pc'[u] = "recheck"
      BY <2>1 DEF Goto, GateInv, TypeOK
    <2>3. ~Duplicate(u)'
      BY <1>2, <2>1, DuplicateFrame
    <2>4. DOMAIN txn' = {"claims", "weight"} /\ txn'.weight = <<>>
      BY <2>1
    <2>5. Holder(u)'
      BY <2>1, <2>2, <2>3, <2>4 DEF Holder
    <2>6. \A w \in Writers \ {u} : pc[w] \notin {"recheck", "write"} /\ lock' # w
      BY <1>0, <2>1 DEF GateInv, Reservation, Holder
    <2> QED
      BY <1>0, <2>1, <2>4, <2>5, <2>6, HolderStep DEF Labels
  <1> QED
    BY <1>1, <1>2

\* While a writer holds the reservation, no other one does.
LEMMA OneHolder ==
    ASSUME GateInv, NEW u \in Writers, pc[u] \in {"recheck", "write"}
    PROVE  lock = u /\ \A w \in Writers \ {u} : pc[w] \notin {"recheck", "write"}
  BY DEF GateInv, Reservation, Holder

LEMMA RecheckKeeps ==
    ASSUME GateInv, NEW u \in Writers, Recheck(u)
    PROVE  GateInv'
  <1>0. pc[u] = "recheck" /\ Holder(u)
    BY DEF Recheck, GateInv, Reservation
  <1>1. lock = u /\ \A w \in Writers \ {u} : pc[w] \notin {"recheck", "write"}
    BY <1>0, OneHolder
  <1>2. CASE GatesHold(u)
    <2>1. /\ Goto(u, "write") /\ plan' = plan /\ lock' = lock /\ txn' = txn
          /\ UNCHANGED <<archiveVars, mode, pinned, auto, weight, baseline, applied, commits>>
      BY <1>2 DEF Recheck
    <2>2. pc'[u] = "write"
      BY <2>1 DEF Goto, GateInv, TypeOK
    <2>3. GatesHold(u)' /\ ~Duplicate(u)'
      BY <1>0, <1>2, <2>1, GatesFrame, DuplicateFrame DEF Holder, archiveVars
    <2>4. Holder(u)'
      BY <1>0, <1>1, <2>1, <2>2, <2>3 DEF Holder
    <2> QED
      BY <1>0, <1>1, <2>1, <2>4, HolderStep DEF Labels, GateInv, Reservation, TypeOK
  <1>3. CASE ~GatesHold(u)
    <2>1. /\ Goto(u, "idle") /\ plan' = [plan EXCEPT ![u] = NoPlan] /\ lock' = None /\ txn' = NoTxn
          /\ UNCHANGED <<archiveVars, mode, pinned, auto, weight, baseline, applied, commits>>
      BY <1>3 DEF Recheck, Stop
    <2>2. pc'[u] = "idle" /\ DOMAIN txn' = {"claims", "weight"}
      BY <2>1 DEF Goto, GateInv, TypeOK, NoTxn
    <2>3. Holder(u)'
      BY <2>1, <2>2 DEF Holder
    <2> QED
      BY <1>1, <2>1, <2>2, <2>3, HolderStep DEF Labels
  <1> QED
    BY <1>2, <1>3

LEMMA WriteWeightKeeps ==
    ASSUME GateInv, NEW u \in Writers, WriteWeight(u)
    PROVE  GateInv'
  <1> DEFINE row == CHOOSE r \in Batch(u) : r \notin DOMAIN txn.weight
  <1>0. pc[u] = "write" /\ Holder(u) /\ DOMAIN txn = {"claims", "weight"}
    BY DEF WriteWeight, GateInv, Reservation
  <1>1. lock = u /\ \A w \in Writers \ {u} : pc[w] \notin {"recheck", "write"}
    BY <1>0, OneHolder
  <1>2. \A r \in DOMAIN txn.weight : r \in Batch(u) /\ txn.weight[r] = plan[u].new[r]
    BY <1>0 DEF Holder
  <1>3. row \in Batch(u)
    <2>1. DOMAIN txn.weight # Batch(u)
      BY DEF WriteWeight
    <2>2. \E r \in Batch(u) : r \notin DOMAIN txn.weight
      BY <1>2, <2>1
    <2> QED
      BY <2>2
  <1>4. /\ txn' = [txn EXCEPT !.weight = Put(txn.weight, row, plan[u].new[row])]
        /\ UNCHANGED <<archiveVars, mode, pinned, auto, weight, baseline, applied, commits, pc, plan, lock>>
    BY DEF WriteWeight
  <1> HIDE DEF row
  <1>5. DOMAIN txn' = {"claims", "weight"} /\ txn'.weight = Put(txn.weight, row, plan[u].new[row])
    BY <1>0, <1>4
  <1>6. \A r \in DOMAIN txn'.weight : r \in Batch(u) /\ txn'.weight[r] = plan[u].new[r]
    BY <1>2, <1>3, <1>5 DEF Put
  <1>7. GatesHold(u)' /\ ~Duplicate(u)'
    BY <1>0, <1>4, GatesFrame, DuplicateFrame DEF Holder, archiveVars
  <1>8. Holder(u)'
    BY <1>0, <1>1, <1>4, <1>6, <1>7 DEF Holder, Batch
  <1>9. Goto(u, "write")
    BY <1>0, <1>4 DEF Goto, GateInv, TypeOK
  <1> QED
    BY <1>0, <1>1, <1>4, <1>5, <1>8, <1>9, HolderStep DEF Labels, GateInv, TypeOK

\* A commit moves the rows of its batch and no other, records each move with
\* the weight it replaces, and gives the reservation back.
LEMMA CommitKeeps ==
    ASSUME GateInv, NEW u \in Writers, Commit(u)
    PROVE  GateInv'
  <1> DEFINE g == plan[u].gate
             B == Batch(u)
             new == {Application(u, r) : r \in B}
  <1>0. pc[u] = "write" /\ Holder(u) /\ PlanOK(u) /\ BaselineOf(u)
    BY DEF Commit, GateInv, Reservation, Plans, Baselines
  <1>1. lock = u /\ \A w \in Writers \ {u} : pc[w] \notin {"recheck", "write"}
    BY <1>0, OneHolder
  <1>2. /\ B \subseteq RowsOf(g) /\ B \subseteq Rows /\ g \in Gates
        /\ \A r \in B : txn.weight[r] \in Weights
        /\ baseline[g] # None
    <2>1. B \subseteq RowsOf(g) /\ g \in Gates /\ \A r \in B : plan[u].new[r] \in Weights
      BY <1>0 DEF PlanOK, Batch
    <2>2. \A r \in B : txn.weight[r] = plan[u].new[r]
      BY <1>0 DEF Holder, Commit
    <2>3. baseline[g] # None
      BY <1>0 DEF BaselineOf
    <2> QED
      BY <2>1, <2>2, <2>3 DEF RowsOf
  <1>3. /\ weight' = [r \in Rows |-> IF r \in B THEN txn.weight[r] ELSE weight[r]]
        /\ applied' = applied \cup new /\ commits' = commits + 1
        /\ lock' = None /\ txn' = NoTxn /\ Goto(u, "idle")
        /\ plan' = [plan EXCEPT ![u] = NoPlan]
        /\ UNCHANGED <<archiveVars, mode, pinned, auto, baseline>>
    BY DEF Commit, Stop
  <1>4. \A a \in new : \E r \in B :
          /\ a.n = commits + 1 /\ a.row = r /\ a.print = PlannedFingerprint(u, r)
          /\ a.old = weight[r] /\ a.new = weight'[r]
    <2> SUFFICES ASSUME NEW r \in B
                 PROVE  LET a == Application(u, r)
                        IN  /\ a.n = commits + 1 /\ a.row = r /\ a.print = PlannedFingerprint(u, r)
                            /\ a.old = weight[r] /\ a.new = weight'[r]
      OBVIOUS
    <2>1. weight'[r] = txn.weight[r]
      BY <1>2, <1>3
    <2> QED
      BY <2>1 DEF Application
  <1>5. \A r \in B : Application(u, r) \in new /\ Application(u, r).row = r
          /\ Application(u, r).n = commits + 1 /\ Application(u, r).new = weight'[r]
    BY <1>2, <1>3 DEF Application
  <1>6. commits \in Nat /\ \A a \in applied : a.row \in Rows /\ a.n \in 1..commits
    BY DEF GateInv, TypeOK
  <1>7. pc' = [w \in Writers |-> IF w = u THEN "idle" ELSE pc[w]]
    BY <1>3 DEF Goto, GateInv, TypeOK
  <1>8. plan' = [w \in Writers |-> IF w = u THEN NoPlan ELSE plan[w]]
    BY <1>3 DEF GateInv, Shapes
  <1>9. \A a \in new, b \in new : a.row = b.row => a = b
    BY DEF Application
  <1> HIDE DEF new, B, g
  <1>10. TypeOK'
    <2>1. weight' \in [Rows -> Weights]
      BY <1>2, <1>3 DEF GateInv, TypeOK
    <2>2. commits' \in Nat /\ \A a \in applied' : a.row \in Rows /\ a.n \in 1..commits'
      BY <1>2, <1>3, <1>4, <1>6
    <2> QED
      BY <1>3, <1>7, <2>1, <2>2 DEF GateInv, TypeOK
  <1>11. Shapes'
    BY <1>3, <1>8 DEF GateInv, Shapes
  <1>12. Plans'
    <2> SUFFICES ASSUME NEW w \in Writers PROVE PlanOK(w)'
      BY DEF Plans
    <2>1. PlanOK(w)
      BY DEF GateInv, Plans
    <2> QED
      BY <2>1, <1>7, <1>8 DEF PlanOK, OldRead
  <1>13. Baselines'
    <2>1. ASSUME NEW w \in Writers PROVE BaselineOf(w)'
      BY <1>3, <1>7, <1>8 DEF GateInv, Baselines, BaselineOf
    <2>2. ASSUME NEW h \in Gates, baseline'[h] = None, NEW r \in RowsOf(h)
          PROVE  weight'[r] = InitWeight[r]
      <3>1. baseline[h] = None /\ weight[r] = InitWeight[r]
        BY <2>2, <1>3 DEF GateInv, Baselines
      <3>2. r \notin B /\ r \in Rows
        BY <3>1, <1>2 DEF RowsOf
      <3> QED
        BY <3>1, <3>2, <1>3
    <2>3. ASSUME NEW h \in Gates, NEW a \in applied', GateOf(a.row) = h
          PROVE  baseline'[h] # None
      <3>1. CASE a \in applied
        BY <2>3, <3>1, <1>3 DEF GateInv, Baselines, BaselineIsFirst
      <3>2. CASE a \in new
        BY <2>3, <3>2, <1>2, <1>3, <1>4 DEF RowsOf
      <3> QED
        BY <3>1, <3>2, <1>3
    <2>4. BaselineIsFirst'
      BY <2>3, <1>3 DEF GateInv, Baselines, BaselineIsFirst
    <2> QED
      BY <2>1, <2>2, <2>4 DEF Baselines
  <1>14. Reservation'
    <2>1. ASSUME NEW w \in Writers PROVE Holder(w)'
      <3>1. pc'[w] \notin {"recheck", "write"} /\ lock' # w
        BY <1>1, <1>3, <1>7
      <3> QED
        BY <3>1 DEF Holder
    <2> QED
      BY <2>1, <1>3 DEF Reservation, NoTxn
  <1>15. AuditTrail'
    <2>1. ASSUME NEW a \in applied'
          PROVE  \/ a.old = InitWeight[a.row] /\ ~\E b \in applied' : Before(b, a)
                 \/ \E b \in applied' :
                      /\ Before(b, a) /\ b.new = a.old
                      /\ ~\E c \in applied' : Before(b, c) /\ Before(c, a)
      <3>1. CASE a \in applied
        <4>1. \A b \in new : ~Before(b, a)
          BY <3>1, <1>4, <1>6 DEF Before
        <4>2. \/ a.old = InitWeight[a.row] /\ ~\E b \in applied : Before(b, a)
              \/ \E b \in applied :
                   /\ Before(b, a) /\ b.new = a.old
                   /\ ~\E c \in applied : Before(b, c) /\ Before(c, a)
          BY <3>1 DEF GateInv, AuditTrail
        <4> QED
          BY <4>1, <4>2, <1>3
      <3>2. CASE a \in new
        <4>1. a.n = commits + 1 /\ a.row \in Rows /\ a.old = weight[a.row]
          BY <3>2, <1>2, <1>4
        <4>2. \A b \in new : ~Before(b, a)
          BY <4>1, <1>4, <1>6 DEF Before
        <4>3. \/ weight[a.row] = InitWeight[a.row] /\ ~\E b \in applied : b.row = a.row
              \/ \E b \in applied : /\ b.row = a.row /\ b.new = weight[a.row]
                                   /\ ~\E c \in applied : Before(b, c)
          BY <4>1 DEF GateInv, AuditTrail
        <4>4. CASE weight[a.row] = InitWeight[a.row] /\ ~\E b \in applied : b.row = a.row
          BY <4>1, <4>2, <4>4, <1>3 DEF Before
        <4>5. ASSUME NEW b \in applied, b.row = a.row, b.new = weight[a.row],
                     ~\E c \in applied : Before(b, c)
              PROVE  /\ b \in applied' /\ Before(b, a) /\ b.new = a.old
                     /\ ~\E c \in applied' : Before(b, c) /\ Before(c, a)
          BY <4>1, <4>2, <4>5, <1>3, <1>6 DEF Before
        <4> QED
          BY <4>3, <4>4, <4>5
      <3> QED
        BY <3>1, <3>2, <1>3
    <2>2. ASSUME NEW r \in Rows
          PROVE  \/ weight'[r] = InitWeight[r] /\ ~\E a \in applied' : a.row = r
                 \/ \E a \in applied' : /\ a.row = r /\ a.new = weight'[r]
                                       /\ ~\E b \in applied' : Before(a, b)
      <3>1. CASE r \in B
        <4> DEFINE a == Application(u, r)
        <4>1. a \in applied' /\ a.row = r /\ a.new = weight'[r] /\ a.n = commits + 1
          BY <3>1, <1>3, <1>5
        <4>2. \A b \in applied' : b.n \in 1..(commits + 1)
          BY <1>3, <1>4, <1>6
        <4>3. ~\E b \in applied' : Before(a, b)
          BY <4>1, <4>2, <1>6 DEF Before
        <4> QED
          BY <4>1, <4>3
      <3>2. CASE r \notin B
        <4>1. weight'[r] = weight[r] /\ \A b \in new : b.row # r
          BY <3>2, <1>3, <1>4
        <4>2. \/ weight[r] = InitWeight[r] /\ ~\E a \in applied : a.row = r
              \/ \E a \in applied : /\ a.row = r /\ a.new = weight[r]
                                   /\ ~\E b \in applied : Before(a, b)
          BY DEF GateInv, AuditTrail
        <4> QED
          BY <4>1, <4>2, <1>3 DEF Before
      <3> QED
        BY <3>1, <3>2
    <2> QED
      BY <2>1, <2>2 DEF AuditTrail
  <1>16. OncePerCohort'
    <2> SUFFICES ASSUME NEW a \in applied', NEW b \in applied',
                        a.row = b.row, a.print = b.print
                 PROVE  a = b
      BY DEF OncePerCohort, ClaimKey
    <2>1. ASSUME NEW x \in applied, NEW y \in new, x.row = y.row, x.print = y.print PROVE FALSE
      <3>1. PICK r \in B : y.row = r /\ y.print = PlannedFingerprint(u, r)
        BY <1>4
      <3>2. Duplicate(u)
        BY <2>1, <3>1 DEF Duplicate, ClaimKey, B
      <3> QED
        BY <3>2, <1>0 DEF Holder
    <2>2. CASE a \in applied /\ b \in applied
      BY <2>2 DEF GateInv, OncePerCohort, ClaimKey
    <2>3. CASE a \in new /\ b \in new
      BY <2>3, <1>9
    <2> QED
      BY <2>1, <2>2, <2>3, <1>3
  <1> QED
    BY <1>10, <1>11, <1>12, <1>13, <1>14, <1>15, <1>16 DEF GateInv

-----------------------------------------------------------------------------
(* Everyone else waits for the reservation. *)

\* An edit, a refresh of the archive or an outcome happens while nobody holds
\* the reservation, and touches no weight.
LEMMA OutsideStep ==
    ASSUME GateInv, Free,
           mode' \in [Gates -> Modes], pinned' \subseteq Rows, auto' \subseteq Rows,
           UNCHANGED <<weight, baseline, applied, commits, pc, plan, lock, txn>>
    PROVE  GateInv'
  <1>1. \A w \in Writers : pc[w] \notin {"recheck", "write"}
    BY DEF GateInv, Reservation, Holder, Free
  <1>2. TypeOK' /\ Shapes'
    BY DEF GateInv, TypeOK, Shapes
  <1>3. Plans'
    BY DEF GateInv, Plans, PlanOK, OldRead
  <1>4. Baselines'
    BY DEF GateInv, Baselines, BaselineOf, BaselineIsFirst
  <1>5. Reservation'
    <2>1. ASSUME NEW w \in Writers PROVE Holder(w)'
      BY <1>1 DEF GateInv, Reservation, Holder
    <2> QED
      BY <2>1 DEF GateInv, Reservation
  <1>6. AuditTrail' /\ OncePerCohort'
    BY DEF GateInv, AuditTrail, OncePerCohort, Before, ClaimKey
  <1> QED
    BY <1>2, <1>3, <1>4, <1>5, <1>6 DEF GateInv

\* A restart loses what was planned or claimed, and nothing that was applied.
LEMMA RestartKeeps ==
    ASSUME GateInv, Restart
    PROVE  GateInv'
  <1>1. /\ pc' = [w \in Writers |-> "idle"] /\ plan' = [w \in Writers |-> NoPlan]
        /\ lock' = None /\ txn' = NoTxn
        /\ UNCHANGED <<archiveVars, mode, pinned, auto, weight, baseline, applied, commits>>
    BY DEF Restart
  <1>2. TypeOK' /\ Shapes'
    BY <1>1 DEF GateInv, TypeOK, Shapes
  <1>3. Plans'
    BY <1>1 DEF Plans, PlanOK
  <1>4. Baselines'
    BY <1>1 DEF GateInv, Baselines, BaselineOf, BaselineIsFirst
  <1>5. Reservation'
    <2>1. ASSUME NEW w \in Writers PROVE Holder(w)'
      BY <1>1 DEF Holder
    <2> QED
      BY <2>1, <1>1 DEF Reservation, NoTxn
  <1>6. AuditTrail' /\ OncePerCohort'
    BY <1>1 DEF GateInv, AuditTrail, OncePerCohort, Before, ClaimKey
  <1> QED
    BY <1>2, <1>3, <1>4, <1>5, <1>6 DEF GateInv

LEMMA InitGate == Init => GateInv
  <1> SUFFICES ASSUME Init PROVE GateInv
    OBVIOUS
  <1>1. TypeOK /\ Shapes
    BY DEF Init, TypeOK, Shapes
  <1>2. Plans
    BY DEF Init, Plans, PlanOK
  <1>3. Baselines
    BY DEF Init, Baselines, BaselineOf, BaselineIsFirst, RowsOf
  <1>4. Reservation
    <2>1. ASSUME NEW w \in Writers PROVE Holder(w)
      BY DEF Init, Holder
    <2> QED
      BY <2>1 DEF Reservation, Init, NoTxn
  <1>5. AuditTrail /\ OncePerCohort
    BY DEF Init, AuditTrail, OncePerCohort
  <1> QED
    BY <1>1, <1>2, <1>3, <1>4, <1>5 DEF GateInv

LEMMA NextGate == GateInv /\ [Next]_vars => GateInv'
  <1> SUFFICES ASSUME GateInv, [Next]_vars PROVE GateInv'
    OBVIOUS
  <1>1. ASSUME NEW u \in Writers, WriterNext(u) PROVE GateInv'
    <2>1. CASE \E g \in Gates : StartBatch(u, g)
      BY <2>1, StartBatchKeeps
    <2>2. CASE \E r \in Rows, n \in Weights : StartManual(u, r, n)
      BY <2>2, StartManualKeeps
    <2>3. CASE EnsureBaseline(u)
      BY <2>3, EnsureBaselineKeeps
    <2>4. CASE ExportBaseline(u)
      BY <2>4, ExportBaselineKeeps
    <2>5. CASE ReadItems(u)
      BY <2>5, ReadItemsKeeps
    <2>6. CASE ReadOutcomes(u)
      BY <2>6, ReadOutcomesKeeps
    <2>7. CASE ReadConfig(u)
      BY <2>7, ReadConfigKeeps
    <2>8. CASE ReadTarget(u)
      BY <2>8, ReadTargetKeeps
    <2>9. CASE Propose(u)
      BY <2>9, ProposeKeeps
    <2>10. CASE ProposeManual(u)
      BY <2>10, ProposeManualKeeps
    <2>11. CASE Claim(u)
      BY <2>11, ClaimKeeps
    <2>12. CASE ClaimTimeout(u)
      BY <2>12, StopStep DEF ClaimTimeout
    <2>13. CASE Recheck(u)
      BY <2>13, RecheckKeeps
    <2>14. CASE WriteWeight(u)
      BY <2>14, WriteWeightKeeps
    <2>15. CASE Commit(u)
      BY <2>15, CommitKeeps
    <2> QED
      BY <1>1, <2>1, <2>2, <2>3, <2>4, <2>5, <2>6, <2>7, <2>8, <2>9, <2>10, <2>11, <2>12,
         <2>13, <2>14, <2>15 DEF WriterNext
  <1>2. ASSUME NEW g \in Gates, NEW m \in Modes, SetMode(g, m) PROVE GateInv'
    <2>1. mode' \in [Gates -> Modes]
      BY <1>2 DEF SetMode, GateInv, TypeOK
    <2> QED
      BY <1>2, <2>1, OutsideStep DEF SetMode, GateInv, TypeOK
  <1>3. ASSUME NEW r \in Rows, SetPin(r) PROVE GateInv'
    <2>1. pinned' \subseteq Rows /\ auto' \subseteq Rows
      BY <1>3 DEF SetPin, GateInv, TypeOK, SymDiff
    <2> QED
      BY <1>3, <2>1, OutsideStep DEF SetPin, GateInv, TypeOK
  <1>4. CASE ArchiveStep
    BY <1>4, OutsideStep DEF ArchiveStep, GateInv, TypeOK
  <1>5. CASE Restart
    BY <1>5, RestartKeeps
  <1>6. CASE UNCHANGED vars
    <2>1. UNCHANGED gateVars /\ UNCHANGED archiveVars
      BY <1>6 DEF vars
    <2>2. TypeOK' /\ Shapes'
      BY <2>1 DEF GateInv, TypeOK, Shapes, gateVars
    <2>3. Plans' /\ Baselines'
      BY <2>1 DEF GateInv, Plans, PlanOK, OldRead, Baselines, BaselineOf, BaselineIsFirst, gateVars
    <2>4. ASSUME NEW w \in Writers PROVE Holder(w)'
      <3>1. Holder(w) /\ plan'[w] = plan[w] /\ pc'[w] = pc[w] /\ lock' = lock /\ txn' = txn
            /\ applied' = applied
            /\ UNCHANGED <<mode, pinned, auto, weight, archive, outcomes>>
        BY <2>1 DEF GateInv, Reservation, gateVars, archiveVars
      <3>2. pc[w] = "write" => GatesHold(w)'
        BY <3>1, GatesFrame DEF Holder
      <3>3. pc[w] \in {"recheck", "write"} => ~Duplicate(w)'
        BY <3>1, DuplicateFrame DEF Holder
      <3> QED
        BY <3>1, <3>2, <3>3 DEF Holder, Batch
    <2>5. Reservation'
      BY <2>1, <2>4 DEF GateInv, Reservation, gateVars
    <2>6. AuditTrail' /\ OncePerCohort'
      BY <2>1 DEF GateInv, AuditTrail, OncePerCohort, Before, ClaimKey, gateVars
    <2> QED
      BY <2>2, <2>3, <2>5, <2>6 DEF GateInv
  <1> QED
    BY <1>1, <1>2, <1>3, <1>4, <1>5, <1>6 DEF Next

-----------------------------------------------------------------------------
\* For any number of writers, archives and outcomes, what the gate writes is
\* well-typed.
THEOREM GateTypeCorrect == Spec => []TypeOK
  BY InitGate, NextGate, PTL DEF Spec, GateInv

\* The applications of every row are an unbroken history of its weight.
THEOREM WeightsAreAudited == Spec => []AuditTrail
  BY InitGate, NextGate, PTL DEF Spec, GateInv

\* No row is ever moved twice on the same evidence.
THEOREM EvidenceSpentOnce == Spec => []OncePerCohort
  BY InitGate, NextGate, PTL DEF Spec, GateInv

\* The baseline of a gate is archived before its first change.
THEOREM BaselinePrecedesChange == Spec => []BaselineIsFirst
  BY InitGate, NextGate, PTL DEF Spec, GateInv, Baselines

\* Every weight is committed while each gate holds on the committed state.
THEOREM AppliedThroughTheGate == Spec => GatedAndFresh
  <1> DEFINE Fresh == \A a \in applied' \ applied :
        LET c == FreshCohort(a.row)
        IN  /\ mode[GateOf(a.row)] = "ACTIVE"
            /\ a.row \in auto \ pinned
            /\ a.print = Fingerprint(c, a.row[1])
            /\ Ready(c, a.row[1], a.row[2], a.row[3])
  <1>1. GateInv /\ [Next]_vars => [Fresh]_vars
    <2> SUFFICES ASSUME GateInv, Next, NEW a \in applied' \ applied
                 PROVE  /\ mode[GateOf(a.row)] = "ACTIVE"
                        /\ a.row \in auto \ pinned
                        /\ a.print = Fingerprint(FreshCohort(a.row), a.row[1])
                        /\ Ready(FreshCohort(a.row), a.row[1], a.row[2], a.row[3])
      BY DEF Fresh
    <2>1. applied' # applied
      OBVIOUS
    <2>2. PICK u \in Writers : Commit(u)
      BY <2>1 DEF Next, WriterNext, StartBatch, StartManual, EnsureBaseline, ExportBaseline,
         ReadItems, ReadOutcomes, ReadConfig, ReadTarget, Propose, ProposeManual, Claim,
         ClaimTimeout, Recheck, WriteWeight, SetMode, SetPin, ArchiveStep, Restart
    <2>3. GatesHold(u) /\ PlanOK(u) /\ pc[u] = "write"
      BY <2>2 DEF Commit, GateInv, Reservation, Holder, Plans
    <2>4. PICK r \in Batch(u) : a = Application(u, r)
      BY <2>2 DEF Commit
    <2>5. a.row = r /\ a.print = PlannedFingerprint(u, r)
      BY <2>4 DEF Application
    <2>6. GateOf(r) = plan[u].gate
      BY <2>3 DEF PlanOK, Batch, RowsOf
    <2> QED
      BY <2>3, <2>5, <2>6 DEF GatesHold
  <1>2. GatedAndFresh <=> [][Fresh]_vars
    BY DEF GatedAndFresh
  <1> QED
    BY <1>1, InitGate, NextGate, PTL DEF Spec, GatedAndFresh

-----------------------------------------------------------------------------
(* Canonical decisions. *)

\* Every archived decision has a time.
ArchiveInv == \A c \in archive : c.decided \in Int

\* What is archived later than its decision.
Displaced(it, g, new) ==
    \E first \in new : /\ HasEvidence(first, g[1])
                       /\ Unit(first, g[1]) = Unit(it, g[1])
                       /\ first.decided <= it.decided

\* A capture takes a unit away from a decision with an earlier one only.
LEMMA CapturesYield ==
    ASSUME NEW arch, NEW c, NEW g,
           \A x \in arch \cup {c} : x.decided \in Int,
           NEW it \in Canonical(g[1], g[2], arch)
    PROVE  \/ it \in Canonical(g[1], g[2], arch \cup {c})
           \/ Displaced(it, g, Items(arch \cup {c}) \ Items(arch))
  <1> SUFFICES ASSUME it \notin Canonical(g[1], g[2], arch \cup {c})
               PROVE  Displaced(it, g, Items(arch \cup {c}) \ Items(arch))
    OBVIOUS
  <1>1. /\ it \in Items(arch) /\ InScope(it, g[2]) /\ HasEvidence(it, g[1])
        /\ \A other \in Items(arch) :
              InScope(other, g[2]) /\ HasEvidence(other, g[1]) =>
                ~(Unit(other, g[1]) = Unit(it, g[1]) /\ Precedes(other, it, g[1]))
    BY DEF Canonical
  <1>2. Items(arch \cup {c}) = Items(arch) \cup ItemsOf(c)
    BY DEF Items
  <1>3. \A x \in Items(arch \cup {c}) : x.decided \in Int
    BY DEF Items, ItemsOf
  <1>4. PICK other \in Items(arch \cup {c}) :
          /\ InScope(other, g[2]) /\ HasEvidence(other, g[1])
          /\ Unit(other, g[1]) = Unit(it, g[1]) /\ Precedes(other, it, g[1])
    BY <1>1, <1>2 DEF Canonical
  <1>5. other \notin Items(arch)
    BY <1>1, <1>4
  <1>6. other.decided <= it.decided
    <2>1. other.decided \in Int /\ it.decided \in Int
      BY <1>1, <1>2, <1>3
    <2>2. other.decided < it.decided \/ other.decided = it.decided
      BY <1>4 DEF Precedes
    <2> QED
      BY <2>1, <2>2
  <1> QED
    BY <1>4, <1>5, <1>6 DEF Displaced

LEMMA InitArchived == Init => ArchiveInv
  BY DecisionsTyped DEF Init, InitArchiveState, ArchiveInv

\* A step changes the archive by a capture, or not at all.
LEMMA NextArchives ==
    ASSUME ArchiveInv, [Next]_vars
    PROVE  /\ ArchiveInv'
           /\ archive' # archive => \E c : archive' = archive \cup {c}
  <1>1. CASE \E p \in Payloads : Capture(p)
    <2>1. PICK p \in Payloads : Capture(p)
      BY <1>1
    <2> DEFINE c == CaptureOf(p, NextRevision(p.base))
    <2>2. archive' = archive \/ archive' = archive \cup {c}
      BY <2>1 DEF Capture
    <2>3. c.decided \in Int
      BY DecisionsTyped DEF CaptureOf
    <2> HIDE DEF c
    <2> QED
      BY <2>2, <2>3 DEF ArchiveInv
  <1>2. CASE UNCHANGED archive
    BY <1>2 DEF ArchiveInv
  <1> QED
    BY <1>1, <1>2 DEF Next, vars, archiveVars, WriterNext, StartBatch, StartManual, EnsureBaseline,
       ExportBaseline, ReadItems, ReadOutcomes, ReadConfig, ReadTarget, Propose, ProposeManual,
       Claim, ClaimTimeout, Recheck, WriteWeight, Commit, SetMode, SetPin, ArchiveStep, Restart,
       ArchiveNext, RecordOutcome, DropSignal

\* The decision that stands for a unit gives way to an earlier one only.
THEOREM CanonicalSettled == Spec => FirstDecisionStands
  <1> DEFINE Settled == archive' # archive =>
        \A g \in Gates :
            \A it \in Canonical(g[1], g[2], archive) \ Canonical(g[1], g[2], archive') :
                Displaced(it, g, Items(archive') \ Items(archive))
  <1>1. ArchiveInv /\ [Next]_vars => [Settled]_vars
    <2> SUFFICES ASSUME ArchiveInv, [Next]_vars, archive' # archive, NEW g \in Gates,
                        NEW it \in Canonical(g[1], g[2], archive) \ Canonical(g[1], g[2], archive')
                 PROVE  Displaced(it, g, Items(archive') \ Items(archive))
      OBVIOUS
    <2>1. PICK c : archive' = archive \cup {c}
      BY NextArchives
    <2>2. \A x \in archive \cup {c} : x.decided \in Int
      BY <2>1, NextArchives DEF ArchiveInv
    <2>3. \/ it \in Canonical(g[1], g[2], archive \cup {c})
          \/ Displaced(it, g, Items(archive \cup {c}) \ Items(archive))
      BY <2>2, CapturesYield
    <2> QED
      BY <2>1, <2>3
  <1>2. ArchiveInv /\ [Next]_vars => ArchiveInv'
    BY NextArchives
  <1>3. FirstDecisionStands <=> [][Settled]_vars
    BY DEF FirstDecisionStands, Displaced
  <1> QED
    BY <1>1, <1>2, <1>3, InitArchived, PTL DEF Spec

=============================================================================
