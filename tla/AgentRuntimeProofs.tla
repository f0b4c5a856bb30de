------------------------- MODULE AgentRuntimeProofs -------------------------
(***************************************************************************)
(* Proofs about AgentRuntime, for any calls, policy, fingerprints, limits  *)
(* and size of a turn: approvals and budgets are respected, no text goes   *)
(* before a demanded tool, and the run is a run of ToolTranscript.         *)
(*                                                                         *)
(* The heart of the invariant is OwedHolds: while the run is alive the     *)
(* calls still to look at and the calls held are disjoint lists without    *)
(* repetition, and together they are the calls without a tool message.     *)
(*                                                                         *)
(* The last part is about the chain of models behind a turn, AiFailover.   *)
(***************************************************************************)
EXTENDS AgentRuntime, AiFailover, SequenceTheorems, FiniteSetTheorems,
        WellFoundedInduction, TLAPS

USE RunAssumption

-----------------------------------------------------------------------------
(* The invariant.                                                          *)

\* Where the locals of the loop may stand in each phase.
LocalHolds ==
    /\ phase \in {"loop", "paused", "done"} => current = NoCall
    /\ phase \in {"loop", "paused"} => todo = <<>>
    /\ phase = "loop" => held = <<>>
    /\ current # NoCall => /\ todo # <<>> /\ current = Head(todo)
                           /\ attempt > 0 /\ ran[current] = attempt

OwedHolds ==
    phase # "done" =>
        /\ IsInjective(todo) /\ IsInjective(held)
        /\ ToSet(todo) \cap ToSet(held) = {}
        /\ Open = ToSet(todo) \cup ToSet(held)

\* What has happened to a call before, by where it is now.
FreshHolds ==
    /\ \A c \in Calls : results[c] \in {0, 1}
    /\ \A c \in Calls \ proposed :
         results[c] = 0 /\ ran[c] = 0 /\ decision[c] = "none"
    /\ phase # "done" =>
         /\ \A c \in ToSet(held) :
              c \in AskCalls \ UnknownCalls /\ decision[c] = "none" /\ ran[c] = 0
         /\ \A c \in ToSet(todo) : c # current => ran[c] = 0
         /\ phase = "batch" => \A c \in ToSet(todo) : decision[c] = "none"
         /\ phase = "resume" => \A c \in ToSet(todo) : c \in AskCalls \ UnknownCalls

\* The calls that were counted against the limit.
Counted ==
    {c \in Calls : \/ ran[c] > 0 \/ results[c] > 0 \/ c \in ToSet(held)
                   \/ phase = "resume" /\ c \in ToSet(todo)}

BudgetHolds ==
    /\ IsFiniteSet(proposed) /\ Cardinality(proposed) <= step * MaxBatch
    /\ IsFiniteSet(Counted) /\ Cardinality(Counted) <= used

IInv == /\ TypeOK /\ LocalHolds /\ OwedHolds /\ FreshHolds
        /\ RunsAsPermitted /\ NoTextBeforeTool /\ BudgetHolds

-----------------------------------------------------------------------------
(* Lists without repetition, and cardinalities.                            *)

LEMMA EmptyList == ToSet(<<>>) = {} /\ IsInjective(<<>>)
BY DEF ToSet, IsInjective

LEMMA NoElements ==
    ASSUME NEW S, NEW s \in Seq(S), ToSet(s) = {}
    PROVE  s = <<>>
<1> SUFFICES ASSUME s # <<>> PROVE FALSE
  OBVIOUS
<1>1. Len(s) > 0 /\ 1 \in DOMAIN s
  BY EmptySeq, LenProperties
<1> QED
  BY <1>1 DEF ToSet

LEMMA ListElements ==
    ASSUME NEW S, NEW s \in Seq(S)
    PROVE  ToSet(s) \subseteq S
BY ElementOfSeq, LenProperties DEF ToSet

\* Taking the head off a list without repetition takes it out of its set.
LEMMA TailOfList ==
    ASSUME NEW S, NEW s \in Seq(S), s # <<>>, IsInjective(s)
    PROVE  /\ Head(s) \in ToSet(s)
           /\ Tail(s) \in Seq(S)
           /\ IsInjective(Tail(s))
           /\ ToSet(Tail(s)) = ToSet(s) \ {Head(s)}
<1>1. /\ Len(s) \in Nat \ {0} /\ DOMAIN s = 1..Len(s)
      /\ Tail(s) \in Seq(S) /\ Len(Tail(s)) = Len(s) - 1
      /\ Head(s) = s[1]
      /\ \A i \in 1..Len(Tail(s)) : Tail(s)[i] = s[i + 1]
  BY EmptySeq, LenProperties, HeadTailProperties
<1>2. DOMAIN Tail(s) = 1..(Len(s) - 1)
  BY <1>1, LenProperties
<1>3. IsInjective(Tail(s))
  BY <1>1, <1>2 DEF IsInjective
<1>4. ASSUME NEW i \in DOMAIN s, i # 1
      PROVE  i - 1 \in DOMAIN Tail(s) /\ s[i] = Tail(s)[i - 1]
  <2>1. i - 1 \in 1..(Len(s) - 1) /\ (i - 1) + 1 = i
    BY <1>1, <1>4
  <2> QED
    BY <1>1, <1>2, <2>1
<1>5. \A i \in DOMAIN Tail(s) : Tail(s)[i] = s[i + 1] /\ s[i + 1] # s[1]
  BY <1>1, <1>2 DEF IsInjective
<1>6. ToSet(Tail(s)) \subseteq ToSet(s) \ {Head(s)}
  BY <1>1, <1>2, <1>5 DEF ToSet
<1>7. ToSet(s) \ {Head(s)} \subseteq ToSet(Tail(s))
  <2> SUFFICES ASSUME NEW i \in DOMAIN s, s[i] # s[1]
               PROVE  s[i] \in ToSet(Tail(s))
    BY <1>1 DEF ToSet
  <2>1. i # 1
    OBVIOUS
  <2> QED
    BY <1>4, <2>1 DEF ToSet
<1>8. Head(s) \in ToSet(s)
  BY <1>1 DEF ToSet
<1> QED
  BY <1>1, <1>3, <1>6, <1>7, <1>8

LEMMA AppendToList ==
    ASSUME NEW S, NEW s \in Seq(S), NEW e \in S, IsInjective(s), e \notin ToSet(s)
    PROVE  /\ Append(s, e) \in Seq(S)
           /\ IsInjective(Append(s, e))
           /\ ToSet(Append(s, e)) = ToSet(s) \cup {e}
<1> DEFINE t == Append(s, e)
<1>1. /\ Len(s) \in Nat /\ DOMAIN s = 1..Len(s)
      /\ t \in Seq(S) /\ Len(t) = Len(s) + 1
      /\ \A i \in 1..Len(s) : t[i] = s[i]
      /\ t[Len(s) + 1] = e
  BY LenProperties
<1>2. DOMAIN t = 1..(Len(s) + 1)
  BY <1>1, LenProperties
<1> HIDE DEF t
<1>3. \A i \in DOMAIN s : s[i] # e
  BY DEF ToSet
<1>4. IsInjective(t)
  BY <1>1, <1>2, <1>3 DEF IsInjective
<1>5. ToSet(t) = ToSet(s) \cup {e}
  BY <1>1, <1>2 DEF ToSet
<1> QED
  BY <1>1, <1>4, <1>5 DEF t

LEMMA CardinalityIsNat ==
    ASSUME NEW S, IsFiniteSet(S)
    PROVE  Cardinality(S) \in Nat
BY FS_CardinalityType

LEMMA IntervalSize ==
    ASSUME NEW n \in Nat \ {0}
    PROVE  IsFiniteSet(1..n) /\ Cardinality(1..n) = n
<1>1. /\ IsFiniteSet(1..n)
      /\ Cardinality(1..n) = IF 1 > n THEN 0 ELSE n - 1 + 1
  <2>1. 1 \in Int /\ n \in Int
    OBVIOUS
  <2> QED
    BY ONLY <2>1, FS_Interval
<1>2. ~(1 > n) /\ n - 1 + 1 = n
  OBVIOUS
<1> QED
  BY <1>1, <1>2

\* The calls of a turn: a list without repetition of at most MaxBatch new ones.
LEMMA BatchFacts ==
    ASSUME NEW b \in Batches
    PROVE  /\ b \in Seq(Calls) /\ b # <<>> /\ IsInjective(b)
           /\ ToSet(b) \subseteq Calls \ proposed /\ ToSet(b) # {}
           /\ IsFiniteSet(ToSet(b)) /\ Cardinality(ToSet(b)) <= MaxBatch
<1>1. PICK n \in 1..MaxBatch : b \in [1..n -> Calls \ proposed]
  BY DEF Batches
<1>2. b \in Seq(Calls) /\ IsInjective(b) /\ n \in Nat
  BY <1>1, SeqDef DEF Batches
<1>3. ToSet(b) \subseteq Calls \ proposed /\ b[1] \in ToSet(b)
  BY <1>1 DEF ToSet
<1>4. b # <<>>
  BY <1>3, EmptyList
<1>5. b \in Surjection(1..n, ToSet(b))
  BY <1>1 DEF Surjection, ToSet
<1>7. IsFiniteSet(1..n) /\ Cardinality(1..n) = n
  BY <1>1, IntervalSize
<1>6. IsFiniteSet(ToSet(b)) /\ Cardinality(ToSet(b)) <= Cardinality(1..n)
  <2>1. IsFiniteSet(1..n)
    BY <1>7
  <2> QED
    BY <1>5, <2>1, FS_Surjection
<1>8. Cardinality(ToSet(b)) <= MaxBatch
  <2>1. Cardinality(ToSet(b)) <= n /\ n \in Nat /\ n <= MaxBatch
    BY <1>1, <1>6, <1>7
  <2>2. Cardinality(ToSet(b)) \in Nat
    BY <1>6, CardinalityIsNat
  <2>3. MaxBatch \in Nat
    OBVIOUS
  <2> QED
    BY <2>1, <2>2, <2>3
<1> QED
  BY <1>2, <1>3, <1>4, <1>6, <1>8

LEMMA FewerCounted ==
    ASSUME NEW S, NEW T, NEW n \in Nat, NEW m \in Nat,
           IsFiniteSet(S), Cardinality(S) <= n, n <= m, T \subseteq S
    PROVE  IsFiniteSet(T) /\ Cardinality(T) <= m
<1>1. IsFiniteSet(T) /\ Cardinality(T) <= Cardinality(S)
  BY FS_Subset
<1> QED
  BY <1>1, CardinalityIsNat

LEMMA OneMoreCounted ==
    ASSUME NEW S, NEW T, NEW x, NEW n \in Nat,
           IsFiniteSet(S), Cardinality(S) <= n, T \subseteq S \cup {x}
    PROVE  IsFiniteSet(T) /\ Cardinality(T) <= n + 1
<1>1. IsFiniteSet(S \cup {x}) /\ Cardinality(S \cup {x}) <= n + 1
  <2>1. /\ IsFiniteSet(S \cup {x})
        /\ \/ Cardinality(S \cup {x}) = Cardinality(S)
           \/ Cardinality(S \cup {x}) = Cardinality(S) + 1
    BY FS_AddElement
  <2>2. Cardinality(S) \in Nat
    BY CardinalityIsNat
  <2> QED
    BY <2>1, <2>2
<1>2. IsFiniteSet(T) /\ Cardinality(T) <= Cardinality(S \cup {x})
  BY <1>1, FS_Subset
<1> QED
  BY <1>1, <1>2, CardinalityIsNat

LEMMA OneMoreTurn ==
    ASSUME NEW a \in Nat, NEW b \in Nat
    PROVE  (a + 1) * b = a * b + b /\ a * b \in Nat
OBVIOUS

\* A turn names at most MaxBatch calls more.
LEMMA MoreProposed ==
    ASSUME NEW S, NEW T, NEW a \in Nat, NEW b \in Nat,
           IsFiniteSet(S), Cardinality(S) <= a * b,
           IsFiniteSet(T), Cardinality(T) <= b
    PROVE  IsFiniteSet(S \cup T) /\ Cardinality(S \cup T) <= (a + 1) * b
<1>1. /\ IsFiniteSet(S \cup T)
      /\ Cardinality(S \cup T) = Cardinality(S) + Cardinality(T) - Cardinality(S \cap T)
  BY FS_Union
<1>2. IsFiniteSet(S \cap T)
  BY FS_Subset
<1>3. /\ Cardinality(S) \in Nat /\ Cardinality(T) \in Nat
      /\ Cardinality(S \cap T) \in Nat
  BY <1>2, CardinalityIsNat
<1> DEFINE p == a * b
<1>4. (a + 1) * b = p + b /\ p \in Nat /\ Cardinality(S) <= p
  BY OneMoreTurn
<1> HIDE DEF p
<1> QED
  BY <1>1, <1>3, <1>4

-----------------------------------------------------------------------------
(* The first state, and the ends of a run.                                 *)

LEMMA InitInv == Init => IInv
<1> SUFFICES ASSUME Init PROVE IInv
  OBVIOUS
<1>9. /\ 0 \in 0..MaxSteps /\ 0 \in 0..MaxToolCalls /\ 0 \in 0..Retries + 1
      /\ <<>> \in Seq(Calls)
  OBVIOUS
<1>1. TypeOK
  BY <1>9 DEF Init, TypeOK
<1>0. LocalHolds /\ RunsAsPermitted
  BY DEF Init, LocalHolds, RunsAsPermitted
<1>8. NoTextBeforeTool
  BY DEF Init, NoTextBeforeTool
<1>2. ToSet(todo) = {} /\ ToSet(held) = {} /\ IsInjective(todo) /\ IsInjective(held)
  BY EmptyList DEF Init
<1>3. OwedHolds /\ FreshHolds
  BY <1>2 DEF Init, OwedHolds, FreshHolds, Open
<1>4. IsFiniteSet({}) /\ Cardinality({}) = 0
  BY FS_EmptySet
<1>5. Counted = {}
  BY <1>2 DEF Init, Counted
<1>6. proposed = {} /\ step * MaxBatch = 0 /\ used = 0
  BY DEF Init
<1>7. BudgetHolds
  BY <1>4, <1>5, <1>6 DEF BudgetHolds
<1> QED
  BY <1>0, <1>1, <1>3, <1>7, <1>8 DEF IInv

\* Text is published once no tool is demanded any more.
LEMMA SpeakingKeeps ==
    ASSUME TypeOK, NoTextBeforeTool, UNCHANGED answer \/ Speaks, UNCHANGED results
    PROVE  NoTextBeforeTool'
<1>1. \A c \in Calls : results[c] # 0 => results[c] > 0
  BY DEF TypeOK
<1> QED
  BY <1>1, Zenon DEF NoTextBeforeTool, Speaks, _tool_choice_required

\* Whatever ends the run, with whatever text and call count it may leave.
LEMMA FinishKeeps ==
    ASSUME IInv, NEW result \in {"completed", "partial", "failed", "cancelled"},
           Finish(result),
           used' \in {used, used + 1} /\ used' \in 0..MaxToolCalls,
           UNCHANGED answer \/ Speaks
    PROVE  IInv'
<1>1. TypeOK'
  BY DEF IInv, TypeOK, Finish, Speaks
<1>2. LocalHolds' /\ OwedHolds'
  BY DEF Finish, LocalHolds, OwedHolds
<1>3. FreshHolds' /\ RunsAsPermitted'
  BY DEF IInv, Finish, FreshHolds, RunsAsPermitted
<1>4. NoTextBeforeTool'
  BY SpeakingKeeps DEF IInv, Finish
<1>5. BudgetHolds'
  <2>1. Counted' \subseteq Counted
    BY DEF Counted, Finish
  <2>2. used \in Nat /\ used' \in Nat /\ used <= used'
    BY DEF IInv, TypeOK
  <2>3. IsFiniteSet(Counted') /\ Cardinality(Counted') <= used'
    BY <2>1, <2>2, FewerCounted DEF IInv, BudgetHolds
  <2> QED
    BY <2>3 DEF IInv, BudgetHolds, Finish
<1> QED
  BY <1>1, <1>2, <1>3, <1>4, <1>5 DEF IInv

LEMMA EndingsKeep ==
    ASSUME IInv,
           \/ StepLimit \/ Answers \/ RequiredCallMissing \/ CallLimit
           \/ CallRefused \/ ToolReportsFailure \/ Interrupted
    PROVE  IInv'
<1>1. used \in 0..MaxToolCalls /\ MaxToolCalls \in Nat
  BY DEF IInv, TypeOK
<1>2. CASE StepLimit \/ RequiredCallMissing \/ CallLimit \/ ToolReportsFailure
  BY <1>1, <1>2, FinishKeeps
     DEF StepLimit, RequiredCallMissing, CallLimit, ToolReportsFailure
<1>3. CASE Answers
  BY <1>1, <1>3, FinishKeeps DEF Answers
<1>4. CASE CallRefused
  <2>1. used + 1 \in 0..MaxToolCalls
    BY <1>1, <1>4 DEF CallRefused, OverCallLimit
  <2> QED
    BY <1>4, <2>1, FinishKeeps DEF CallRefused
<1>5. CASE Interrupted
  <2>1. PICK result \in {"partial", "cancelled", "failed"} : Finish(result)
    BY <1>5 DEF Interrupted
  <2> QED
    BY <1>1, <1>5, <2>1, FinishKeeps DEF Interrupted
<1> QED
  BY <1>2, <1>3, <1>4, <1>5

-----------------------------------------------------------------------------
(* The turns of the model.                                                 *)

LEMMA RepairKeeps == ASSUME IInv, Repair PROVE IInv'
<1>8. step \in 0..MaxSteps /\ step < MaxSteps
  BY DEF IInv, TypeOK, Repair
<1>0. step + 1 \in 0..MaxSteps
  BY <1>8
<1>1. TypeOK'
  BY <1>0 DEF IInv, TypeOK, Repair
<1>2. LocalHolds' /\ OwedHolds' /\ FreshHolds' /\ RunsAsPermitted' /\ NoTextBeforeTool'
  BY DEF IInv, Repair, LocalHolds, OwedHolds, Open, FreshHolds, RunsAsPermitted,
         NoTextBeforeTool
<1>3. Counted' = Counted
  BY DEF Counted, Repair
<1>4. step \in Nat /\ MaxBatch \in Nat
  BY DEF IInv, TypeOK
<1>5. step * MaxBatch \in Nat /\ (step + 1) * MaxBatch \in Nat
      /\ step * MaxBatch <= (step + 1) * MaxBatch
  BY <1>4, OneMoreTurn
<1>6. Cardinality(proposed) <= (step + 1) * MaxBatch
  BY <1>5, FewerCounted DEF IInv, BudgetHolds
<1>7. BudgetHolds'
  BY <1>3, <1>6 DEF IInv, BudgetHolds, Repair
<1> QED
  BY <1>1, <1>2, <1>7 DEF IInv

LEMMA ProposesCallsKeeps == ASSUME IInv, ProposesCalls PROVE IInv'
<1>1. PICK b \in Batches : todo' = b /\ proposed' = proposed \cup ToSet(b)
  BY DEF ProposesCalls
<1>2. /\ b \in Seq(Calls) /\ b # <<>> /\ IsInjective(b)
      /\ ToSet(b) \subseteq Calls \ proposed
      /\ IsFiniteSet(ToSet(b)) /\ Cardinality(ToSet(b)) <= MaxBatch
  BY BatchFacts
<1>3. /\ phase = "loop" /\ phase' = "batch" /\ step' = step + 1 /\ step < MaxSteps
      /\ UNCHANGED <<results, used, held, current, attempt, last, repaired,
                     status, decision, ran>>
      /\ Speaks
  BY DEF ProposesCalls
<1>4. /\ current = NoCall /\ todo = <<>> /\ held = <<>>
      /\ ToSet(todo) = {} /\ ToSet(held) = {} /\ IsInjective(held)
      /\ Open = {}
  BY <1>3, EmptyList DEF IInv, LocalHolds, OwedHolds
<1>17. step \in 0..MaxSteps /\ proposed \subseteq Calls
  BY DEF IInv, TypeOK
<1>15. step + 1 \in 0..MaxSteps /\ proposed' \subseteq Calls
  BY <1>1, <1>2, <1>3, <1>17
<1>16. answer' \in BOOLEAN
  BY <1>3, Zenon DEF IInv, TypeOK, Speaks
<1>5. TypeOK'
  BY <1>1, <1>2, <1>3, <1>15, <1>16 DEF IInv, TypeOK
<1>6. LocalHolds'
  BY <1>2, <1>3, <1>4 DEF LocalHolds
<1>7. Open' = ToSet(b)
  BY <1>1, <1>2, <1>3, <1>4 DEF Open, IInv, TypeOK, FreshHolds
<1>8. OwedHolds'
  BY <1>1, <1>2, <1>3, <1>4, <1>7 DEF OwedHolds
<1>9. FreshHolds'
  BY <1>1, <1>2, <1>3, <1>4 DEF IInv, FreshHolds
<1>10. RunsAsPermitted' /\ NoTextBeforeTool'
  BY <1>3, SpeakingKeeps DEF IInv, RunsAsPermitted
<1>11. Counted' = Counted
  BY <1>3, <1>4 DEF Counted
<1>12. step \in Nat /\ MaxBatch \in Nat
  BY DEF IInv, TypeOK
<1>13. IsFiniteSet(proposed') /\ Cardinality(proposed') <= step' * MaxBatch
  BY <1>1, <1>2, <1>3, <1>12, MoreProposed DEF IInv, BudgetHolds
<1>14. BudgetHolds'
  BY <1>3, <1>11, <1>13 DEF IInv, BudgetHolds
<1> QED
  BY <1>5, <1>6, <1>8, <1>9, <1>10, <1>14 DEF IInv

-----------------------------------------------------------------------------
(* The calls of a turn or of a checkpoint, one by one.                     *)

\* The first call still to look at is open, and nowhere else.
LEMMA FirstCall ==
    ASSUME IInv, phase \in {"batch", "resume"}, todo # <<>>
    PROVE  /\ call \in Calls /\ call \in ToSet(todo) /\ call \in proposed
           /\ results[call] = 0 /\ call \notin ToSet(held)
           /\ Tail(todo) \in Seq(Calls) /\ IsInjective(Tail(todo))
           /\ ToSet(Tail(todo)) = ToSet(todo) \ {call}
           /\ ToSet(todo) \subseteq Calls /\ ToSet(held) \subseteq Calls
           /\ current = NoCall => ran[call] = 0
<1>1. todo \in Seq(Calls) /\ held \in Seq(Calls)
  BY DEF IInv, TypeOK
<1>2. /\ IsInjective(todo) /\ ToSet(todo) \cap ToSet(held) = {}
      /\ Open = ToSet(todo) \cup ToSet(held)
  BY DEF IInv, OwedHolds
<1>3. /\ call \in ToSet(todo) /\ Tail(todo) \in Seq(Calls) /\ IsInjective(Tail(todo))
      /\ ToSet(Tail(todo)) = ToSet(todo) \ {call}
  BY <1>1, <1>2, TailOfList DEF call
<1>4. ToSet(todo) \subseteq Calls /\ ToSet(held) \subseteq Calls
  BY <1>1, ListElements
<1>5. call \in proposed /\ results[call] = 0
  BY <1>2, <1>3 DEF Open
<1>6. current = NoCall => ran[call] = 0
  BY <1>3, <1>4 DEF IInv, FreshHolds
<1> QED
  BY <1>2, <1>3, <1>4, <1>5, <1>6

\* A call that passes the gates was the last one the limit allows at most.
LEMMA PassesFacts ==
    ASSUME IInv, Passes
    PROVE  /\ phase = "batch" /\ current = NoCall /\ todo # <<>>
           /\ call \notin UnknownCalls
           /\ used \in Nat /\ used' = used + 1 /\ used' \in 0..MaxToolCalls
           /\ last' \in {Fingerprint[c] : c \in Calls}
           /\ UNCHANGED <<proposed, answer, step, phase, repaired, status, decision>>
<1>1. /\ phase = "batch" /\ current = NoCall /\ todo # <<>>
      /\ ~OverCallLimit /\ call \notin UnknownCalls
      /\ used' = used + 1 /\ last' = Fingerprint[call]
      /\ UNCHANGED <<proposed, answer, step, phase, repaired, status, decision>>
  BY DEF Passes
<1>2. used \in 0..MaxToolCalls /\ used < MaxToolCalls
  BY <1>1 DEF IInv, TypeOK, OverCallLimit
<1>3. used \in Nat /\ used + 1 \in 0..MaxToolCalls
  BY <1>2
<1>4. call \in Calls
  BY <1>1, FirstCall
<1> QED
  BY <1>1, <1>3, <1>4

LEMMA CallAsksKeeps == ASSUME IInv, CallAsks PROVE IInv'
<1>1. /\ phase = "batch" /\ current = NoCall /\ todo # <<>>
      /\ call \notin UnknownCalls
      /\ used \in Nat /\ used' = used + 1 /\ used' \in 0..MaxToolCalls
      /\ last' \in {Fingerprint[c] : c \in Calls}
      /\ UNCHANGED <<proposed, answer, step, phase, repaired, status, decision>>
  BY PassesFacts DEF CallAsks
<1>2. /\ call \in AskCalls /\ held' = Append(held, call) /\ todo' = Tail(todo)
      /\ UNCHANGED <<results, current, attempt, ran>>
  BY DEF CallAsks
<1>3. /\ call \in Calls /\ call \in ToSet(todo) /\ call \in proposed
      /\ results[call] = 0 /\ call \notin ToSet(held)
      /\ todo' \in Seq(Calls) /\ IsInjective(todo')
      /\ ToSet(todo') = ToSet(todo) \ {call}
      /\ ToSet(held) \subseteq Calls /\ ran[call] = 0
  BY <1>1, <1>2, FirstCall
<1>4. held' \in Seq(Calls) /\ IsInjective(held') /\ ToSet(held') = ToSet(held) \cup {call}
  BY <1>1, <1>2, <1>3, AppendToList DEF IInv, TypeOK, OwedHolds
<1>5. TypeOK'
  BY <1>1, <1>2, <1>3, <1>4 DEF IInv, TypeOK
<1>6. LocalHolds'
  BY <1>1, <1>2 DEF IInv, LocalHolds
<1>7. OwedHolds'
  BY <1>1, <1>2, <1>3, <1>4 DEF IInv, OwedHolds, Open
<1>8. decision[call] = "none"
  BY <1>1, <1>3 DEF IInv, FreshHolds
<1>9. FreshHolds'
  BY <1>1, <1>2, <1>3, <1>4, <1>8 DEF IInv, FreshHolds
<1>10. RunsAsPermitted' /\ NoTextBeforeTool'
  BY <1>1, <1>2 DEF IInv, RunsAsPermitted, NoTextBeforeTool
<1>11. Counted' \subseteq Counted \cup {call}
  BY <1>1, <1>2, <1>4 DEF Counted
<1>12. BudgetHolds'
  BY <1>1, <1>11, OneMoreCounted DEF IInv, BudgetHolds
<1> QED
  BY <1>5, <1>6, <1>7, <1>9, <1>10, <1>12 DEF IInv

\* A call gets its tool message and leaves the list.
LEMMA SettledKeeps ==
    ASSUME IInv, phase \in {"batch", "resume"}, todo # <<>>,
           Append_tool_result(call), todo' = Tail(todo),
           current' = NoCall, used' \in 0..MaxToolCalls, used <= used',
           \/ used' = used + 1
           \/ used' = used /\ call \in Counted,
           last' \in {Fingerprint[c] : c \in Calls} \cup {NoFingerprint},
           current \in {NoCall, call},
           UNCHANGED <<proposed, answer, step, held, phase, attempt, repaired,
                       status, decision, ran>>
    PROVE  IInv'
<1>3. /\ call \in Calls /\ call \in ToSet(todo) /\ call \in proposed
      /\ results[call] = 0 /\ call \notin ToSet(held)
      /\ todo' \in Seq(Calls) /\ IsInjective(todo')
      /\ ToSet(todo') = ToSet(todo) \ {call}
      /\ ToSet(todo) \subseteq Calls /\ ToSet(held) \subseteq Calls
  BY FirstCall
<1>4. /\ results' \in [Calls -> Nat] /\ results'[call] = 1
      /\ \A c \in Calls : c # call => results'[c] = results[c]
  BY <1>3 DEF Append_tool_result, IInv, TypeOK
<1>5. TypeOK'
  BY <1>3, <1>4 DEF IInv, TypeOK
<1>6. LocalHolds'
  BY DEF IInv, LocalHolds
<1>16. proposed \subseteq Calls /\ proposed' = proposed
  BY DEF IInv, TypeOK
<1>7. Open' = Open \ {call}
  BY <1>4, <1>16, 1 # 0 DEF Open
<1>8. OwedHolds'
  BY <1>3, <1>7 DEF IInv, OwedHolds
<1>9. FreshHolds'
  BY <1>3, <1>4 DEF IInv, FreshHolds
<1>10. RunsAsPermitted'
  BY DEF IInv, RunsAsPermitted
<1>11. NoTextBeforeTool'
  BY <1>3, <1>4 DEF IInv, NoTextBeforeTool
<1>12. Counted' \subseteq Counted \cup {call}
  BY <1>3, <1>4 DEF Counted
<1>13. used \in Nat /\ used' \in Nat
  BY DEF IInv, TypeOK
<1>14. IsFiniteSet(Counted') /\ Cardinality(Counted') <= used'
  <2>1. IsFiniteSet(Counted) /\ Cardinality(Counted) <= used
    BY DEF IInv, BudgetHolds
  <2>2. CASE used' = used + 1
    BY <1>12, <1>13, <2>1, <2>2, OneMoreCounted
  <2>3. CASE used' = used /\ call \in Counted
    <3>1. Counted' \subseteq Counted
      BY <1>12, <2>3
    <3> QED
      BY <1>13, <2>1, <3>1, FewerCounted
  <2> QED
    BY <2>2, <2>3
<1>15. BudgetHolds'
  BY <1>14 DEF IInv, BudgetHolds
<1> QED
  BY <1>5, <1>6, <1>8, <1>9, <1>10, <1>11, <1>15 DEF IInv

LEMMA CallDeniedKeeps == ASSUME IInv, CallDenied PROVE IInv'
<1>1. /\ phase = "batch" /\ current = NoCall /\ todo # <<>>
      /\ used \in Nat /\ used' = used + 1 /\ used' \in 0..MaxToolCalls
      /\ last' \in {Fingerprint[c] : c \in Calls}
      /\ UNCHANGED <<proposed, answer, step, phase, repaired, status, decision>>
  BY PassesFacts DEF CallDenied
<1>2. /\ Append_tool_result(call) /\ todo' = Tail(todo)
      /\ UNCHANGED <<held, current, attempt, ran>>
  BY DEF CallDenied
<1>3. used <= used'
  BY <1>1
<1> QED
  BY <1>1, <1>2, <1>3, SettledKeeps

LEMMA ResumeRejectsKeeps == ASSUME IInv, ResumeRejects PROVE IInv'
<1>1. /\ phase = "resume" /\ current = NoCall /\ todo # <<>>
      /\ Append_tool_result(call) /\ todo' = Tail(todo)
      /\ UNCHANGED <<proposed, answer, step, used, held, phase, current, attempt,
                     last, repaired, status, decision, ran>>
  BY DEF ResumeRejects, Resuming
<1>2. /\ used' \in 0..MaxToolCalls /\ used <= used'
      /\ last' \in {Fingerprint[c] : c \in Calls} \cup {NoFingerprint}
  BY <1>1 DEF IInv, TypeOK
<1>3. call \in Counted
  BY <1>1, FirstCall DEF Counted
<1> QED
  BY <1>1, <1>2, <1>3, SettledKeeps

LEMMA ToolReturnsKeeps == ASSUME IInv, ToolReturns PROVE IInv'
<1>1. /\ current # NoCall /\ Append_tool_result(current) /\ todo' = Tail(todo)
      /\ current' = NoCall
      /\ UNCHANGED <<proposed, answer, step, used, held, phase, attempt, last,
                     repaired, status, decision, ran>>
  BY DEF ToolReturns
<1>2. /\ phase \in {"batch", "resume"} /\ todo # <<>> /\ current = call
      /\ ran[current] = attempt /\ attempt > 0
  BY <1>1 DEF IInv, TypeOK, LocalHolds, call
<1>3. /\ used' \in 0..MaxToolCalls /\ used <= used'
      /\ last' \in {Fingerprint[c] : c \in Calls} \cup {NoFingerprint}
  BY <1>1 DEF IInv, TypeOK
<1>4. call \in Calls /\ ran[call] > 0
  BY <1>2, FirstCall
<1>5. call \in Counted
  BY <1>4 DEF Counted
<1> QED
  BY <1>1, <1>2, <1>3, <1>5, SettledKeeps

-----------------------------------------------------------------------------
(* Tools that start, and start again.                                      *)

\* A call begins its first execution, counted now or before its approval.
LEMMA ExecuteKeeps ==
    ASSUME IInv, phase \in {"batch", "resume"}, current = NoCall, todo # <<>>,
           Execute, call \notin DenyCalls \cup UnknownCalls,
           call \in AskCalls => decision[call] = "approved",
           used' \in 0..MaxToolCalls, used <= used',
           \/ used' = used + 1
           \/ used' = used /\ call \in Counted,
           last' \in {Fingerprint[c] : c \in Calls} \cup {NoFingerprint},
           UNCHANGED <<proposed, results, answer, step, held, phase, todo,
                       repaired, status, decision>>
    PROVE  IInv'
<1>3. /\ call \in Calls /\ call \in ToSet(todo) /\ call \in proposed
      /\ call \notin ToSet(held) /\ ran[call] = 0
      /\ ToSet(todo) \subseteq Calls /\ ToSet(held) \subseteq Calls
  BY FirstCall
<1>4. /\ current' = call /\ attempt' = 1 /\ ran' \in [Calls -> Nat] /\ ran'[call] = 1
      /\ \A c \in Calls : c # call => ran'[c] = ran[c]
  BY <1>3 DEF Execute, IInv, TypeOK
<1>16. 1 \in 0..Retries + 1 /\ 1 <= Retries + 1
  OBVIOUS
<1>5. TypeOK'
  BY <1>3, <1>4, <1>16 DEF IInv, TypeOK
<1>6. LocalHolds'
  BY <1>4 DEF IInv, LocalHolds, call
<1>8. OwedHolds'
  BY DEF IInv, OwedHolds, Open
<1>9. FreshHolds'
  BY <1>3, <1>4 DEF IInv, FreshHolds
<1>10. RunsAsPermitted'
  BY <1>3, <1>4, <1>16 DEF IInv, RunsAsPermitted
<1>11. NoTextBeforeTool'
  BY DEF IInv, NoTextBeforeTool
<1>12. Counted' \subseteq Counted \cup {call}
  BY <1>3, <1>4 DEF Counted
<1>13. used \in Nat /\ used' \in Nat
  BY DEF IInv, TypeOK
<1>14. IsFiniteSet(Counted') /\ Cardinality(Counted') <= used'
  <2>1. IsFiniteSet(Counted) /\ Cardinality(Counted) <= used
    BY DEF IInv, BudgetHolds
  <2>2. CASE used' = used + 1
    BY <1>12, <1>13, <2>1, <2>2, OneMoreCounted
  <2>3. CASE used' = used /\ call \in Counted
    <3>1. Counted' \subseteq Counted
      BY <1>12, <2>3
    <3> QED
      BY <1>13, <2>1, <3>1, FewerCounted
  <2> QED
    BY <2>2, <2>3
<1>15. BudgetHolds'
  BY <1>14 DEF IInv, BudgetHolds
<1> QED
  BY <1>5, <1>6, <1>8, <1>9, <1>10, <1>11, <1>15 DEF IInv

LEMMA CallAllowedKeeps == ASSUME IInv, CallAllowed PROVE IInv'
<1>1. /\ phase = "batch" /\ current = NoCall /\ todo # <<>>
      /\ call \notin UnknownCalls
      /\ used \in Nat /\ used' = used + 1 /\ used' \in 0..MaxToolCalls
      /\ last' \in {Fingerprint[c] : c \in Calls}
      /\ UNCHANGED <<proposed, answer, step, phase, repaired, status, decision>>
  BY PassesFacts DEF CallAllowed
<1>2. /\ call \notin AskCalls \cup DenyCalls /\ Execute
      /\ UNCHANGED <<results, held, todo>>
  BY DEF CallAllowed
<1>3. used <= used'
  BY <1>1
<1> QED
  BY <1>1, <1>2, <1>3, ExecuteKeeps

LEMMA ResumeApprovesKeeps == ASSUME IInv, ResumeApproves PROVE IInv'
<1>1. /\ phase = "resume" /\ current = NoCall /\ todo # <<>>
      /\ decision[call] = "approved" /\ Execute
      /\ UNCHANGED <<saved, phase, todo, last, repaired, status, decision>>
  BY DEF ResumeApproves, Resuming
<1>2. UNCHANGED <<proposed, results, answer, step, used, held>>
  BY <1>1 DEF saved
<1>3. /\ used' \in 0..MaxToolCalls /\ used <= used'
      /\ last' \in {Fingerprint[c] : c \in Calls} \cup {NoFingerprint}
  BY <1>1, <1>2 DEF IInv, TypeOK
<1>4. call \in Calls /\ call \in ToSet(todo)
  BY <1>1, FirstCall
<1>5. call \in AskCalls \ UnknownCalls /\ AskCalls \cap DenyCalls = {}
  BY <1>1, <1>4 DEF IInv, FreshHolds
<1>6. call \in Counted
  BY <1>1, <1>4 DEF Counted
<1> QED
  BY <1>1, <1>2, <1>3, <1>5, <1>6, ExecuteKeeps

\* The tool failed and is tried again, or the run ends.
LEMMA ToolRaisesKeeps == ASSUME IInv, ToolRaises PROVE IInv'
<1>1. /\ current # NoCall /\ phase \in {"batch", "resume"} /\ todo # <<>>
      /\ current = call /\ ran[current] = attempt /\ attempt > 0
      /\ attempt \in 0..Retries + 1
  BY DEF ToolRaises, IInv, TypeOK, LocalHolds, call
<1>2. CASE MayRetry
  <2>1. /\ attempt' = attempt + 1
        /\ ran' = [ran EXCEPT ![current] = @ + 1]
        /\ UNCHANGED <<proposed, results, answer, step, used, held, phase, todo,
                       current, last, repaired, status, decision>>
    BY <1>2 DEF ToolRaises, saved
  <2>2. call \in Calls /\ call \in ToSet(todo) /\ call \in proposed
        /\ call \notin ToSet(held) /\ ToSet(held) \subseteq Calls
        /\ ToSet(todo) \subseteq Calls
    BY <1>1, FirstCall
  <2>0. ran \in [Calls -> Nat]
    BY DEF IInv, TypeOK
  <2>15. attempt + 1 \in Nat
    BY <1>1
  <2>3. /\ ran' \in [Calls -> Nat] /\ ran'[current] = attempt + 1
        /\ \A c \in Calls : c # current => ran'[c] = ran[c]
    BY <1>1, <2>0, <2>1, <2>2, <2>15
  <2>4. attempt + 1 \in 0..Retries + 1 /\ attempt + 1 > 0 /\ attempt + 1 <= Retries + 1
    BY <1>1, <1>2 DEF MayRetry
  <2>5. TypeOK'
    BY <2>1, <2>3, <2>4 DEF IInv, TypeOK
  <2>6. LocalHolds'
    BY <1>1, <2>1, <2>3, <2>4 DEF IInv, LocalHolds
  <2>7. OwedHolds' /\ NoTextBeforeTool'
    BY <2>1 DEF IInv, OwedHolds, Open, NoTextBeforeTool
  <2>8. FreshHolds'
    BY <1>1, <2>1, <2>2, <2>3 DEF IInv, FreshHolds
  <2>9. ran[current] > 0
    BY <1>1
  <2>10. RunsAsPermitted'
    BY <1>1, <2>1, <2>2, <2>3, <2>4, <2>9 DEF IInv, RunsAsPermitted
  <2>11. Counted' \subseteq Counted
    BY <1>1, <2>1, <2>2, <2>3, <2>9 DEF Counted
  <2>12. used \in Nat /\ used <= used
    BY DEF IInv, TypeOK
  <2>13. IsFiniteSet(Counted') /\ Cardinality(Counted') <= used
    BY <2>11, <2>12, FewerCounted DEF IInv, BudgetHolds
  <2>14. BudgetHolds'
    BY <2>1, <2>13 DEF IInv, BudgetHolds
  <2> QED
    BY <2>5, <2>6, <2>7, <2>8, <2>10, <2>14 DEF IInv
<1>3. CASE ~MayRetry
  <2>1. Finish("partial") /\ UNCHANGED <<answer, used>>
    BY <1>3 DEF ToolRaises
  <2>2. used' \in 0..MaxToolCalls
    BY <2>1 DEF IInv, TypeOK
  <2> QED
    BY <2>1, <2>2, FinishKeeps
<1> QED
  BY <1>2, <1>3

-----------------------------------------------------------------------------
(* Pauses and resumes.                                                     *)

LEMMA CallsDoneKeeps == ASSUME IInv, CallsDone PROVE IInv'
<1>1. /\ phase \in {"batch", "resume"} /\ current = NoCall /\ todo = <<>>
      /\ UNCHANGED <<saved, todo, current, attempt, last, repaired, decision, ran>>
  BY DEF CallsDone
<1>11. \/ held # <<>> /\ phase' = "paused" /\ status' = "waiting"
       \/ held = <<>> /\ phase' = "loop" /\ UNCHANGED status
  BY DEF CallsDone
<1>2. UNCHANGED <<proposed, results, answer, step, used, held>>
  BY <1>1 DEF saved
<1>3. TypeOK'
  BY <1>1, <1>2, <1>11 DEF IInv, TypeOK
<1>4. LocalHolds'
  BY <1>1, <1>2, <1>11 DEF LocalHolds
<1>5. OwedHolds'
  BY <1>1, <1>2, <1>11 DEF IInv, OwedHolds, Open
<1>6. ToSet(todo) = {}
  BY <1>1, EmptyList
<1>7. FreshHolds'
  BY <1>1, <1>2, <1>6, <1>11 DEF IInv, FreshHolds
<1>8. RunsAsPermitted' /\ NoTextBeforeTool'
  BY <1>1, <1>2 DEF IInv, RunsAsPermitted, NoTextBeforeTool
<1>9. Counted' = Counted
  BY <1>1, <1>2, <1>6, <1>11 DEF Counted
<1>10. BudgetHolds'
  BY <1>2, <1>9 DEF IInv, BudgetHolds
<1> QED
  BY <1>3, <1>4, <1>5, <1>7, <1>8, <1>10 DEF IInv

LEMMA ResumeKeeps == ASSUME IInv, Resume PROVE IInv'
<1>1. PICK D \in (SUBSET ToSet(held)) \ {{}} : \E d \in [D -> {"approved", "rejected"}] :
          decision' = [c \in Calls |-> IF c \in D THEN d[c] ELSE decision[c]]
  BY DEF Resume
<1>2. PICK d \in [D -> {"approved", "rejected"}] :
          decision' = [c \in Calls |-> IF c \in D THEN d[c] ELSE decision[c]]
  BY <1>1
<1>3. /\ phase = "paused" /\ todo' = held /\ held' = <<>> /\ phase' = "resume"
      /\ status' = "running" /\ last' = NoFingerprint /\ repaired' = FALSE
      /\ UNCHANGED <<proposed, results, answer, step, used, current, attempt, ran>>
  BY DEF Resume
<1>4. /\ current = NoCall /\ todo = <<>> /\ ToSet(todo) = {} /\ ToSet(held') = {}
      /\ IsInjective(held') /\ ToSet(held) \subseteq Calls
  BY <1>3, EmptyList, ListElements DEF IInv, TypeOK, LocalHolds
<1>5. /\ decision' \in [Calls -> {"none", "approved", "rejected"}]
      /\ \A c \in Calls : c \notin ToSet(held) => decision'[c] = decision[c]
  BY <1>1, <1>2, <1>4 DEF IInv, TypeOK
<1>17. <<>> \in Seq(Calls)
  OBVIOUS
<1>6. TypeOK'
  BY <1>3, <1>5, <1>17 DEF IInv, TypeOK
<1>7. LocalHolds'
  BY <1>3, <1>4 DEF LocalHolds
<1>8. OwedHolds'
  BY <1>3, <1>4 DEF IInv, OwedHolds, Open
<1>9. /\ ToSet(held) \subseteq proposed
      /\ \A c \in ToSet(held) : c \in AskCalls \ UnknownCalls /\ ran[c] = 0
  BY <1>3 DEF IInv, OwedHolds, FreshHolds, Open
<1>10. FreshHolds'
  BY <1>3, <1>4, <1>5, <1>9 DEF IInv, FreshHolds
<1>11. RunsAsPermitted'
  BY <1>3, <1>5, <1>9 DEF IInv, RunsAsPermitted
<1>12. NoTextBeforeTool'
  BY <1>3 DEF IInv, NoTextBeforeTool
<1>13. Counted' \subseteq Counted
  BY <1>3, <1>4 DEF Counted
<1>14. used \in Nat /\ used <= used
  BY DEF IInv, TypeOK
<1>15. IsFiniteSet(Counted') /\ Cardinality(Counted') <= used
  BY <1>13, <1>14, FewerCounted DEF IInv, BudgetHolds
<1>16. BudgetHolds'
  BY <1>3, <1>15 DEF IInv, BudgetHolds
<1> QED
  BY <1>6, <1>7, <1>8, <1>10, <1>11, <1>12, <1>16 DEF IInv

LEMMA ResumeHoldsKeeps == ASSUME IInv, ResumeHolds PROVE IInv'
<1>1. /\ phase = "resume" /\ current = NoCall /\ todo # <<>>
      /\ decision[call] = "none"
      /\ held' = Append(held, call) /\ todo' = Tail(todo)
      /\ UNCHANGED <<proposed, results, answer, step, used, phase, current, attempt,
                     last, repaired, status, decision, ran>>
  BY DEF ResumeHolds, Resuming
<1>3. /\ call \in Calls /\ call \in ToSet(todo) /\ call \in proposed
      /\ results[call] = 0 /\ call \notin ToSet(held)
      /\ todo' \in Seq(Calls) /\ IsInjective(todo')
      /\ ToSet(todo') = ToSet(todo) \ {call}
      /\ ToSet(held) \subseteq Calls /\ ran[call] = 0
  BY <1>1, FirstCall
<1>4. held' \in Seq(Calls) /\ IsInjective(held') /\ ToSet(held') = ToSet(held) \cup {call}
  BY <1>1, <1>3, AppendToList DEF IInv, TypeOK, OwedHolds
<1>5. TypeOK'
  BY <1>1, <1>3, <1>4 DEF IInv, TypeOK
<1>6. LocalHolds'
  BY <1>1 DEF IInv, LocalHolds
<1>7. OwedHolds'
  BY <1>1, <1>3, <1>4 DEF IInv, OwedHolds, Open
<1>8. call \in AskCalls \ UnknownCalls
  BY <1>1, <1>3 DEF IInv, FreshHolds
<1>9. FreshHolds'
  BY <1>1, <1>3, <1>4, <1>8 DEF IInv, FreshHolds
<1>10. RunsAsPermitted' /\ NoTextBeforeTool'
  BY <1>1 DEF IInv, RunsAsPermitted, NoTextBeforeTool
<1>11. Counted' \subseteq Counted
  BY <1>1, <1>3, <1>4 DEF Counted
<1>12. used \in Nat /\ used <= used
  BY DEF IInv, TypeOK
<1>13. IsFiniteSet(Counted') /\ Cardinality(Counted') <= used
  BY <1>11, <1>12, FewerCounted DEF IInv, BudgetHolds
<1>14. BudgetHolds'
  BY <1>1, <1>13 DEF IInv, BudgetHolds
<1> QED
  BY <1>5, <1>6, <1>7, <1>9, <1>10, <1>14 DEF IInv

-----------------------------------------------------------------------------
(* The invariant of a run, and what follows from it.                       *)

LEMMA StutterKeeps == ASSUME IInv, UNCHANGED vars PROVE IInv'
<1>1. UNCHANGED <<proposed, results, answer, step, used, held, phase, todo, current,
                  attempt, last, repaired, status, decision, ran>>
  BY DEF vars, saved, local
<1>2. TypeOK' /\ LocalHolds'
  BY <1>1 DEF IInv, TypeOK, LocalHolds
<1>3. OwedHolds' /\ FreshHolds'
  BY <1>1 DEF IInv, OwedHolds, Open, FreshHolds
<1>4. RunsAsPermitted' /\ NoTextBeforeTool'
  BY <1>1 DEF IInv, RunsAsPermitted, NoTextBeforeTool
<1>5. BudgetHolds'
  BY <1>1 DEF IInv, BudgetHolds, Counted
<1> QED
  BY <1>2, <1>3, <1>4, <1>5 DEF IInv

LEMMA NextKeeps == IInv /\ [Next]_vars => IInv'
<1> SUFFICES ASSUME IInv, [Next]_vars PROVE IInv'
  OBVIOUS
<1>1. CASE Loop
  BY <1>1, EndingsKeep, RepairKeeps, ProposesCallsKeeps, CallAsksKeeps,
     CallDeniedKeeps, CallAllowedKeeps, ToolReturnsKeeps, ToolRaisesKeeps,
     CallsDoneKeeps, ResumeHoldsKeeps, ResumeRejectsKeeps, ResumeApprovesKeeps DEF Loop
<1>2. CASE Resume
  BY <1>2, ResumeKeeps
<1>3. CASE UNCHANGED vars
  BY <1>3, StutterKeeps
<1> QED
  BY <1>1, <1>2, <1>3 DEF Next

\* The invariant holds in every state of a run, however it is decided upon.
LEMMA InvariantHolds == Spec => []IInv
BY InitInv, NextKeeps, PTL DEF Spec

\* Every variable keeps its type; step and used stop at the limits of
\* RunLimits.
THEOREM RuntimeTypeCorrect == Spec => []TypeOK
<1>1. IInv => TypeOK
  BY DEF IInv
<1> QED
  BY <1>1, InvariantHolds, PTL

\* However the host splits its decisions over however many resumes, the run
\* waits for exactly the undecided calls, and runs nothing that was not
\* allowed or approved.
THEOREM ApprovalsAreRespected == Spec => []ApprovalsRespected
<1>1. IInv => RunsAsPermitted
  BY DEF IInv
<1>2. ASSUME IInv, phase = "paused"
      PROVE  ToSet(held) = Open /\ IsInjective(held)
             /\ \A c \in Open : c \in AskCalls /\ decision[c] = "none"
  <2>1. ToSet(todo) = {}
    BY <1>2, EmptyList DEF IInv, LocalHolds
  <2> QED
    BY <1>2, <2>1 DEF IInv, OwedHolds, FreshHolds
<1>3. IInv => ApprovalsRespected
  BY <1>1, <1>2 DEF ApprovalsRespected, PausedHoldsUndecided
<1> QED
  BY <1>3, InvariantHolds, PTL

\* The limits of RunLimits bind the run as a whole, over all its resumes.
THEOREM BudgetsHold == Spec => []WithinBudgets
<1>1. ASSUME IInv PROVE WithinBudgets
  <2> DEFINE Acted == {c \in Calls : ran[c] + results[c] > 0 \/ c \in ToSet(held)}
  <2>1. \A c \in Calls : ran[c] \in Nat /\ results[c] \in Nat
    BY <1>1 DEF IInv, TypeOK
  <2>2. Acted \subseteq Counted
    BY <2>1 DEF Counted
  <2>3. used \in Nat /\ used <= used
    BY <1>1 DEF IInv, TypeOK
  <2>4. IsFiniteSet(Counted) /\ Cardinality(Counted) <= used
    BY <1>1 DEF IInv, BudgetHolds
  <2> HIDE DEF Acted
  <2>5. Cardinality(Acted) <= used
    BY <2>2, <2>3, <2>4, FewerCounted
  <2> QED
    BY <1>1, <2>5 DEF WithinBudgets, IInv, BudgetHolds, Acted
<1>2. IInv => WithinBudgets
  BY <1>1
<1> QED
  BY <1>2, InvariantHolds, PTL

\* When a tool call is demanded no text is published before a tool has
\* answered.
THEOREM NoTextEarly == Spec => []NoTextBeforeTool
<1>1. IInv => NoTextBeforeTool
  BY DEF IInv
<1> QED
  BY <1>1, InvariantHolds, PTL

-----------------------------------------------------------------------------
(* The run is a conversation of ToolTranscript.                            *)

\* The mode of the conversation in each phase.
Mode == CASE phase = "loop" -> "asking"
          [] phase \in {"batch", "resume"} -> "tools"
          [] phase = "paused" -> "paused"
          [] phase = "done" -> "stopped"

LEMMA ModeOfPhase ==
    /\ phase = "loop" => Mode = "asking"
    /\ phase \in {"batch", "resume"} => Mode = "tools"
    /\ phase = "paused" => Mode = "paused"
    /\ phase = "done" => Mode = "stopped"
BY DEF Mode

LEMMA ModeOfNextPhase ==
    /\ phase' = "loop" => Mode' = "asking"
    /\ phase' \in {"batch", "resume"} => Mode' = "tools"
    /\ phase' = "paused" => Mode' = "paused"
    /\ phase' = "done" => Mode' = "stopped"
BY DEF Mode

\* A step of the conversation, or one that it does not see.
Follows == Transcript!Next \/ UNCHANGED <<Mode, proposed, results>>

LEMMA StepsOfTranscript ==
    /\ Transcript!Propose <=>
         /\ Mode = "asking" /\ Mode' = "tools"
         /\ \E batch \in (SUBSET (Calls \ proposed)) \ {{}} : proposed' = proposed \cup batch
         /\ results' = results
    /\ Transcript!Settle <=>
         /\ Mode = "tools"
         /\ \E c \in Open : results' = [results EXCEPT ![c] = 1]
         /\ Mode' = Mode /\ proposed' = proposed
    /\ Transcript!Pause <=>
         /\ Open # {} /\ Mode = "tools" /\ Mode' = "paused"
         /\ proposed' = proposed /\ results' = results
    /\ Transcript!Resume <=>
         /\ Mode = "paused" /\ Mode' = "tools"
         /\ proposed' = proposed /\ results' = results
    /\ Transcript!Reply <=>
         /\ Open = {} /\ Mode = "tools" /\ Mode' = "asking"
         /\ proposed' = proposed /\ results' = results
    /\ Transcript!Stop <=>
         /\ Mode \in {"asking", "tools"} /\ Mode' = "stopped"
         /\ proposed' = proposed /\ results' = results
BY DEF Transcript!Propose, Transcript!Settle, Transcript!Pause, Transcript!Resume,
       Transcript!Reply, Transcript!Stop, Transcript!Turns, Transcript!Open, Open, Mode

\* Steps that neither change the phase nor what the conversation says.
LEMMA UnseenFollow ==
    ASSUME UNCHANGED <<phase, proposed, results>>
    PROVE  Follows
BY DEF Follows, Mode

LEMMA FinishFollows ==
    ASSUME NEW result, Finish(result), phase \in {"loop", "batch", "resume"}
    PROVE  Follows
<1>1. phase' = "done" /\ UNCHANGED <<proposed, results>>
  BY DEF Finish
<1>2. Mode \in {"asking", "tools"} /\ Mode' = "stopped"
  BY <1>1, ModeOfPhase, ModeOfNextPhase
<1> QED
  BY <1>1, <1>2, StepsOfTranscript DEF Follows, Transcript!Next

LEMMA EndingsFollow ==
    ASSUME IInv,
           \/ StepLimit \/ Answers \/ RequiredCallMissing \/ CallLimit
           \/ CallRefused \/ ToolReportsFailure \/ Interrupted
    PROVE  Follows
<1>1. phase \in {"loop", "batch", "resume"}
  BY DEF IInv, TypeOK, LocalHolds, StepLimit, Answers, RequiredCallMissing,
         CallLimit, CallRefused, ToolReportsFailure, Interrupted
<1>2. \E result : Finish(result)
  BY DEF StepLimit, Answers, RequiredCallMissing, CallLimit, CallRefused,
         ToolReportsFailure, Interrupted
<1> QED
  BY <1>1, <1>2, FinishFollows

\* A tool message for a call that has none.
LEMMA SettledFollows ==
    ASSUME phase \in {"batch", "resume"}, NEW c \in Open, Append_tool_result(c),
           UNCHANGED <<phase, proposed>>
    PROVE  Follows
<1>0. results[c] = 0 /\ results' = [results EXCEPT ![c] = results[c] + 1]
  BY DEF Open, Append_tool_result
<1>3. results[c] + 1 = 1
  BY <1>0
<1>1. results' = [results EXCEPT ![c] = 1]
  BY <1>0, <1>3
<1>2. Mode = "tools" /\ Mode' = Mode
  BY ModeOfPhase, ModeOfNextPhase
<1> QED
  BY <1>1, <1>2, StepsOfTranscript DEF Follows, Transcript!Next

LEMMA ResultsFollow ==
    ASSUME IInv, CallDenied \/ ResumeRejects \/ ToolReturns
    PROVE  Follows
<1>1. CASE CallDenied
  <2>1. phase = "batch" /\ todo # <<>> /\ UNCHANGED <<phase, proposed>>
    BY <1>1 DEF CallDenied, Passes
  <2>2. call \in Open
    BY <2>1, FirstCall DEF Open
  <2> QED
    BY <1>1, <2>1, <2>2, SettledFollows DEF CallDenied
<1>2. CASE ResumeRejects
  <2>1. phase = "resume" /\ todo # <<>> /\ UNCHANGED <<phase, proposed>>
    BY <1>2 DEF ResumeRejects, Resuming
  <2>2. call \in Open
    BY <2>1, FirstCall DEF Open
  <2> QED
    BY <1>2, <2>1, <2>2, SettledFollows DEF ResumeRejects
<1>3. CASE ToolReturns
  <2>1. /\ phase \in {"batch", "resume"} /\ todo # <<>> /\ current = call
        /\ UNCHANGED <<phase, proposed>>
    BY <1>3 DEF ToolReturns, IInv, TypeOK, LocalHolds, call
  <2>2. call \in Open
    BY <2>1, FirstCall DEF Open
  <2> QED
    BY <1>3, <2>1, <2>2, SettledFollows DEF ToolReturns
<1> QED
  BY <1>1, <1>2, <1>3

LEMMA ProposesFollow == ASSUME ProposesCalls PROVE Follows
<1>1. PICK b \in Batches : proposed' = proposed \cup ToSet(b)
  BY DEF ProposesCalls
<1>2. ToSet(b) \in (SUBSET (Calls \ proposed)) \ {{}}
  BY BatchFacts
<1>3. phase = "loop" /\ phase' = "batch" /\ results' = results
  BY DEF ProposesCalls
<1>4. Mode = "asking" /\ Mode' = "tools"
  BY <1>3, ModeOfPhase, ModeOfNextPhase
<1> QED
  BY <1>1, <1>2, <1>3, <1>4, StepsOfTranscript DEF Follows, Transcript!Next

LEMMA CallsDoneFollows == ASSUME IInv, CallsDone PROVE Follows
<1>1. /\ phase \in {"batch", "resume"} /\ todo = <<>>
      /\ UNCHANGED <<proposed, results>>
  BY DEF CallsDone, saved
<1>2. Open = ToSet(held) /\ held \in Seq(Calls)
  BY <1>1, EmptyList DEF IInv, TypeOK, OwedHolds
<1>3. Mode = "tools"
  BY <1>1, ModeOfPhase
<1>4. CASE held # <<>>
  <2>1. Mode' = "paused"
    BY <1>4, ModeOfNextPhase DEF CallsDone
  <2>2. Open # {}
    BY <1>2, <1>4, NoElements
  <2> QED
    BY <1>1, <1>3, <2>1, <2>2, StepsOfTranscript DEF Follows, Transcript!Next
<1>5. CASE held = <<>>
  <2>1. Mode' = "asking"
    BY <1>5, ModeOfNextPhase DEF CallsDone
  <2>2. Open = {}
    BY <1>2, <1>5, EmptyList
  <2> QED
    BY <1>1, <1>3, <2>1, <2>2, StepsOfTranscript DEF Follows, Transcript!Next
<1> QED
  BY <1>4, <1>5

LEMMA ResumeFollows == ASSUME Resume PROVE Follows
<1>1. phase = "paused" /\ phase' = "resume" /\ UNCHANGED <<proposed, results>>
  BY DEF Resume
<1>2. Mode = "paused" /\ Mode' = "tools"
  BY <1>1, ModeOfPhase, ModeOfNextPhase
<1> QED
  BY <1>1, <1>2, StepsOfTranscript DEF Follows, Transcript!Next

LEMMA ToolRaisesFollows == ASSUME IInv, ToolRaises PROVE Follows
<1>1. CASE MayRetry
  BY <1>1, UnseenFollow DEF ToolRaises, saved
<1>2. CASE ~MayRetry
  <2>1. phase \in {"loop", "batch", "resume"}
    BY DEF ToolRaises, IInv, TypeOK, LocalHolds
  <2> QED
    BY <1>2, <2>1, FinishFollows DEF ToolRaises
<1> QED
  BY <1>1, <1>2

LEMMA QuietFollow ==
    ASSUME Repair \/ CallAsks \/ CallAllowed \/ ResumeHolds \/ ResumeApproves
    PROVE  Follows
<1>1. UNCHANGED <<phase, proposed, results>>
  BY DEF Repair, CallAsks, CallAllowed, Passes, ResumeHolds, ResumeApproves, saved
<1> QED
  BY <1>1, UnseenFollow

LEMMA TranscriptStep == IInv /\ [Next]_vars => [Transcript!Next]_<<Mode, proposed, results>>
<1> SUFFICES ASSUME IInv, [Next]_vars PROVE Follows
  BY DEF Follows
<1>1. CASE Loop
  BY <1>1, EndingsFollow, ResultsFollow, ProposesFollow, CallsDoneFollows,
     ToolRaisesFollows, QuietFollow DEF Loop
<1>2. CASE Resume
  BY <1>2, ResumeFollows
<1>3. CASE UNCHANGED vars
  BY <1>3, UnseenFollow DEF vars, saved, local
<1> QED
  BY <1>1, <1>2, <1>3 DEF Next

\* A run of the runtime is a conversation a provider accepts and a host can
\* rely on: run(), _run_loop and resume together implement ToolTranscript.
THEOREM TranscriptKept == Spec => KeepsTranscript
<1>1. Init => Transcript!Init
  BY DEF Init, Transcript!Init
<1>2. IInv /\ [Next]_vars => [Transcript!Next]_<<Mode, proposed, results>>
  BY TranscriptStep
<1> QED
  BY <1>1, <1>2, InvariantHolds, PTL DEF Spec, KeepsTranscript, Transcript!Spec, Mode

-----------------------------------------------------------------------------
(* The models behind a turn: AiFailover.                                   *)

\* What a request keeps to while it is in a call: what it has not called is
\* still to come, and what it has said it said in the call it is in.
RequestHolds(r) ==
    /\ pc[r] \in InCall =>
          /\ Head(rest[r]) \in tried[r]
          /\ live[r] # {} /\ live[r] \subseteq tried[r] \cup Range(rest[r])
    /\ voice[r] \subseteq {v \in {<<Head(rest[r]), callNo[r]>>} : pc[r] = "speaking"}
    /\ pc[r] = "exhausted" => live[r] # {} /\ live[r] \subseteq tried[r]

FailoverInv == FailoverTypeOK /\ \A r \in Requests : RequestHolds(r)

\* A set of numbers has a least member.
LEMMA LeastNumber ==
    ASSUME NEW T, T \subseteq Nat, T # {}
    PROVE  \E x \in T : \A y \in T : x <= y
  <1>1. IsWellFoundedOn(OpToRel(<, Nat), Nat)
    BY NatLessThanWellFounded
  <1>2. \E x \in T : \A y \in T : <<y, x>> \notin OpToRel(<, Nat)
    BY <1>1, WFMin
  <1>3. \A x, y \in Nat : <<y, x>> \notin OpToRel(<, Nat) => x <= y
    BY DEF OpToRel
  <1> QED
    BY <1>2, <1>3

\* The recursion over the chain is one: some function satisfies it.
LEMMA WarmExists ==
    ASSUME NEW n \in Nat
    PROVE  \E F : F = [i \in 0..n |->
                         IF i = 0 THEN <<>>
                         ELSE IF cooling[Chain[i]] = 0 THEN Append(F[i - 1], Chain[i])
                         ELSE F[i - 1]]
  <1> DEFINE entry(F, i) == IF i = 0 THEN <<>>
                           ELSE IF cooling[Chain[i]] = 0 THEN Append(F[i - 1], Chain[i])
                           ELSE F[i - 1]
             good(F, k) == F = [i \in 0..k |-> entry(F, i)]
             bad == {k \in 0..n : ~ \E F : good(F, k)}
  <1>1. good([i \in 0..0 |-> <<>>], 0)
    OBVIOUS
  <1>2. ASSUME NEW k \in 1..n, NEW F, good(F, k - 1)
        PROVE  \E G : good(G, k)
    <2> DEFINE G == [i \in 0..k |-> entry(F, i)]
    <2> HIDE DEF entry
    <2>1. \A i \in 0..(k - 1) : i \in 0..k /\ F[i] = entry(F, i)
      BY <1>2
    <2>2. \A i \in 0..(k - 1) : G[i] = F[i]
      BY <2>1
    <2>3. \A i \in 0..k : i = 0 \/ i - 1 \in 0..(k - 1)
      OBVIOUS
    <2> HIDE DEF G
    <2>4. \A i \in 0..k : entry(G, i) = entry(F, i)
      BY <2>2, <2>3 DEF entry
    <2>5. G = [i \in 0..k |-> entry(G, i)]
      BY <2>4 DEF G
    <2> QED
      BY <2>5
  <1> HIDE DEF good
  <1>3. ASSUME bad # {}
        PROVE  FALSE
    <2>1. bad \subseteq Nat
      OBVIOUS
    <2>2. \E k \in bad : \A j \in bad : k <= j
      <3> HIDE DEF bad
      <3> QED
        BY <1>3, <2>1, LeastNumber
    <2>3. PICK k \in bad : \A j \in bad : k <= j
      BY <2>2
    <2>4. k # 0
      BY <1>1, <2>3
    <2>5. k \in 1..n /\ k - 1 \in 0..n /\ k - 1 \notin bad
      BY <2>3, <2>4
    <2> QED
      BY <1>2, <2>3, <2>5
  <1>4. \E F : good(F, n)
    BY <1>3
  <1> QED
    BY <1>4 DEF good

\* A request always has a candidate, and all of them are models of the chain.
LEMMA Candidates ==
    _iter_candidates \in Seq(Models) /\ _iter_candidates # <<>>
  <1> DEFINE n == Len(Chain)
             Is(F) == F = [i \in 0..n |->
                        IF i = 0 THEN <<>>
                        ELSE IF cooling[Chain[i]] = 0 THEN Append(F[i - 1], Chain[i])
                        ELSE F[i - 1]]
             warm == CHOOSE F : Is(F)
             short == {i \in 0..n : warm[i] \notin Seq(Models)}
  <1>1. n \in Nat /\ Chain \in Seq(Models) /\ Chain # <<>> /\ \A i \in 1..n : Chain[i] \in Models
    BY FailoverAssumption
  <1>2. Is(warm)
    <2>1. \E F : Is(F)
      BY <1>1, WarmExists
    <2> HIDE DEF Is
    <2> QED
      BY <2>1
  <1>3. /\ warm[0] = <<>>
        /\ \A i \in 1..n : warm[i] \in {warm[i - 1], Append(warm[i - 1], Chain[i])}
    <2>1. \A i \in 1..n : i \in 0..n /\ i # 0
      BY <1>1
    <2>2. 0 \in 0..n
      BY <1>1
    <2> HIDE DEF warm, n
    <2> QED
      BY <1>2, <2>1, <2>2
  <1>4. _iter_candidates = IF warm[n] # <<>> THEN warm[n] ELSE <<Chain[1]>>
    BY DEF _iter_candidates
  <1> HIDE DEF warm, n
  <1>5. ASSUME short # {}
        PROVE  FALSE
    <2>1. short \subseteq Nat
      BY <1>1
    <2>2. \E i \in short : \A j \in short : i <= j
      <3> HIDE DEF short
      <3> QED
        BY <1>5, <2>1, LeastNumber
    <2>3. PICK i \in short : \A j \in short : i <= j
      BY <2>2
    <2>4. i \in 0..n /\ warm[i] \notin Seq(Models)
      BY <2>3
    <2>5. warm[0] = <<>> /\ <<>> \in Seq(Models)
      BY <1>3
    <2>6. i # 0
      BY <2>4, <2>5
    <2>7. i \in 1..n /\ i - 1 \in 0..n
      BY <1>1, <2>4, <2>6
    <2>8. i - 1 \notin short
      BY <2>3, <2>7
    <2>9. warm[i - 1] \in Seq(Models) /\ Chain[i] \in Models
      BY <1>1, <2>7, <2>8
    <2>10. warm[i] = warm[i - 1] \/ warm[i] = Append(warm[i - 1], Chain[i])
      BY <1>3, <2>7
    <2> HIDE DEF Is
    <2>11. Append(warm[i - 1], Chain[i]) \in Seq(Models)
      BY <2>9
    <2> QED
      BY <2>4, <2>9, <2>10, <2>11
  <1>6. warm[n] \in Seq(Models)
    BY <1>1, <1>5
  <1>7. Chain[1] \in Models /\ <<Chain[1]>> \in Seq(Models)
    BY <1>1 DEF n
  <1> QED
    BY <1>4, <1>6, <1>7

LEMMA FailoverBegins == FailoverInit => FailoverInv
  <1> SUFFICES ASSUME FailoverInit
               PROVE  FailoverInv
    OBVIOUS
  <1> USE FailoverAssumption DEF FailoverInit
  <1>1. FailoverTypeOK
    BY DEF FailoverTypeOK, InCall, Ended
  <1>2. \A r \in Requests : RequestHolds(r)
    BY DEF RequestHolds, InCall
  <1> QED
    BY <1>1, <1>2 DEF FailoverInv

LEMMA Ticks ==
    /\ 0 \in 0..Cooldown /\ Cooldown \in 0..Cooldown
    /\ 0 \in 0..Patience /\ 0 \in 0..Deadline
    /\ Cooldown \in Nat /\ Patience \in Nat /\ Deadline \in Nat
BY FailoverAssumption

\* What a request that ends still owes, and how it ends.
LEMMA Ending ==
    ASSUME FailoverInv, NEW r \in Requests, NEW how \in Ended, Ends(r, how),
           UNCHANGED <<health, tried, live>>, cooling' \in [Models -> 0..Cooldown],
           how = "exhausted" => live[r] # {} /\ live[r] \subseteq tried[r]
    PROVE  FailoverInv'
  <1> USE FailoverAssumption
  <1>1. <<>> \in Seq(Models)
    OBVIOUS
  <1>2. FailoverTypeOK'
    <2>1. rest' \in [Requests -> Seq(Models)]
      BY <1>1 DEF FailoverInv, FailoverTypeOK, Ends
    <2>2. pc' \in [Requests -> Ended \cup InCall \cup {"new"}]
      BY DEF FailoverInv, FailoverTypeOK, Ends
    <2>3. \A q \in Requests : pc'[q] \in InCall => rest'[q] # <<>>
      BY DEF FailoverInv, FailoverTypeOK, Ends, Ended, InCall
    <2>4. /\ callNo' \in [Requests -> 1..2] /\ waited' \in [Requests -> 0..Patience]
          /\ spent' \in [Requests -> 0..Deadline]
      BY Ticks DEF FailoverInv, FailoverTypeOK, Ends
    <2>5. voice' \in [Requests -> SUBSET (Models \X (1..2))]
      BY DEF FailoverInv, FailoverTypeOK, Ends
    <2> QED
      BY <2>1, <2>2, <2>3, <2>4, <2>5 DEF FailoverInv, FailoverTypeOK
  <1>3. ASSUME NEW q \in Requests
        PROVE  RequestHolds(q)'
    <2>1. RequestHolds(q)
      BY DEF FailoverInv
    <2>2. CASE q = r
      <3>1. pc'[r] = how /\ voice'[r] = {} /\ how \notin InCall
        BY DEF Ends, FailoverInv, FailoverTypeOK, Ended, InCall
      <3> QED
        BY <2>2, <3>1 DEF RequestHolds
    <2>3. CASE q # r
      <3>1. /\ pc'[q] = pc[q] /\ rest'[q] = rest[q] /\ callNo'[q] = callNo[q]
            /\ voice'[q] = voice[q]
        BY <2>3 DEF Ends, FailoverInv, FailoverTypeOK
      <3> QED
        BY <2>1, <3>1 DEF RequestHolds
    <2> QED
      BY <2>2, <2>3
  <1> QED
    BY <1>2, <1>3 DEF FailoverInv

LEMMA BeginStep ==
    ASSUME FailoverInv, NEW r \in Requests, Begin(r)
    PROVE  FailoverInv'
  <1> USE FailoverAssumption
  <1> DEFINE c == _iter_candidates
  <1>1. c \in Seq(Models) /\ c # <<>>
    BY Candidates
  <1>2. /\ rest' = [rest EXCEPT ![r] = c] /\ pc' = [pc EXCEPT ![r] = "call"]
        /\ live' = [live EXCEPT ![r] = Range(c)]
        /\ tried' = [tried EXCEPT ![r] = {Head(rest'[r])}]
        /\ callNo' = [callNo EXCEPT ![r] = 1] /\ waited' = [waited EXCEPT ![r] = 0]
        /\ spent' = [spent EXCEPT ![r] = 0] /\ voice' = [voice EXCEPT ![r] = {}]
        /\ UNCHANGED <<cooling, health>>
    BY DEF Begin
  <1> HIDE DEF c
  <1>3. /\ Head(c) \in Models /\ Range(c) \in SUBSET Models /\ Range(c) # {}
    <2>1. Head(c) = c[1] /\ 1 \in DOMAIN c /\ \A i \in DOMAIN c : c[i] \in Models
      BY <1>1
    <2> QED
      BY <2>1 DEF Range
  <1>4. rest'[r] = c
    BY <1>2 DEF FailoverInv, FailoverTypeOK
  <1>5. FailoverTypeOK'
    <2> USE DEF FailoverInv, FailoverTypeOK
    <2>1. cooling' \in [Models -> 0..Cooldown] /\ health' \in [Models -> Illnesses \cup {"well"}]
      BY <1>2
    <2>2. pc' \in [Requests -> Ended \cup InCall \cup {"new"}]
      BY <1>2 DEF InCall
    <2>3. rest' \in [Requests -> Seq(Models)]
      BY <1>1, <1>2
    <2>4. /\ callNo' \in [Requests -> 1..2] /\ waited' \in [Requests -> 0..Patience]
          /\ spent' \in [Requests -> 0..Deadline]
      BY <1>2
    <2>5. voice' \in [Requests -> SUBSET (Models \X (1..2))]
      BY <1>2
    <2>6. tried' \in [Requests -> SUBSET Models] /\ live' \in [Requests -> SUBSET Models]
      BY <1>2, <1>3, <1>4
    <2>7. \A q \in Requests : pc'[q] \in InCall => rest'[q] # <<>>
      BY <1>1, <1>2, <1>4
    <2> QED
      BY <2>1, <2>2, <2>3, <2>4, <2>5, <2>6, <2>7
  <1>6. ASSUME NEW q \in Requests
        PROVE  RequestHolds(q)'
    <2>1. RequestHolds(q)
      BY DEF FailoverInv
    <2>2. CASE q = r
      BY <1>2, <1>3, <1>4, <2>2 DEF RequestHolds, FailoverInv, FailoverTypeOK
    <2>3. CASE q # r
      <3>1. /\ pc'[q] = pc[q] /\ rest'[q] = rest[q] /\ callNo'[q] = callNo[q]
            /\ voice'[q] = voice[q] /\ live'[q] = live[q] /\ tried'[q] = tried[q]
        BY <1>2, <2>3 DEF FailoverInv, FailoverTypeOK
      <3> QED
        BY <2>1, <3>1 DEF RequestHolds
    <2> QED
      BY <2>2, <2>3
  <1> QED
    BY <1>5, <1>6 DEF FailoverInv

LEMMA StreamStep ==
    ASSUME FailoverInv, NEW r \in Requests, Streams(r)
    PROVE  FailoverInv'
  <1> USE FailoverAssumption
  <1> DEFINE v == <<Head(rest[r]), callNo[r]>>
  <1>1. /\ pc[r] \in InCall /\ pc' = [pc EXCEPT ![r] = "speaking"]
        /\ voice' = [voice EXCEPT ![r] = @ \cup {v}] /\ waited' = [waited EXCEPT ![r] = 0]
        /\ UNCHANGED <<cooling, health, rest, callNo, spent, tried, live>>
    BY DEF Streams
  <1>2. v \in Models \X (1..2)
    BY <1>1 DEF FailoverInv, FailoverTypeOK
  <1>3. FailoverTypeOK'
    <2>1. voice' \in [Requests -> SUBSET (Models \X (1..2))]
      BY <1>1, <1>2 DEF FailoverInv, FailoverTypeOK
    <2>2. /\ pc' \in [Requests -> Ended \cup InCall \cup {"new"}]
          /\ waited' \in [Requests -> 0..Patience]
      BY <1>1, Ticks DEF FailoverInv, FailoverTypeOK, InCall
    <2>3. \A q \in Requests : pc'[q] \in InCall => rest'[q] # <<>>
      BY <1>1 DEF FailoverInv, FailoverTypeOK
    <2> QED
      BY <1>1, <2>1, <2>2, <2>3 DEF FailoverInv, FailoverTypeOK
  <1>4. ASSUME NEW q \in Requests
        PROVE  RequestHolds(q)'
    BY <1>1 DEF RequestHolds, FailoverInv, FailoverTypeOK
  <1> QED
    BY <1>3, <1>4 DEF FailoverInv

LEMMA RetryStep ==
    ASSUME FailoverInv, NEW r \in Requests, Retry(r)
    PROVE  FailoverInv'
  <1> USE FailoverAssumption
  <1>1. /\ pc[r] = "call" /\ callNo' = [callNo EXCEPT ![r] = 2]
        /\ waited' = [waited EXCEPT ![r] = 0]
        /\ UNCHANGED <<cooling, health, pc, rest, spent, voice, tried, live>>
    BY DEF Retry
  <1>2. FailoverTypeOK'
    <2>1. callNo' \in [Requests -> 1..2] /\ waited' \in [Requests -> 0..Patience]
      BY <1>1, Ticks DEF FailoverInv, FailoverTypeOK
    <2> QED
      BY <1>1, <2>1 DEF FailoverInv, FailoverTypeOK
  <1>3. ASSUME NEW q \in Requests
        PROVE  RequestHolds(q)'
    BY <1>1 DEF RequestHolds, FailoverInv, FailoverTypeOK
  <1> QED
    BY <1>2, <1>3 DEF FailoverInv

\* Either the candidates have run out, and every one was called, or the next is
\* called and has been said nothing.
LEMMA SwitchStep ==
    ASSUME FailoverInv, NEW r \in Requests, Switch(r)
    PROVE  FailoverInv'
  <1> USE FailoverAssumption
  <1> DEFINE q0 == rest[r]
  <1>1. /\ pc[r] = "call" /\ cooling' = [cooling EXCEPT ![Head(q0)] = Cooldown]
        /\ UNCHANGED <<health, live>>
    BY DEF Switch, _mark_fail
  <1>2. /\ q0 \in Seq(Models) /\ q0 # <<>> /\ Head(q0) \in Models /\ Head(q0) \in tried[r]
        /\ voice[r] = {} /\ live[r] # {} /\ live[r] \subseteq tried[r] \cup Range(q0)
    BY <1>1 DEF FailoverInv, FailoverTypeOK, RequestHolds, InCall
  <1>3. cooling' \in [Models -> 0..Cooldown]
    BY <1>1, <1>2, Ticks DEF FailoverInv, FailoverTypeOK
  <1>4. Tail(q0) \in Seq(Models) /\ Range(q0) = {Head(q0)} \cup Range(Tail(q0))
    <2> HIDE DEF q0
    <2>1. Len(q0) \in Nat \ {0} /\ Tail(q0) \in Seq(Models) /\ Len(Tail(q0)) = Len(q0) - 1
      BY <1>2
    <2>2. \A i \in 1..(Len(q0) - 1) : Tail(q0)[i] = q0[i + 1]
      BY <1>2
    <2>3. \A i \in 1..Len(q0) : i = 1 \/ (i - 1 \in 1..(Len(q0) - 1) /\ (i - 1) + 1 = i)
      BY <2>1
    <2>4. \A i \in 1..Len(q0) : i = 1 \/ Tail(q0)[i - 1] = q0[i]
      BY <2>2, <2>3
    <2>5. \A i \in 1..(Len(q0) - 1) : i + 1 \in 1..Len(q0)
      BY <2>1
    <2>6. DOMAIN q0 = 1..Len(q0) /\ DOMAIN Tail(q0) = 1..(Len(q0) - 1) /\ 1 \in 1..Len(q0)
      BY <1>2, <2>1
    <2>7. Head(q0) = q0[1]
      BY <1>2
    <2>8. \A m : m \in Range(q0) <=> m = Head(q0) \/ m \in Range(Tail(q0))
      <3>1. \A m \in Range(q0) : m = Head(q0) \/ m \in Range(Tail(q0))
        <4>1. \A i \in DOMAIN q0 : q0[i] = Head(q0) \/ \E j \in DOMAIN Tail(q0) : Tail(q0)[j] = q0[i]
          BY <2>3, <2>4, <2>6, <2>7
        <4> QED
          BY <4>1 DEF Range
      <3>2. \A m \in Range(Tail(q0)) : m \in Range(q0)
        BY <2>2, <2>5, <2>6 DEF Range
      <3>3. Head(q0) \in Range(q0)
        BY <2>6, <2>7 DEF Range
      <3> QED
        BY <3>1, <3>2, <3>3
    <2> QED
      BY <2>1, <2>8
  <1>5. CASE Tail(q0) = <<>>
    <2>1. Range(<<>>) = {}
      BY DEF Range
    <2>2. Ends(r, "exhausted") /\ UNCHANGED tried
      BY <1>5 DEF Switch
    <2>3. live[r] \subseteq tried[r]
      BY <1>2, <1>4, <1>5, <2>1
    <2>4. "exhausted" \in Ended
      BY DEF Ended
    <2> QED
      BY <1>1, <1>2, <1>3, <2>2, <2>3, <2>4, Ending
  <1>6. CASE Tail(q0) # <<>>
    <2>1. /\ rest' = [rest EXCEPT ![r] = Tail(q0)]
          /\ tried' = [tried EXCEPT ![r] = @ \cup {Head(rest'[r])}]
          /\ callNo' = [callNo EXCEPT ![r] = 1] /\ waited' = [waited EXCEPT ![r] = 0]
          /\ UNCHANGED <<pc, spent, voice>>
      BY <1>6 DEF Switch
    <2>2. rest'[r] = Tail(q0) /\ Head(Tail(q0)) \in Models
      <3> HIDE DEF q0
      <3>1. Head(Tail(q0)) \in Models
        BY <1>4, <1>6
      <3> QED
        BY <2>1, <3>1 DEF FailoverInv, FailoverTypeOK
    <2>3. FailoverTypeOK'
      <3> HIDE DEF q0
      <3>1. rest' \in [Requests -> Seq(Models)]
        BY <1>4, <2>1 DEF FailoverInv, FailoverTypeOK
      <3>2. tried' \in [Requests -> SUBSET Models]
        BY <2>1, <2>2 DEF FailoverInv, FailoverTypeOK
      <3>3. callNo' \in [Requests -> 1..2] /\ waited' \in [Requests -> 0..Patience]
        BY <2>1, Ticks DEF FailoverInv, FailoverTypeOK
      <3>4. \A q \in Requests : pc'[q] \in InCall => rest'[q] # <<>>
        BY <1>6, <2>1 DEF FailoverInv, FailoverTypeOK
      <3> QED
        BY <1>1, <1>3, <2>1, <3>1, <3>2, <3>3, <3>4 DEF FailoverInv, FailoverTypeOK
    <2>4. ASSUME NEW q \in Requests
          PROVE  RequestHolds(q)'
      <3>1. RequestHolds(q)
        BY DEF FailoverInv
      <3>2. CASE q = r
        BY <1>1, <1>2, <1>4, <2>1, <2>2, <3>2 DEF RequestHolds, FailoverInv, FailoverTypeOK
      <3>3. CASE q # r
        <4>1. /\ pc'[q] = pc[q] /\ rest'[q] = rest[q] /\ callNo'[q] = callNo[q]
              /\ voice'[q] = voice[q] /\ live'[q] = live[q] /\ tried'[q] = tried[q]
          BY <1>1, <2>1, <3>3 DEF FailoverInv, FailoverTypeOK
        <4> QED
          BY <3>1, <4>1 DEF RequestHolds
      <3> QED
        BY <3>2, <3>3
    <2> QED
      BY <2>3, <2>4 DEF FailoverInv
  <1> QED
    BY <1>5, <1>6

LEMMA SettleStep ==
    ASSUME FailoverInv, NEW r \in Requests, Settle(r)
    PROVE  FailoverInv'
  <1> USE FailoverAssumption
  <1>1. cooling \in [Models -> 0..Cooldown]
    BY DEF FailoverInv, FailoverTypeOK
  <1>2. CASE Succeeds(r)
    <2>1. Ends(r, "answered") /\ UNCHANGED <<health, tried, live>>
      BY <1>2 DEF Succeeds
    <2>2. cooling' \in [Models -> 0..Cooldown]
      <3> DEFINE m == Head(rest[r])
      <3>1. cooling' = [cooling EXCEPT ![m] = 0]
        BY <1>2 DEF Succeeds
      <3> HIDE DEF m
      <3> QED
        BY <1>1, <3>1, Ticks
    <2> QED
      BY <2>1, <2>2, Ending DEF Ended
  <1>3. CASE Breaks(r)
    BY <1>1, <1>3, Ending DEF Breaks, Ended
  <1>4. CASE Fatal(r)
    BY <1>1, <1>4, Ending DEF Fatal, Ended
  <1>5. CASE Cancelled(r)
    BY <1>1, <1>5, Ending DEF Cancelled, Ended
  <1> QED
    BY <1>2, <1>3, <1>4, <1>5, RetryStep, SwitchStep DEF Settle

LEMMA WorldStep ==
    ASSUME FailoverInv, Tick \/ Sicken \/ UNCHANGED failover_vars
    PROVE  FailoverInv'
  <1> USE FailoverAssumption
  <1>1. UNCHANGED <<pc, rest, callNo, voice, tried, live>>
    BY DEF Tick, Sicken, failover_vars
  <1>2. \A r \in Requests : RequestHolds(r)'
    BY <1>1 DEF FailoverInv, RequestHolds
  <1>3. CASE Tick
    <2>1. ASSUME NEW r \in Requests, pc[r] \in InCall
          PROVE  waited[r] + 1 \in 0..Patience /\ (r \in Hurried => spent[r] + 1 \in 0..Deadline)
      <3>1. waited[r] \in 0..Patience /\ spent[r] \in 0..Deadline
        BY DEF FailoverInv, FailoverTypeOK
      <3>2. waited[r] # Patience /\ (r \in Hurried => spent[r] # Deadline)
        BY <1>3, <2>1 DEF Tick, Overdue
      <3> QED
        BY <3>1, <3>2
    <2>2. waited' \in [Requests -> 0..Patience] /\ spent' \in [Requests -> 0..Deadline]
      BY <1>3, <2>1 DEF Tick
    <2>3. cooling' \in [Models -> 0..Cooldown]
      BY <1>3 DEF Tick, FailoverInv, FailoverTypeOK
    <2> QED
      BY <1>1, <1>2, <1>3, <2>2, <2>3 DEF Tick, FailoverInv, FailoverTypeOK
  <1>4. CASE Sicken
    BY <1>1, <1>2, <1>4 DEF Sicken, FailoverInv, FailoverTypeOK
  <1>5. CASE UNCHANGED failover_vars
    BY <1>1, <1>2, <1>5 DEF failover_vars, FailoverInv, FailoverTypeOK
  <1> QED
    BY <1>3, <1>4, <1>5

\* For any chain, cooldown and limits, whatever fails and whoever else marks
\* models meanwhile: an answer is of one call, and a request reports that all
\* failed only when it has called every candidate it began with (chat_stream).
THEOREM RequestsAnswerOnce == FailoverSpec => []OneAnswerOrAllTried
  <1>1. FailoverInv /\ [FailoverNext]_failover_vars => FailoverInv'
    BY BeginStep, StreamStep, SettleStep, WorldStep DEF FailoverNext
  <1>2. FailoverInv => OneAnswerOrAllTried
    <2> SUFFICES ASSUME FailoverInv
                 PROVE  OneVoice /\ TriesEveryCandidate
      BY DEF FailoverInv, OneAnswerOrAllTried
    <2>1. OneVoice
      BY DEF FailoverInv, RequestHolds, OneVoice
    <2>2. TriesEveryCandidate
      BY DEF FailoverInv, RequestHolds, TriesEveryCandidate
    <2> QED
      BY <2>1, <2>2
  <1> QED
    BY <1>1, <1>2, FailoverBegins, PTL DEF FailoverSpec
=============================================================================
