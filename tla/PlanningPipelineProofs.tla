----------------------- MODULE PlanningPipelineProofs -----------------------
(***************************************************************************)
(* Proofs about PlanningPipeline for every set of sessions, runs,          *)
(* operations and attempts, and every bound.                               *)
(***************************************************************************)
EXTENDS PlanningPipeline, TLAPS

----------------------------------------------------------------------------
(* The inductive invariant *)

\* What planning relies on in the lifecycle: a session that offers a replay
\* has a baseline, a run of its own.
Offered == {"BASELINE_READY", "REPLAYING", "COMPLETED"}

MissionLinked ==
  \A s \in Sessions :
    status[s] \in Offered => baseline[s] \in Runs /\ owner[baseline[s]] = s

\* A run launched for an attempt is nobody's baseline.
CandidatesApart ==
  \A r \in Runs : candidate[r] # NotLaunched => owner[r] = Nobody

\* What an operation read is still the baseline of its session.
ReadIsBaseline ==
  \A o \in Operations :
    /\ op[o].pc # "idle" => op[o].session \in Sessions
    /\ op[o].pc \in {"planning", "simulating"} =>
         /\ status[op[o].session] \in Eligible
         /\ op[o].read = baseline[op[o].session]

\* A simulating operation is alone with its attempt, its record and its run.
Simulated(o, a, r) ==
  /\ a \in Attempts /\ r \in Runs
  /\ attempt[a] = NewAttempt(o)
  /\ validation[a] = Simulating(o)
  /\ candidate[r] = [attempt |-> a, result |-> "none"]
  /\ answer[a] = "none"

SimulatingOwns ==
  \A o \in Operations :
    op[o].pc = "simulating" => Simulated(o, op[o].attempt, op[o].run)

OwnersDiffer ==
  \A o, p \in Operations :
    op[o].pc = "simulating" /\ op[p].pc = "simulating"
      /\ op[o].attempt = op[p].attempt => o = p

\* Nothing is known of an attempt that was never stored.
FreshAttempts ==
  \A a \in Attempts : attempt[a] = NoRecord => validation[a] = NoValidation

\* A complete record is linked, and its session still offers the replay that
\* keeps the baseline in place.
ComparisonStands ==
  \A a \in Attempts :
    validation[a].status = "SIMULATION_COMPLETE" =>
      /\ attempt[a].session \in Sessions
      /\ status[attempt[a].session] \in Eligible

PInv ==
  /\ TypeOK /\ GuardsAccounted /\ MissionLinked /\ CandidatesApart
  /\ ReadIsBaseline /\ SimulatingOwns /\ OwnersDiffer /\ FreshAttempts
  /\ ComparisonStands /\ ComparisonLinked /\ AnswerMatchesRecord

----------------------------------------------------------------------------
(* Types and small facts *)

LEMMA IdleTyped == Idle \in Operation
BY DEF Idle, Operation

LEMMA RecordsTyped ==
  /\ NoRecord \in Attempt /\ NoValidation \in Validation /\ NotLaunched \in Candidate
BY DEF NoRecord, Attempt, NoValidation, Validation, NotLaunched, Candidate

\* What the services store for an operation is a record of its store.
LEMMA NewTyped ==
  ASSUME TypeOK, NEW o \in Operations
  PROVE  /\ Simulating(o) \in Validation
         /\ op[o].session \in Sessions => NewAttempt(o) \in Attempt
<1>1. op[o] \in Operation
  BY DEF TypeOK
<1>. QED
  BY <1>1 DEF Operation, Simulating, NewAttempt, Validation, Attempt

\* Updates of one field.
LEMMA UpdatesTyped ==
  /\ \A k \in Operation :
       /\ \A s \in Sessions :
            [Idle EXCEPT !.pc = "loading", !.session = s] \in Operation
       /\ \A r \in Runs \cup {NoRun} :
            [k EXCEPT !.pc = "planning", !.read = r] \in Operation
       /\ \A a \in Attempts, r \in Runs :
            [k EXCEPT !.pc = "simulating", !.attempt = a, !.run = r] \in Operation
  /\ \A v \in Validation :
       /\ [v EXCEPT !.status = "ERROR"] \in Validation
       /\ \A r \in Runs :
            [v EXCEPT !.status = "SIMULATION_COMPLETE", !.run = r] \in Validation
  /\ \A c \in Candidate :
       /\ \A a \in Attempts : [c EXCEPT !.attempt = a] \in Candidate
       /\ \A x \in Outcome \cup {"failed"} : [c EXCEPT !.result = x] \in Candidate
BY DEF Operation, Idle, Validation, Candidate

LEMMA InitInv == Init => PInv
<1>. SUFFICES ASSUME Init PROVE PInv
  OBVIOUS
<1>. USE DEF Init
<1>1. TypeOK
  BY IdleTyped, RecordsTyped DEF TypeOK, Lifecycle!Init, Answer
<1>2. \A o \in Operations : op[o].pc = "idle"
  BY DEF Idle
<1>3. GuardsAccounted
  BY <1>2 DEF GuardsAccounted
<1>4. MissionLinked
  BY DEF MissionLinked, Offered, Lifecycle!Init
<1>5. CandidatesApart /\ FreshAttempts
  BY DEF CandidatesApart, FreshAttempts
<1>6. ReadIsBaseline /\ SimulatingOwns /\ OwnersDiffer
  BY <1>2 DEF ReadIsBaseline, SimulatingOwns, OwnersDiffer
<1>7. ComparisonStands /\ ComparisonLinked
  BY DEF ComparisonStands, ComparisonLinked, NoValidation
<1>8. AnswerMatchesRecord
  BY DEF AnswerMatchesRecord
<1>. QED
  BY <1>1, <1>3, <1>4, <1>5, <1>6, <1>7, <1>8 DEF PInv

----------------------------------------------------------------------------
(* The guards *)

\* A step inside an operation.
LEMMA GuardStay ==
  ASSUME TypeOK, GuardsAccounted, NEW o \in Operations, NEW k,
         op[o].pc # "idle", k.pc # "idle", k.session = op[o].session,
         op' = [op EXCEPT ![o] = k], guard' = guard
  PROVE  GuardsAccounted'
<1>1. \A p \in Operations : /\ op'[p].pc # "idle" <=> op[p].pc # "idle"
                            /\ op'[p].session = op[p].session
  BY DEF TypeOK
<1>. QED
  BY <1>1 DEF GuardsAccounted

LEMMA GuardEnd ==
  ASSUME TypeOK, GuardsAccounted, NEW o \in Operations, op[o].pc # "idle", End(o)
  PROVE  GuardsAccounted'
<1>1. /\ op'[o].pc = "idle"
      /\ \A p \in Operations \ {o} : op'[p] = op[p]
  BY DEF TypeOK, End, Idle
<1>2. guard' = guard \ {op[o].session}
  BY DEF End
<1>. QED
  BY <1>1, <1>2 DEF GuardsAccounted

LEMMA GuardBegin ==
  ASSUME TypeOK, GuardsAccounted, NEW o \in Operations, NEW s \in Sessions, Begin(o, s)
  PROVE  GuardsAccounted'
<1>1. /\ op[o].pc = "idle" /\ op'[o].pc = "loading" /\ op'[o].session = s
      /\ \A p \in Operations \ {o} : op'[p] = op[p]
  BY DEF TypeOK, Begin, Idle
<1>2. guard' = guard \cup {s} /\ s \notin guard
  BY DEF Begin, Free
<1>. QED
  BY <1>1, <1>2 DEF GuardsAccounted

----------------------------------------------------------------------------
(* The mission underneath *)

\* The lifecycle keeps the baseline of a session that is replayed, and the
\* sessions of its runs.
LEMMA MissionKeeps ==
  ASSUME TypeOK, MissionLinked, Lifecycle!Next
  PROVE  /\ \A s \in Sessions : status[s] \in Eligible =>
              status'[s] \in Eligible /\ baseline'[s] = baseline[s]
         /\ \A r \in Runs : owner[r] # Nobody => owner'[r] = owner[r]
         /\ MissionLinked'
         /\ status' \in [Sessions -> {"ABSENT", "READY", "TRIGGERING", "BASELINE_READY",
                                      "REPLAYING", "COMPLETED", "ERROR"}]
         /\ baseline' \in [Sessions -> Runs \cup {NoRun}]
         /\ owner' \in [Runs -> Sessions \cup {Nobody}]
<1>. PICK s \in Sessions :
       \/ Lifecycle!Create(s) \/ Lifecycle!Trigger(s) \/ Lifecycle!Fail(s)
       \/ Lifecycle!StartReplay(s) \/ Lifecycle!Complete(s)
       \/ \E r \in Runs : Lifecycle!Launch(s, r) \/ Lifecycle!Link(s, r)
  BY DEF Lifecycle!Next
<1>. USE PipelineAssumption DEF TypeOK, MissionLinked, Offered, Eligible, Lifecycle!Move
<1>1. CASE Lifecycle!Create(s) \/ Lifecycle!Trigger(s)
  BY <1>1 DEF Lifecycle!Create, Lifecycle!Trigger
<1>2. CASE Lifecycle!Fail(s)
  BY <1>2 DEF Lifecycle!Fail
<1>3. CASE Lifecycle!StartReplay(s) \/ Lifecycle!Complete(s)
  BY <1>3 DEF Lifecycle!StartReplay, Lifecycle!Complete
<1>4. CASE \E r \in Runs : Lifecycle!Launch(s, r)
  BY <1>4 DEF Lifecycle!Launch
<1>5. CASE \E r \in Runs : Lifecycle!Link(s, r)
  BY <1>5 DEF Lifecycle!Link
<1>. QED
  BY <1>1, <1>2, <1>3, <1>4, <1>5

----------------------------------------------------------------------------
(* Steps that leave the records alone *)

\* Operations that begin, go on before their launch, or end.
LEMMA QuietStep ==
  ASSUME PInv,
         op' \in [Operations -> Operation],
         \A p \in Operations : op'[p] = op[p] \/ op'[p].pc # "simulating",
         GuardsAccounted', guard' \in SUBSET Sessions, ReadIsBaseline',
         UNCHANGED <<mission, attempt, validation, candidate, answer, faults>>,
         crashes' \in Nat, cancels' \in Nat
  PROVE  PInv'
<1>. USE DEF PInv, mission
<1>1. TypeOK'
  BY DEF TypeOK
<1>2. MissionLinked' /\ CandidatesApart' /\ FreshAttempts'
  BY DEF MissionLinked, CandidatesApart, FreshAttempts
<1>3. SimulatingOwns'
  BY DEF SimulatingOwns, Simulated, Simulating, NewAttempt
<1>4. OwnersDiffer'
  BY DEF OwnersDiffer
<1>5. ComparisonStands' /\ ComparisonLinked'
  BY DEF ComparisonStands, ComparisonLinked
<1>6. AnswerMatchesRecord'
  BY DEF AnswerMatchesRecord
<1>. QED
  BY <1>1, <1>2, <1>3, <1>4, <1>5, <1>6

\* The mission moves on under the operations.
LEMMA MissionStepInv == PInv /\ MissionStep => PInv'
<1>. SUFFICES ASSUME PInv, MissionStep PROVE PInv'
  OBVIOUS
<1>. USE DEF PInv
<1>0. /\ UNCHANGED <<guard, op, attempt, validation, candidate, answer,
                    faults, crashes, cancels>>
      /\ \A r \in Runs : owner'[r] # owner[r] => candidate[r] = NotLaunched
      /\ Lifecycle!Next
  BY DEF MissionStep, budget
<1>1. /\ \A s \in Sessions : status[s] \in Eligible =>
           status'[s] \in Eligible /\ baseline'[s] = baseline[s]
      /\ \A r \in Runs : owner[r] # Nobody => owner'[r] = owner[r]
      /\ MissionLinked'
  BY <1>0, MissionKeeps
<1>2. TypeOK'
  BY <1>0, MissionKeeps DEF TypeOK
<1>3. GuardsAccounted' /\ FreshAttempts' /\ AnswerMatchesRecord' /\ OwnersDiffer'
  BY <1>0 DEF GuardsAccounted, FreshAttempts, AnswerMatchesRecord, OwnersDiffer
<1>4. CandidatesApart'
  BY <1>0 DEF CandidatesApart
<1>5. ReadIsBaseline'
  BY <1>0, <1>1 DEF ReadIsBaseline
<1>6. SimulatingOwns'
  BY <1>0 DEF SimulatingOwns, Simulated, Simulating, NewAttempt
<1>7. ComparisonStands'
  BY <1>0, <1>1 DEF ComparisonStands
<1>8. ComparisonLinked'
  <2>. SUFFICES ASSUME NEW a \in Attempts,
                       validation[a].status = "SIMULATION_COMPLETE"
                PROVE  LET v == validation[a]
                       IN  /\ v.run \in Runs /\ candidate[v.run].attempt = a
                           /\ candidate[v.run].result \in Outcome
                           /\ v.baseline = attempt[a].baseline /\ v.baseline # v.run
                           /\ v.baseline = baseline'[attempt[a].session]
                           /\ owner'[v.baseline] = attempt[a].session
    BY <1>0 DEF ComparisonLinked
  <2>1. /\ attempt[a].session \in Sessions
        /\ status[attempt[a].session] \in Eligible
    BY DEF ComparisonStands
  <2>2. baseline'[attempt[a].session] = baseline[attempt[a].session]
    BY <1>1, <2>1
  <2>3. /\ baseline[attempt[a].session] \in Runs
        /\ owner[baseline[attempt[a].session]] = attempt[a].session
    BY <2>1 DEF MissionLinked, Offered, Eligible
  <2>4. owner'[baseline[attempt[a].session]] = attempt[a].session
    BY <1>1, <2>1, <2>3, PipelineAssumption
  <2>. QED
    BY <2>2, <2>4 DEF ComparisonLinked
<1>. QED
  BY <1>1, <1>2, <1>3, <1>4, <1>5, <1>6, <1>7, <1>8

LEMMA BeginInv ==
  ASSUME PInv, NEW o \in Operations, NEW s \in Sessions, Begin(o, s)
  PROVE  PInv'
<1>. USE DEF PInv
<1>1. op'[o] = [Idle EXCEPT !.pc = "loading", !.session = s]
      /\ \A p \in Operations \ {o} : op'[p] = op[p]
  BY DEF Begin, TypeOK
<1>2. op' \in [Operations -> Operation]
  BY UpdatesTyped, IdleTyped DEF Begin, TypeOK
<1>3. GuardsAccounted' /\ guard' \in SUBSET Sessions
  BY GuardBegin DEF Begin, TypeOK
<1>4. op'[o].pc = "loading" /\ op'[o].session = s
  BY <1>1 DEF Idle
<1>5. ReadIsBaseline'
  BY <1>1, <1>4 DEF ReadIsBaseline, Begin, mission
<1>6. UNCHANGED <<mission, attempt, validation, candidate, answer, faults, crashes, cancels>>
  BY DEF Begin, budget, mission
<1>. QED
  BY <1>1, <1>2, <1>3, <1>4, <1>5, <1>6, QuietStep DEF TypeOK, mission

\* The operation ends and nothing else changes.
LEMMA EndInv ==
  ASSUME PInv, NEW o \in Operations, op[o].pc # "idle", End(o),
         UNCHANGED <<mission, attempt, validation, candidate, answer, faults>>,
         crashes' \in Nat, cancels' \in Nat
  PROVE  PInv'
<1>. USE DEF PInv
<1>1. op'[o] = Idle /\ \A p \in Operations \ {o} : op'[p] = op[p]
  BY DEF End, TypeOK
<1>2. op' \in [Operations -> Operation] /\ guard' \in SUBSET Sessions
  BY IdleTyped DEF End, TypeOK
<1>3. op'[o].pc = "idle"
  BY <1>1 DEF Idle
<1>4. ReadIsBaseline'
  BY <1>1, <1>3 DEF ReadIsBaseline, mission
<1>. QED
  BY <1>1, <1>2, <1>3, <1>4, GuardEnd, QuietStep DEF mission

LEMMA CrashInv == PInv /\ Crash => PInv'
<1>. SUFFICES ASSUME PInv, Crash PROVE PInv'
  OBVIOUS
<1>. USE DEF PInv
<1>1. /\ op' \in [Operations -> Operation]
      /\ \A p \in Operations : op'[p].pc = "idle"
  BY IdleTyped DEF Crash, Idle
<1>2. GuardsAccounted' /\ guard' \in SUBSET Sessions
  BY <1>1 DEF Crash, GuardsAccounted
<1>3. ReadIsBaseline'
  BY <1>1 DEF ReadIsBaseline
<1>. QED
  BY <1>1, <1>2, <1>3, QuietStep DEF Crash, mission, TypeOK

LEMMA LoadContextInv ==
  ASSUME PInv, NEW o \in Operations, LoadContext(o)
  PROVE  PInv'
<1>. USE DEF PInv
<1>1. /\ op'[o] = [op[o] EXCEPT !.pc = "planning", !.read = baseline[op[o].session]]
      /\ \A p \in Operations \ {o} : op'[p] = op[p]
      /\ op[o].pc = "loading" /\ op[o] \in Operation
      /\ status[op[o].session] \in Eligible
      /\ UNCHANGED <<mission, guard, attempt, validation, candidate, answer,
                    faults, crashes, cancels>>
  BY DEF LoadContext, TypeOK, budget, mission
<1>2. op[o].session \in Sessions
  BY <1>1 DEF ReadIsBaseline
<1>3. /\ op'[o].pc = "planning" /\ op'[o].session = op[o].session
      /\ op'[o].read = baseline[op[o].session]
  BY <1>1 DEF Operation
<1>4. baseline[op[o].session] \in Runs \cup {NoRun}
  BY <1>2 DEF TypeOK
<1>5. op' \in [Operations -> Operation]
  BY <1>1, <1>4, UpdatesTyped DEF LoadContext, TypeOK
<1>6. ReadIsBaseline'
  BY <1>1, <1>2, <1>3, ZenonT(40) DEF ReadIsBaseline, mission
<1>7. GuardsAccounted'
  <2>. DEFINE k == [op[o] EXCEPT !.pc = "planning", !.read = baseline[op[o].session]]
  <2>1. op' = [op EXCEPT ![o] = k]
    BY DEF LoadContext
  <2>2. k.pc # "idle" /\ k.session = op[o].session
    BY <1>1 DEF Operation
  <2>. HIDE DEF k
  <2>. QED
    BY <1>1, <2>1, <2>2, GuardStay
<1>. QED
  BY <1>1, <1>3, <1>5, <1>6, <1>7, QuietStep DEF TypeOK, mission

----------------------------------------------------------------------------
(* Steps that end a simulation *)

\* An operation that simulates ends with the result x of its run, the record v
\* of its attempt and the answer w.
Finish(o, x, v, w) ==
  LET a == op[o].attempt
      r == op[o].run
  IN  /\ op[o].pc = "simulating"
      /\ x \in Outcome \cup {"failed"} /\ v \in Validation /\ w \in Answer
      /\ candidate' = [candidate EXCEPT ![r].result = x]
      /\ validation' = [validation EXCEPT ![a] = v]
      /\ answer' = [answer EXCEPT ![a] = w]
      /\ v.status = "SIMULATION_COMPLETE" =>
           x \in Outcome /\ v.run = r /\ v.baseline = validation[a].baseline
      /\ w = "ok" => v.status = "SIMULATION_COMPLETE"
      /\ w \in {"error", "cancelled"} /\ faults' = 0 => v.status = "ERROR"
      /\ End(o)
      /\ faults' \in {faults, faults + 1}
      /\ UNCHANGED <<mission, attempt>>
      /\ crashes' \in Nat /\ cancels' \in Nat

LEMMA FinishInv ==
  ASSUME PInv, NEW o \in Operations, NEW x, NEW v, NEW w, Finish(o, x, v, w)
  PROVE  PInv'
<1>. DEFINE a == op[o].attempt
            r == op[o].run
<1>. USE DEF PInv
<1>0. /\ a \in Attempts /\ r \in Runs
      /\ attempt[a] = NewAttempt(o) /\ validation[a] = Simulating(o)
      /\ candidate[r] = [attempt |-> a, result |-> "none"]
      /\ answer[a] = "none"
  BY DEF SimulatingOwns, Simulated, Finish
<1>1. /\ op[o].pc = "simulating"
      /\ x \in Outcome \cup {"failed"} /\ v \in Validation /\ w \in Answer
      /\ v.status = "SIMULATION_COMPLETE" =>
           x \in Outcome /\ v.run = r /\ v.baseline = validation[a].baseline
      /\ w = "ok" => v.status = "SIMULATION_COMPLETE"
      /\ w \in {"error", "cancelled"} /\ faults' = 0 => v.status = "ERROR"
      /\ End(o)
      /\ faults' \in {faults, faults + 1}
      /\ UNCHANGED <<status, baseline, owner, attempt>>
      /\ crashes' \in Nat /\ cancels' \in Nat
  BY DEF Finish, mission
<1>2. /\ candidate' = [candidate EXCEPT ![r].result = x]
      /\ validation' = [validation EXCEPT ![a] = v]
      /\ answer' = [answer EXCEPT ![a] = w]
  BY DEF Finish
<1>. HIDE DEF a, r
<1>3. /\ op'[o] = Idle /\ op'[o].pc = "idle"
      /\ \A p \in Operations \ {o} : op'[p] = op[p]
  BY <1>1 DEF End, TypeOK, Idle
<1>4. /\ candidate'[r] = [candidate[r] EXCEPT !.result = x]
      /\ candidate'[r].attempt = a /\ candidate'[r].result = x
      /\ \A y \in Runs \ {r} : candidate'[y] = candidate[y]
  BY <1>0, <1>2 DEF TypeOK
<1>5. /\ validation'[a] = v /\ answer'[a] = w
      /\ \A b \in Attempts \ {a} :
           validation'[b] = validation[b] /\ answer'[b] = answer[b]
  BY <1>0, <1>2 DEF TypeOK
<1>6. TypeOK'
  <2>1. candidate[r] \in Candidate /\ [candidate[r] EXCEPT !.result = x] \in Candidate
    BY <1>0, <1>1, UpdatesTyped DEF TypeOK
  <2>2. candidate' = [candidate EXCEPT ![r] = [candidate[r] EXCEPT !.result = x]]
    BY <1>2
  <2>3. candidate' \in [Runs -> Candidate]
    BY <1>0, <2>1, <2>2 DEF TypeOK
  <2>4. op' \in [Operations -> Operation] /\ guard' \in SUBSET Sessions
    BY <1>1, IdleTyped DEF TypeOK, End
  <2>5. validation' \in [Attempts -> Validation] /\ answer' \in [Attempts -> Answer]
    BY <1>0, <1>1, <1>2 DEF TypeOK
  <2>6. faults' \in Nat /\ crashes' \in Nat /\ cancels' \in Nat
    BY <1>1 DEF TypeOK
  <2>7. attempt' \in [Attempts -> Attempt]
    BY <1>1 DEF TypeOK
  <2>. QED
    BY <1>1, <2>3, <2>4, <2>5, <2>6, <2>7 DEF TypeOK
<1>7. GuardsAccounted'
  BY <1>1, GuardEnd
<1>8. MissionLinked'
  BY <1>1 DEF MissionLinked
<1>9. NoAttempt # a /\ candidate[r] # NotLaunched /\ owner[r] = Nobody
  BY <1>0, PipelineAssumption DEF NotLaunched, CandidatesApart
<1>10. CandidatesApart'
  BY <1>1, <1>4, <1>9 DEF CandidatesApart
<1>11. ReadIsBaseline'
  BY <1>1, <1>3 DEF ReadIsBaseline
<1>12. OwnersDiffer'
  BY <1>3 DEF OwnersDiffer
<1>13. SimulatingOwns'
  <2>. SUFFICES ASSUME NEW p \in Operations, op'[p].pc = "simulating"
                PROVE  Simulated(p, op[p].attempt, op[p].run)' /\ op'[p] = op[p]
    BY DEF SimulatingOwns, Simulated, NewAttempt, Simulating
  <2>1. p # o /\ op'[p] = op[p]
    BY <1>3
  <2>2. Simulated(p, op[p].attempt, op[p].run)
    BY <2>1 DEF SimulatingOwns
  <2>3. op[p].attempt # a
    BY <1>1, <2>1 DEF OwnersDiffer, a
  <2>4. op[p].run # r
    BY <1>0, <2>2, <2>3 DEF Simulated
  <2>. QED
    BY <1>1, <1>4, <1>5, <2>1, <2>2, <2>3, <2>4
       DEF Simulated, NewAttempt, Simulating
<1>14. FreshAttempts'
  <2>1. op[o].session \in Sessions
    BY <1>1 DEF ReadIsBaseline
  <2>2. attempt[a] # NoRecord
    BY <1>0, <2>1, PipelineAssumption DEF NewAttempt, NoRecord
  <2>. QED
    BY <1>1, <1>5, <2>2 DEF FreshAttempts
<1>15. /\ attempt[a].session = op[o].session /\ op[o].session \in Sessions
       /\ attempt[a].baseline = op[o].read /\ validation[a].baseline = op[o].read
       /\ status[op[o].session] \in Eligible
       /\ op[o].read = baseline[op[o].session]
       /\ validation[a].status = "SIMULATING"
  BY <1>0, <1>1 DEF ReadIsBaseline, NewAttempt, Simulating
<1>16. ComparisonStands'
  BY <1>1, <1>5, <1>15 DEF ComparisonStands
<1>17. ComparisonLinked'
  <2>. SUFFICES ASSUME NEW b \in Attempts,
                       validation'[b].status = "SIMULATION_COMPLETE"
                PROVE  LET u == validation'[b]
                       IN  /\ u.run \in Runs /\ candidate'[u.run].attempt = b
                           /\ candidate'[u.run].result \in Outcome
                           /\ u.baseline = attempt[b].baseline /\ u.baseline # u.run
                           /\ u.baseline = baseline[attempt[b].session]
                           /\ owner[u.baseline] = attempt[b].session
    BY <1>1 DEF ComparisonLinked
  <2>1. CASE b = a
    <3>1. /\ v.run = r /\ x \in Outcome /\ v.baseline = op[o].read
      BY <1>1, <1>5, <1>15, <2>1
    <3>2. op[o].read \in Runs /\ owner[op[o].read] = op[o].session
      BY <1>15 DEF MissionLinked, Offered, Eligible
    <3>3. op[o].read # r
      BY <1>9, <1>15, <3>2, PipelineAssumption
    <3>. QED
      BY <1>0, <1>4, <1>5, <1>15, <2>1, <3>1, <3>2, <3>3
  <2>2. CASE b # a
    <3>1. validation'[b] = validation[b]
      BY <1>5, <2>2
    <3>2. /\ validation[b].run \in Runs /\ candidate[validation[b].run].attempt = b
      BY <3>1 DEF ComparisonLinked
    <3>3. validation[b].run # r
      BY <1>0, <2>2, <3>2
    <3>4. candidate'[validation[b].run] = candidate[validation[b].run]
      BY <1>4, <3>2, <3>3
    <3>. QED
      BY <3>1, <3>4 DEF ComparisonLinked
  <2>. QED
    BY <2>1, <2>2
<1>18. AnswerMatchesRecord'
  <2>1. faults' = 0 => faults = 0
    BY <1>1 DEF TypeOK
  <2>. QED
    BY <1>1, <1>5, <2>1 DEF AnswerMatchesRecord
<1>. QED
  BY <1>6, <1>7, <1>8, <1>10, <1>11, <1>12, <1>13, <1>14, <1>16, <1>17, <1>18

LEMMA AcceptedInv ==
  ASSUME PInv, NEW o \in Operations, NEW x \in Outcome, CandidateAccepted(o, x)
  PROVE  PInv'
<1>. DEFINE a == op[o].attempt
            r == op[o].run
<1>1. a \in Attempts /\ r \in Runs /\ validation[a] \in Validation
      /\ validation[a] = Simulating(o)
  BY DEF PInv, SimulatingOwns, Simulated, CandidateAccepted, TypeOK
<1>2. /\ Complete(a, r) \in Validation
      /\ Complete(a, r).status = "SIMULATION_COMPLETE"
      /\ Complete(a, r).run = r
      /\ Complete(a, r).baseline = validation[a].baseline
  BY <1>1, UpdatesTyped DEF Complete, Validation
<1>3. validation = [validation EXCEPT ![a] = validation[a]]
  BY <1>1 DEF PInv, TypeOK
<1>4. validation[a].status = "SIMULATING"
  BY <1>1 DEF Simulating
<1>5. /\ op[o].pc = "simulating" /\ End(o)
      /\ candidate' = [candidate EXCEPT ![r].result = x]
      /\ UNCHANGED <<mission, attempt>>
      /\ crashes' \in Nat /\ cancels' \in Nat
      /\ \/ /\ validation' = [validation EXCEPT ![a] = Complete(a, r)]
            /\ answer' = [answer EXCEPT ![a] = "ok"] /\ faults' = faults
         \/ /\ answer' = [answer EXCEPT ![a] = "storage"] /\ faults' = faults + 1
            /\ \/ validation' = validation
               \/ validation' = [validation EXCEPT ![a] = Complete(a, r)]
  BY DEF CandidateAccepted, Tell, Fault, PInv, TypeOK
<1>. USE DEF Finish, Answer
<1>6. CASE /\ validation' = [validation EXCEPT ![a] = Complete(a, r)]
           /\ answer' = [answer EXCEPT ![a] = "ok"] /\ faults' = faults
  <2>1. Finish(o, x, Complete(a, r), "ok")
    BY <1>2, <1>5, <1>6
  <2>. QED
    BY <2>1, FinishInv
<1>7. CASE /\ validation' = [validation EXCEPT ![a] = Complete(a, r)]
           /\ answer' = [answer EXCEPT ![a] = "storage"] /\ faults' = faults + 1
  <2>1. Finish(o, x, Complete(a, r), "storage")
    BY <1>2, <1>5, <1>7
  <2>. QED
    BY <2>1, FinishInv
<1>8. CASE /\ validation' = validation
           /\ answer' = [answer EXCEPT ![a] = "storage"] /\ faults' = faults + 1
  <2>1. Finish(o, x, validation[a], "storage")
    BY <1>1, <1>3, <1>4, <1>5, <1>8
  <2>. QED
    BY <2>1, FinishInv
<1>. QED
  BY <1>5, <1>6, <1>7, <1>8

LEMMA UnlinkedInv ==
  ASSUME PInv, NEW o \in Operations, NEW x \in Outcome, CandidateUnlinked(o, x)
  PROVE  PInv'
<1>. DEFINE a == op[o].attempt
<1>1. a \in Attempts /\ validation[a] \in Validation /\ validation[a] = Simulating(o)
  BY DEF PInv, SimulatingOwns, Simulated, CandidateUnlinked, TypeOK
<1>2. validation = [validation EXCEPT ![a] = validation[a]]
  BY <1>1 DEF PInv, TypeOK
<1>3. validation[a].status = "SIMULATING"
  BY <1>1 DEF Simulating
<1>4. /\ op[o].pc = "simulating" /\ End(o)
      /\ candidate' = [candidate EXCEPT ![op[o].run].result = x]
      /\ answer' = [answer EXCEPT ![a] = "integrity"] /\ validation' = validation
      /\ faults' \in {faults, faults + 1}
      /\ UNCHANGED <<mission, attempt>>
      /\ crashes' \in Nat /\ cancels' \in Nat
  BY DEF CandidateUnlinked, Tell, Fault, PInv, TypeOK
<1>5. Finish(o, x, validation[a], "integrity")
  BY <1>1, <1>2, <1>3, <1>4 DEF Finish, Answer
<1>. QED
  BY <1>5, FinishInv

\* run_simulation raised or was cancelled: the transition to ERROR is tried.
LEMMA FailedInv ==
  ASSUME PInv, NEW o \in Operations, NEW w \in {"error", "cancelled"},
         op[o].pc = "simulating", End(o),
         candidate' = [candidate EXCEPT ![op[o].run].result = "failed"],
         ErrorTransition(op[o].attempt), Tell(op[o].attempt, w),
         UNCHANGED <<mission, attempt>>, crashes' \in Nat, cancels' \in Nat
  PROVE  PInv'
<1>. DEFINE a == op[o].attempt
            failed == [validation[a] EXCEPT !.status = "ERROR"]
<1>1. a \in Attempts /\ validation[a] \in Validation /\ validation[a] = Simulating(o)
  BY DEF PInv, SimulatingOwns, Simulated, TypeOK
<1>2. validation = [validation EXCEPT ![a] = validation[a]]
  BY <1>1 DEF PInv, TypeOK
<1>3. validation[a].status = "SIMULATING"
  BY <1>1 DEF Simulating
<1>4. failed \in Validation /\ failed.status = "ERROR"
  BY <1>1, UpdatesTyped DEF Validation
<1>5. answer' = [answer EXCEPT ![a] = w]
  BY DEF Tell
<1>6. \/ validation' = [validation EXCEPT ![a] = failed] /\ faults' \in {faults, faults + 1}
      \/ validation' = validation /\ faults' = faults + 1
  BY <1>3 DEF ErrorTransition, Fault
<1>. HIDE DEF failed
<1>7. CASE validation' = [validation EXCEPT ![a] = failed]
           /\ faults' \in {faults, faults + 1}
  <2>1. Finish(o, "failed", failed, w)
    BY <1>4, <1>5, <1>7 DEF Finish, Answer
  <2>. QED
    BY <2>1, FinishInv
<1>8. CASE validation' = validation /\ faults' = faults + 1
  <2>1. faults' # 0
    BY <1>8 DEF PInv, TypeOK
  <2>2. Finish(o, "failed", validation[a], w)
    BY <1>1, <1>2, <1>3, <1>5, <1>8, <2>1 DEF Finish, Answer
  <2>. QED
    BY <2>2, FinishInv
<1>. QED
  BY <1>6, <1>7, <1>8

LEMMA CancelInv ==
  ASSUME PInv, NEW o \in Operations, Cancel(o)
  PROVE  PInv'
<1>1. /\ op[o].pc # "idle" /\ End(o) /\ UNCHANGED <<mission, attempt>>
      /\ crashes' \in Nat /\ cancels' \in Nat
  BY DEF Cancel, PInv, TypeOK
<1>2. CASE op[o].pc = "simulating"
  <2>1. /\ candidate' = [candidate EXCEPT ![op[o].run].result = "failed"]
        /\ ErrorTransition(op[o].attempt)
        /\ Tell(op[o].attempt, "cancelled")
    BY <1>2 DEF Cancel
  <2>. QED
    BY <1>1, <1>2, <2>1, FailedInv
<1>3. CASE op[o].pc # "simulating"
  <2>1. UNCHANGED <<candidate, validation, answer, faults>>
    BY <1>3 DEF Cancel
  <2>. QED
    BY <1>1, <2>1, EndInv
<1>. QED
  BY <1>2, <1>3

----------------------------------------------------------------------------
(* Steps that store an attempt *)

\* An operation that plans knows a session of the mission, whose baseline it
\* read, and a new id is the id of nothing stored.
LEMMA PlanningFacts ==
  ASSUME PInv, NEW o \in Operations, op[o].pc = "planning",
         NEW a \in Attempts, NewId(a)
  PROVE  /\ op[o].session \in Sessions /\ status[op[o].session] \in Eligible
         /\ op[o].read = baseline[op[o].session]
         /\ attempt[a] = NoRecord /\ validation[a] = NoValidation
         /\ answer[a] = "none"
         /\ NewAttempt(o) # NoRecord
         /\ NewAttempt(o) \in Attempt /\ Simulating(o) \in Validation
         /\ \A p \in Operations :
              op[p].pc = "simulating" => op[p].attempt # a
<1>. USE DEF PInv
<1>1. /\ op[o].session \in Sessions /\ status[op[o].session] \in Eligible
      /\ op[o].read = baseline[op[o].session]
  BY DEF ReadIsBaseline
<1>2. /\ attempt[a] = NoRecord /\ validation[a] = NoValidation /\ answer[a] = "none"
  BY DEF NewId, FreshAttempts
<1>3. \A p \in Operations : op[p].session \in Sessions => NewAttempt(p) # NoRecord
  BY PipelineAssumption DEF NewAttempt, NoRecord
<1>4. NewAttempt(o) \in Attempt /\ Simulating(o) \in Validation
  BY <1>1, NewTyped
<1>5. ASSUME NEW p \in Operations, op[p].pc = "simulating" PROVE op[p].attempt # a
  <2>1. op[p].session \in Sessions /\ attempt[op[p].attempt] = NewAttempt(p)
    BY <1>5 DEF ReadIsBaseline, SimulatingOwns, Simulated
  <2>. QED
    BY <1>2, <1>3, <2>1
<1>. QED
  BY <1>1, <1>2, <1>3, <1>4, <1>5

LEMMA LaunchCandidateInv ==
  ASSUME PInv, NEW o \in Operations, NEW a \in Attempts, NEW r \in Runs,
         LaunchCandidate(o, a, r)
  PROVE  PInv'
<1>. USE DEF PInv
<1>. DEFINE k == [op[o] EXCEPT !.pc = "simulating", !.attempt = a, !.run = r]
            c == [candidate[r] EXCEPT !.attempt = a]
<1>1. /\ op[o].pc = "planning" /\ NewId(a)
      /\ owner[r] = Nobody /\ candidate[r] = NotLaunched
      /\ attempt' = [attempt EXCEPT ![a] = NewAttempt(o)]
      /\ validation' = [validation EXCEPT ![a] = Simulating(o)]
      /\ op' = [op EXCEPT ![o] = k]
      /\ candidate' = [candidate EXCEPT ![r] = c]
      /\ UNCHANGED <<status, baseline, owner, guard, answer, faults, crashes, cancels>>
  BY DEF LaunchCandidate, Unused, mission, budget
<1>2. /\ k.pc = "simulating" /\ k.session = op[o].session /\ k.read = op[o].read
      /\ k.attempt = a /\ k.run = r /\ k \in Operation
  <2>1. op[o] \in Operation
    BY DEF TypeOK
  <2>2. k \in Operation
    BY <2>1, UpdatesTyped
  <2>. QED
    BY <2>1, <2>2 DEF Operation
<1>3. c = [attempt |-> a, result |-> "none"] /\ c \in Candidate
  <2>1. c = [attempt |-> a, result |-> "none"]
    BY <1>1 DEF NotLaunched
  <2>. QED
    BY <2>1 DEF Candidate
<1>. HIDE DEF k, c
<1>4. /\ op[o].session \in Sessions /\ status[op[o].session] \in Eligible
      /\ op[o].read = baseline[op[o].session]
      /\ attempt[a] = NoRecord /\ validation[a] = NoValidation
      /\ answer[a] = "none"
      /\ NewAttempt(o) # NoRecord
      /\ NewAttempt(o) \in Attempt /\ Simulating(o) \in Validation
      /\ \A p \in Operations : op[p].pc = "simulating" => op[p].attempt # a
  BY <1>1, PlanningFacts
<1>5. op'[o] = k /\ \A p \in Operations \ {o} : op'[p] = op[p]
  BY <1>1 DEF TypeOK
<1>6. /\ attempt'[a] = NewAttempt(o) /\ validation'[a] = Simulating(o)
      /\ \A b \in Attempts \ {a} :
           attempt'[b] = attempt[b] /\ validation'[b] = validation[b]
  BY <1>1 DEF TypeOK
<1>7. candidate'[r] = c /\ \A y \in Runs \ {r} : candidate'[y] = candidate[y]
  BY <1>1 DEF TypeOK
<1>8. TypeOK'
  BY <1>1, <1>2, <1>3, <1>4 DEF TypeOK
<1>9. GuardsAccounted'
  BY <1>1, <1>2, GuardStay
<1>10. MissionLinked' /\ CandidatesApart'
  BY <1>1, <1>7 DEF MissionLinked, CandidatesApart
<1>11. ReadIsBaseline'
  BY <1>1, <1>2, <1>4, <1>5 DEF ReadIsBaseline
<1>12. OwnersDiffer'
  BY <1>2, <1>4, <1>5 DEF OwnersDiffer
<1>13. SimulatingOwns'
  <2>. SUFFICES ASSUME NEW p \in Operations, op'[p].pc = "simulating"
                PROVE  Simulated(p, op[p].attempt, op[p].run)'
    BY DEF SimulatingOwns, Simulated, NewAttempt, Simulating
  <2>1. CASE p = o
    <3>1. NewAttempt(o)' = NewAttempt(o) /\ Simulating(o)' = Simulating(o)
      BY <1>2, <1>5 DEF NewAttempt, Simulating
    <3>. QED
      BY <1>1, <1>2, <1>3, <1>4, <1>5, <1>6, <1>7, <2>1, <3>1 DEF Simulated
  <2>2. CASE p # o
    <3>1. op'[p] = op[p]
      BY <1>5, <2>2
    <3>2. Simulated(p, op[p].attempt, op[p].run) /\ op[p].attempt # a
      BY <1>4, <3>1 DEF SimulatingOwns
    <3>3. op[p].run # r
      BY <1>1, <3>2, PipelineAssumption DEF Simulated, NotLaunched
    <3>. QED
      BY <1>1, <1>6, <1>7, <3>1, <3>2, <3>3 DEF Simulated, NewAttempt, Simulating
  <2>. QED
    BY <2>1, <2>2
<1>14. FreshAttempts'
  BY <1>4, <1>6 DEF FreshAttempts
<1>15. Simulating(o).status = "SIMULATING"
  BY DEF Simulating
<1>16. ComparisonStands'
  BY <1>1, <1>6, <1>15 DEF ComparisonStands
<1>17. ComparisonLinked'
  <2>. SUFFICES ASSUME NEW b \in Attempts,
                       validation'[b].status = "SIMULATION_COMPLETE"
                PROVE  LET u == validation'[b]
                       IN  /\ u.run \in Runs /\ candidate'[u.run].attempt = b
                           /\ candidate'[u.run].result \in Outcome
                           /\ u.baseline = attempt'[b].baseline /\ u.baseline # u.run
                           /\ u.baseline = baseline[attempt'[b].session]
                           /\ owner[u.baseline] = attempt'[b].session
    BY <1>1 DEF ComparisonLinked
  <2>1. validation'[b] = validation[b] /\ attempt'[b] = attempt[b]
    BY <1>6, <1>15
  <2>2. validation[b].run \in Runs /\ candidate[validation[b].run].attempt = b
    BY <2>1 DEF ComparisonLinked
  <2>3. validation[b].run # r
    BY <1>1, <2>2, PipelineAssumption DEF NotLaunched
  <2>4. candidate'[validation[b].run] = candidate[validation[b].run]
    BY <1>7, <2>2, <2>3
  <2>. QED
    BY <2>1, <2>4 DEF ComparisonLinked
<1>18. AnswerMatchesRecord'
  BY <1>1, <1>4, <1>6 DEF AnswerMatchesRecord
<1>. QED
  BY <1>8, <1>9, <1>10, <1>11, <1>12, <1>13, <1>14, <1>16, <1>17, <1>18

LEMMA LaunchFailsInv ==
  ASSUME PInv, NEW o \in Operations, NEW a \in Attempts, LaunchFails(o, a)
  PROVE  PInv'
<1>. USE DEF PInv
<1>1. /\ op[o].pc = "planning" /\ NewId(a) /\ End(o)
      /\ faults' = faults + 1
      /\ answer' = [answer EXCEPT ![a] = "storage"]
      /\ \/ attempt' = attempt /\ validation' = validation
         \/ /\ attempt' = [attempt EXCEPT ![a] = NewAttempt(o)]
            /\ \/ validation' = validation
               \/ validation' = [validation EXCEPT ![a] = Simulating(o)]
      /\ UNCHANGED <<status, baseline, owner, candidate, crashes, cancels>>
  BY DEF LaunchFails, Fault, Tell, mission
<1>2. /\ op[o].session \in Sessions /\ status[op[o].session] \in Eligible
      /\ attempt[a] = NoRecord /\ validation[a] = NoValidation
      /\ NewAttempt(o) # NoRecord
      /\ NewAttempt(o) \in Attempt /\ Simulating(o) \in Validation
      /\ \A p \in Operations : op[p].pc = "simulating" => op[p].attempt # a
  BY <1>1, PlanningFacts
<1>3. /\ op'[o] = Idle /\ op'[o].pc = "idle"
      /\ \A p \in Operations \ {o} : op'[p] = op[p]
  BY <1>1 DEF End, TypeOK, Idle
<1>4. /\ answer'[a] = "storage"
      /\ validation'[a].status \in {"none", "SIMULATING"}
      /\ attempt'[a] = NoRecord => validation'[a] = NoValidation
      /\ \A b \in Attempts \ {a} : /\ attempt'[b] = attempt[b]
                                   /\ validation'[b] = validation[b]
                                   /\ answer'[b] = answer[b]
  BY <1>1, <1>2 DEF TypeOK, NoValidation, Simulating
<1>5. TypeOK'
  <2>1. op' \in [Operations -> Operation] /\ guard' \in SUBSET Sessions
    BY <1>1, IdleTyped DEF TypeOK, End
  <2>2. attempt' \in [Attempts -> Attempt] /\ validation' \in [Attempts -> Validation]
    BY <1>1, <1>2 DEF TypeOK
  <2>3. answer' \in [Attempts -> Answer]
    BY <1>1 DEF TypeOK, Answer
  <2>. QED
    BY <1>1, <2>1, <2>2, <2>3 DEF TypeOK
<1>6. GuardsAccounted'
  BY <1>1, GuardEnd
<1>7. MissionLinked' /\ CandidatesApart'
  BY <1>1 DEF MissionLinked, CandidatesApart
<1>8. ReadIsBaseline' /\ OwnersDiffer'
  BY <1>1, <1>3 DEF ReadIsBaseline, OwnersDiffer
<1>9. SimulatingOwns'
  <2>. SUFFICES ASSUME NEW p \in Operations, op'[p].pc = "simulating"
                PROVE  Simulated(p, op[p].attempt, op[p].run)'
    BY DEF SimulatingOwns, Simulated, NewAttempt, Simulating
  <2>1. op'[p] = op[p] /\ op[p].attempt # a
    BY <1>2, <1>3
  <2>2. Simulated(p, op[p].attempt, op[p].run)
    BY <2>1 DEF SimulatingOwns
  <2>. QED
    BY <1>1, <1>4, <2>1, <2>2 DEF Simulated, NewAttempt, Simulating
<1>10. FreshAttempts'
  BY <1>4 DEF FreshAttempts
<1>11. \A b \in Attempts : validation'[b].status = "SIMULATION_COMPLETE" =>
                             b # a /\ validation'[b] = validation[b]
                                   /\ attempt'[b] = attempt[b]
  BY <1>4
<1>12. ComparisonStands' /\ ComparisonLinked'
  BY <1>1, <1>11 DEF ComparisonStands, ComparisonLinked
<1>13. AnswerMatchesRecord'
  BY <1>1, <1>4 DEF AnswerMatchesRecord, TypeOK
<1>. QED
  BY <1>5, <1>6, <1>7, <1>8, <1>9, <1>10, <1>12, <1>13

----------------------------------------------------------------------------
(* Every step *)

LEMMA NextInv == PInv /\ [Next]_vars => PInv'
<1>. SUFFICES ASSUME PInv, [Next]_vars PROVE PInv'
  OBVIOUS
<1>1. ASSUME NEW o \in Operations, Proceed(o) PROVE PInv'
  <2>1. CASE LoadContext(o)
    BY <2>1, LoadContextInv
  <2>2. CASE GenerationFails(o)
    <3>1. /\ op[o].pc # "idle" /\ End(o)
          /\ UNCHANGED <<mission, attempt, validation, candidate, answer, faults>>
          /\ crashes' \in Nat /\ cancels' \in Nat
      BY <2>2 DEF GenerationFails, budget, PInv, TypeOK
    <3>. QED
      BY <3>1, EndInv
  <2>3. CASE SimulationFails(o)
    <3>1. /\ op[o].pc = "simulating" /\ End(o)
          /\ candidate' = [candidate EXCEPT ![op[o].run].result = "failed"]
          /\ ErrorTransition(op[o].attempt) /\ Tell(op[o].attempt, "error")
          /\ UNCHANGED <<mission, attempt>>
          /\ crashes' \in Nat /\ cancels' \in Nat
      BY <2>3 DEF SimulationFails, PInv, TypeOK
    <3>. QED
      BY <3>1, FailedInv
  <2>4. ASSUME NEW a \in Attempts, NEW r \in Runs, LaunchCandidate(o, a, r) PROVE PInv'
    BY <2>4, LaunchCandidateInv
  <2>5. ASSUME NEW a \in Attempts, LaunchFails(o, a) PROVE PInv'
    BY <2>5, LaunchFailsInv
  <2>6. ASSUME NEW x \in Outcome, CandidateAccepted(o, x) \/ CandidateUnlinked(o, x)
        PROVE  PInv'
    BY <2>6, AcceptedInv, UnlinkedInv
  <2>. QED
    BY <1>1, <2>1, <2>2, <2>3, <2>4, <2>5, <2>6 DEF Proceed
<1>2. ASSUME NEW o \in Operations, Cancel(o) PROVE PInv'
  BY <1>2, CancelInv
<1>3. ASSUME NEW o \in Operations, NEW s \in Sessions, Begin(o, s) PROVE PInv'
  BY <1>3, BeginInv
<1>4. CASE Crash
  BY <1>4, CrashInv
<1>5. CASE MissionStep
  BY <1>5, MissionStepInv
<1>6. CASE UNCHANGED vars
  <2>. USE <1>6 DEF vars, PInv
  <2>1. TypeOK' /\ GuardsAccounted'
    BY DEF TypeOK, GuardsAccounted
  <2>2. MissionLinked' /\ CandidatesApart' /\ ReadIsBaseline'
    BY DEF MissionLinked, CandidatesApart, ReadIsBaseline
  <2>3. SimulatingOwns' /\ OwnersDiffer' /\ FreshAttempts'
    BY DEF SimulatingOwns, Simulated, NewAttempt, Simulating, OwnersDiffer, FreshAttempts
  <2>4. ComparisonStands' /\ ComparisonLinked' /\ AnswerMatchesRecord'
    BY DEF ComparisonStands, ComparisonLinked, AnswerMatchesRecord
  <2>. QED
    BY <2>1, <2>2, <2>3, <2>4
<1>. QED
  BY <1>1, <1>2, <1>3, <1>4, <1>5, <1>6 DEF Next

LEMMA Inductive == Spec => []PInv
BY InitInv, NextInv, PTL DEF Spec

\* A record that is written was SIMULATING or not there.
LEMMA FinalStep ==
  ASSUME PInv, [Next]_vars
  PROVE  \A a \in Attempts :
           validation[a].status \in Terminal => validation'[a] = validation[a]
<1>. SUFFICES ASSUME NEW b \in Attempts, validation[b].status \in Terminal
              PROVE  validation'[b] = validation[b]
  OBVIOUS
<1>. USE DEF PInv
<1>1. ASSUME NEW o \in Operations, op[o].pc = "simulating"
      PROVE  op[o].attempt # b
  <2>1. validation[op[o].attempt] = Simulating(o)
    BY <1>1 DEF SimulatingOwns, Simulated
  <2>2. Simulating(o).status = "SIMULATING"
    BY DEF Simulating
  <2>. QED
    BY <2>1, <2>2 DEF Terminal
<1>2. ASSUME NEW a \in Attempts, NewId(a) PROVE a # b
  BY <1>2 DEF NewId, FreshAttempts, NoValidation, Terminal
<1>3. \A a, v : a # b /\ validation' = [validation EXCEPT ![a] = v]
                  => validation'[b] = validation[b]
  BY DEF TypeOK
<1>4. ASSUME NEW a, a # b, ErrorTransition(a) PROVE validation'[b] = validation[b]
  <2>1. \/ validation' = validation
        \/ validation' = [validation EXCEPT ![a] = [validation[a] EXCEPT !.status = "ERROR"]]
    BY <1>4 DEF ErrorTransition
  <2>. QED
    BY <1>3, <1>4, <2>1
<1>5. ASSUME NEW o \in Operations, Proceed(o) PROVE validation'[b] = validation[b]
  <2>1. CASE LoadContext(o) \/ GenerationFails(o)
    BY <2>1 DEF LoadContext, GenerationFails
  <2>2. CASE SimulationFails(o)
    BY <1>1, <1>4, <2>2 DEF SimulationFails
  <2>3. ASSUME NEW a \in Attempts, NEW r \in Runs, LaunchCandidate(o, a, r)
        PROVE  validation'[b] = validation[b]
    BY <1>2, <1>3, <2>3 DEF LaunchCandidate
  <2>4. ASSUME NEW a \in Attempts, LaunchFails(o, a)
        PROVE  validation'[b] = validation[b]
    BY <1>2, <1>3, <2>4 DEF LaunchFails
  <2>5. ASSUME NEW x \in Outcome, CandidateAccepted(o, x) \/ CandidateUnlinked(o, x)
        PROVE  validation'[b] = validation[b]
    BY <1>1, <1>3, <2>5 DEF CandidateAccepted, CandidateUnlinked
  <2>. QED
    BY <1>5, <2>1, <2>2, <2>3, <2>4, <2>5 DEF Proceed
<1>6. ASSUME NEW o \in Operations, Cancel(o) PROVE validation'[b] = validation[b]
  BY <1>1, <1>4, <1>6 DEF Cancel
<1>7. ASSUME NEW o \in Operations, NEW s \in Sessions, Begin(o, s)
      PROVE  validation'[b] = validation[b]
  BY <1>7 DEF Begin
<1>8. CASE Crash \/ MissionStep \/ UNCHANGED vars
  BY <1>8 DEF Crash, MissionStep, vars
<1>. QED
  BY <1>5, <1>6, <1>7, <1>8 DEF Next

----------------------------------------------------------------------------
(* What is established *)

\* The files and the operations always have the types of the module, for every
\* number of sessions, runs, operations and attempts.
THEOREM PlanningTyped == Spec => []TypeOK
BY Inductive, PTL DEF PInv

\* _active_sessions holds exactly the sessions of the operations in flight, one
\* operation for each: failures, cancellations and crashes leave no guard behind.
THEOREM GuardsExact == Spec => []GuardsAccounted
BY Inductive, PTL DEF PInv

\* A SIMULATION_COMPLETE record compares its attempt's own run with the baseline
\* its session still has, whatever the mission did while the planner was awaited.
THEOREM ComparisonIsLinked == Spec => []ComparisonLinked
BY Inductive, PTL DEF PInv

\* What generate_and_simulate answered agrees with the stored record.
THEOREM AnswersAgree == Spec => []AnswerMatchesRecord
BY Inductive, PTL DEF PInv

\* No step overwrites a record that is SIMULATION_COMPLETE or ERROR.
THEOREM TerminalStays == Spec => TerminalIsFinal
<1>1. PInv /\ [Next]_vars =>
        [\A a \in Attempts :
           validation[a].status \in Terminal => validation'[a] = validation[a]]_vars
  BY FinalStep
<1>. QED
  BY Inductive, <1>1, PTL DEF Spec, TerminalIsFinal
=============================================================================
