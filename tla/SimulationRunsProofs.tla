------------------------ MODULE SimulationRunsProofs ------------------------
(***************************************************************************)
(* Proofs about SimulationRuns for every set of runs and calls, every      *)
(* capacity and every number of faults, crashes and cancellations.         *)
(***************************************************************************)
EXTENDS SimulationRuns, FiniteSetTheorems, TLAPS

----------------------------------------------------------------------------
(* The inductive invariant *)

\* A call that is not over has a run whose directory waits for its end, whose
\* process is where the call supposes it, and which nobody was answered for.
Attends(k, d, p, a) ==
  /\ d.meta = "created" /\ a = "none"
  /\ k.pc \in {"queued", "spawning"} => p = "none"
  /\ k.pc = "running" => p \in {"alive", "exit0", "exit1"}
  /\ k.pc = "draining" => p \in {"killed", "exit0", "exit1"}

CallsAttend ==
  \A c \in Calls :
    \/ call[c] = Idle
    \/ /\ call[c].pc # "idle" /\ call[c].run \in Runs
       /\ Attends(call[c], run[call[c].run], proc[call[c].run], answer[call[c].run])

\* No two calls have one run.
RunsApart ==
  \A c, d \in Calls : c # d /\ call[c].run = call[d].run => call[c].run = NoRun

\* A run that is closed has no process left that could write, one without
\* metadata never had one; and its answer is what the directory says.
Sound(d, p, a) ==
  /\ d.meta \in {"none", "absent"} => p = "none"
  /\ d.meta = "none" => a = "none"
  /\ d.meta \in {"completed", "failed"} => p \in {"none", "exit0", "exit1"}
  /\ a = "ok" => d.meta = "completed"
  /\ a = "error" => d.meta = "failed"
  /\ a \in {"storage", "cancelled"} => d.meta \in {"absent", "created"}
  /\ d.meta = "completed" => d.result = "valid" /\ d.logs

RunsSound == \A r \in Runs : Sound(run[r], proc[r], answer[r])

Typed ==
  /\ run \in [Runs -> RunDir]
  /\ proc \in [Runs -> Process]
  /\ call \in [Calls -> Call]
  /\ answer \in [Runs -> Answer]

Core == Typed /\ CallsAttend /\ RunsApart /\ RunsSound /\ NoStrayProcess

Counted == tickets \in Nat /\ faults \in Nat /\ crashes \in Nat /\ cancels \in Nat

PermitsHeld ==
  /\ IsFiniteSet(Holding) /\ permits \in Nat
  /\ permits + Cardinality(Holding) = Capacity

RInv == Core /\ Counted /\ PermitsHeld

Closed(d) == d.meta \in {"completed", "failed"}

----------------------------------------------------------------------------
(* Steps of one call and its run *)

\* A call goes on with its run r, begins it or ends it: nobody else has it.
LEMMA CallStep ==
  ASSUME Core, NEW c \in Calls, NEW r \in Runs, NEW k \in Call, NEW d \in RunDir,
         NEW p \in Process, NEW a \in Answer,
         call[c].run = r \/ (call[c].pc = "idle" /\ run[r].meta = "none"),
         call' = [call EXCEPT ![c] = k], run' = [run EXCEPT ![r] = d],
         proc' = [proc EXCEPT ![r] = p], answer' = [answer EXCEPT ![r] = a],
         k = Idle \/ (k.pc # "idle" /\ k.run = r /\ Attends(k, d, p, a)),
         Sound(d, p, a),
         p = "alive" => k.pc = "running" /\ k.run = r
  PROVE  /\ Core'
         /\ ~ Closed(run[r]) /\ \A q \in Runs : q # r => run'[q] = run[q]
<1>1. /\ run \in [Runs -> RunDir] /\ proc \in [Runs -> Process]
      /\ call \in [Calls -> Call] /\ answer \in [Runs -> Answer]
  BY DEF Core, Typed
<1>2. NoRun \notin Runs /\ Idle.run = NoRun /\ Idle.pc = "idle"
  BY RunsAssumption DEF Idle
<1>3. ASSUME NEW e \in Calls, e # c
      PROVE  call'[e] = call[e] /\ call[e].run # r
  <2>1. call'[e] = call[e]
    BY <1>1, <1>3
  <2>2. CASE call[c].run = r
    BY <1>2, <1>3, <2>1, <2>2 DEF Core, RunsApart
  <2>3. CASE run[r].meta = "none"
    BY <1>2, <2>1, <2>3 DEF Core, CallsAttend, Attends
  <2>. QED
    BY <2>2, <2>3, Zenon
<1>4. call'[c] = k /\ run'[r] = d /\ proc'[r] = p /\ answer'[r] = a
  BY <1>1
<1>5. \A q \in Runs : q # r => run'[q] = run[q] /\ proc'[q] = proc[q] /\ answer'[q] = answer[q]
  BY <1>1
<1>6. Typed'
  BY <1>1 DEF Typed
<1>7. CallsAttend'
  <2>1. ASSUME NEW e \in Calls
        PROVE  \/ call'[e] = Idle
               \/ /\ call'[e].pc # "idle" /\ call'[e].run \in Runs
                  /\ Attends(call'[e], run'[call'[e].run], proc'[call'[e].run],
                             answer'[call'[e].run])
    <3>1. CASE e = c
      BY <1>4, <3>1
    <3>2. CASE e # c
      BY <1>3, <1>5, <3>2 DEF Core, CallsAttend
    <3>. QED
      BY <3>1, <3>2
  <2>. QED
    BY <2>1 DEF CallsAttend
<1>8. RunsApart'
  BY <1>2, <1>3, <1>4 DEF Core, RunsApart
<1>9. RunsSound'
  BY <1>4, <1>5 DEF Core, RunsSound
<1>10. NoStrayProcess'
  <2>1. ASSUME NEW q \in Runs, proc'[q] = "alive"
        PROVE  \E e \in Calls : call'[e].run = q /\ call'[e].pc = "running"
    <3>1. CASE q = r
      BY <1>4, <2>1, <3>1
    <3>2. CASE q # r
      <4>1. PICK e \in Calls : call[e].run = q /\ call[e].pc = "running"
        BY <1>5, <2>1, <3>2 DEF Core, NoStrayProcess
      <4>2. e # c
        BY <1>2, <3>2, <4>1
      <4>. QED
        BY <1>3, <4>1, <4>2
    <3>. QED
      BY <3>1, <3>2
  <2>. QED
    BY <2>1 DEF NoStrayProcess
<1>11. ~ Closed(run[r])
  BY <1>2 DEF Core, CallsAttend, Attends, Closed
<1>. QED
  BY <1>5, <1>6, <1>7, <1>8, <1>9, <1>10, <1>11 DEF Core

\* A process goes on on its own, and at most its result file with it.
LEMMA ProcessStep ==
  ASSUME Core, NEW r \in Runs, NEW d \in RunDir, NEW p \in Process,
         UNCHANGED <<call, answer>>,
         run' = [run EXCEPT ![r] = d], proc' = [proc EXCEPT ![r] = p],
         proc[r] \in {"alive", "killed", "orphan"},
         d.meta = run[r].meta,
         p = proc[r] \/ p \in {"exit0", "exit1"}
  PROVE  /\ Core'
         /\ ~ Closed(run[r]) /\ \A q \in Runs : q # r => run'[q] = run[q]
<1>1. /\ run \in [Runs -> RunDir] /\ proc \in [Runs -> Process]
      /\ call \in [Calls -> Call] /\ answer \in [Runs -> Answer]
  BY DEF Core, Typed
<1>2. run'[r] = d /\ proc'[r] = p /\ answer' = answer /\ call' = call
  BY <1>1
<1>3. \A q \in Runs : q # r => run'[q] = run[q] /\ proc'[q] = proc[q]
  BY <1>1
<1>4. Sound(run[r], proc[r], answer[r])
  BY DEF Core, RunsSound
<1>5. ~ Closed(run[r])
  BY <1>4 DEF Sound, Closed
<1>6. Sound(d, p, answer[r])
  BY <1>4, <1>5 DEF Sound, Closed
<1>7. RunsSound'
  BY <1>2, <1>3, <1>6 DEF Core, RunsSound
<1>8. CallsAttend'
  <2>1. ASSUME NEW k \in Call, Attends(k, run[r], proc[r], answer[r]), k.pc # "idle"
        PROVE  Attends(k, d, p, answer[r])
    BY <2>1 DEF Attends, Call
  <2>2. ASSUME NEW e \in Calls, call[e] # Idle
        PROVE  /\ call[e].pc # "idle" /\ call[e].run \in Runs
               /\ Attends(call[e], run'[call[e].run], proc'[call[e].run], answer[call[e].run])
    <3>1. /\ call[e].pc # "idle" /\ call[e].run \in Runs /\ call[e] \in Call
          /\ Attends(call[e], run[call[e].run], proc[call[e].run], answer[call[e].run])
      BY <1>1, <2>2 DEF Core, CallsAttend
    <3>. QED
      BY <1>2, <1>3, <2>1, <3>1
  <2>. QED
    BY <1>2, <2>2 DEF CallsAttend
<1>9. Typed' /\ RunsApart'
  BY <1>1, <1>2 DEF Core, Typed, RunsApart
<1>10. NoStrayProcess'
  BY <1>2, <1>3 DEF Core, NoStrayProcess
<1>. QED
  BY <1>3, <1>5, <1>7, <1>8, <1>9, <1>10 DEF Core

\* What the ends of a run leave: a directory that is closed, or one whose
\* writes were cut short, and an answer that says which.
Leaves(o, dir, result) ==
  /\ o[1] \in RunDir /\ o[2] \in Answer
  /\ \/ o[2] = "ok" /\ o[1].meta = "completed" /\ o[1].logs /\ o[1].result = result
     \/ o[2] = "error" /\ o[1].meta = "failed"
     \/ o[2] = "storage" /\ o[1].meta = "created"

LEMMA EndsOfRun ==
  ASSUME NEW dir \in RunDir, dir.meta = "created", NEW evidence \in BOOLEAN
  PROVE  /\ \A o \in Completed(dir) : Leaves(o, dir, dir.result)
         /\ \A o \in Failed(dir, evidence) : Leaves(o, dir, dir.result)
         /\ \A o \in CutShort(dir, evidence) : Leaves(o, dir, dir.result)
<1>1. ASSUME NEW l \in BOOLEAN
      PROVE  Leaves(<<[dir EXCEPT !.logs = l], "storage">>, dir, dir.result)
  BY <1>1 DEF Leaves, RunDir, Answer
<1>2. ASSUME NEW l \in BOOLEAN
      PROVE  Leaves(<<[dir EXCEPT !.logs = l, !.meta = "failed"], "error">>, dir, dir.result)
  BY <1>2 DEF Leaves, RunDir, Answer
<1>3. Leaves(<<[dir EXCEPT !.logs = TRUE, !.meta = "completed"], "ok">>, dir, dir.result)
  BY DEF Leaves, RunDir, Answer
<1>4. FALSE \in BOOLEAN /\ evidence \in BOOLEAN
  OBVIOUS
<1>. QED
  BY <1>1, <1>2, <1>3, <1>4, Zenon DEF Completed, Failed, CutShort

LEMMA FailedIsFailed ==
  ASSUME NEW dir \in RunDir, NEW evidence \in BOOLEAN, NEW o \in Failed(dir, evidence)
  PROVE  o[1].meta = "failed"
<1>1. o = <<[dir EXCEPT !.logs = evidence, !.meta = "failed"], "error">>
  BY Zenon DEF Failed
<1>2. [dir EXCEPT !.logs = evidence, !.meta = "failed"].meta = "failed"
  BY DEF RunDir
<1>. QED
  BY <1>1, <1>2

Frozen == \A q \in Runs : Closed(run[q]) => run'[q] = run[q]

\* A call ends its run r, at its directory dir, with one of those outcomes.
LEMMA ConcludeStep ==
  ASSUME Core, Counted, NEW c \in Calls, NEW r \in Runs, NEW dir \in RunDir,
         NEW p \in {"none", "exit0", "exit1"}, NEW evidence \in BOOLEAN, NEW outcomes,
         call[c].run = r \/ (call[c].pc = "idle" /\ run[r].meta = "none"),
         dir.meta = "created",
         \A o \in outcomes : Leaves(o, dir, dir.result)
                               /\ (o[1].meta = "completed" => dir.result = "valid"),
         Conclude(r, dir, outcomes, evidence),
         call' = [call EXCEPT ![c] = Idle], proc' = [proc EXCEPT ![r] = p]
  PROVE  Core' /\ Frozen /\ faults' \in Nat
<1>1. \A o \in CutShort(dir, evidence) :
        Leaves(o, dir, dir.result) /\ o[1].meta = "created"
  <2>1. \A l \in BOOLEAN : [dir EXCEPT !.logs = l].meta = "created"
    BY DEF RunDir
  <2>2. {FALSE, evidence} \subseteq BOOLEAN
    OBVIOUS
  <2>3. \A o \in CutShort(dir, evidence) : o[1].meta = "created"
    <3>1. ASSUME NEW o \in CutShort(dir, evidence) PROVE o[1].meta = "created"
      <4>1. PICK l \in {FALSE, evidence} : o = <<[dir EXCEPT !.logs = l], "storage">>
        BY Zenon DEF CutShort
      <4>2. o[1] = [dir EXCEPT !.logs = l]
        BY <4>1
      <4>. QED
        BY <2>1, <2>2, <4>2
    <3>. QED
      BY <3>1
  <2>. QED
    BY <2>3, EndsOfRun
<1>2. PICK o : /\ Leaves(o, dir, dir.result)
               /\ o[1].meta = "completed" => dir.result = "valid"
               /\ run' = [run EXCEPT ![r] = o[1]]
               /\ answer' = [answer EXCEPT ![r] = o[2]]
  BY <1>1 DEF Conclude
<1>3. o[1] \in RunDir /\ o[2] \in Answer /\ p \in Process /\ p # "alive" /\ Idle \in Call
  BY <1>2 DEF Leaves, Process, Idle, Call
<1>4. Sound(o[1], p, o[2])
  BY <1>2 DEF Leaves, Sound
<1>5. Core' /\ ~ Closed(run[r]) /\ \A q \in Runs : q # r => run'[q] = run[q]
  BY <1>2, <1>3, <1>4, CallStep
<1>6. faults' \in Nat
  BY DEF Conclude, Counted
<1>. QED
  BY <1>5, <1>6 DEF Frozen

\* The semaphore's count, when the call c becomes k.
Holds == {"spawning", "running", "draining"}

LEMMA PermitStep ==
  ASSUME PermitsHeld, Typed, NEW c \in Calls, NEW k \in Call,
         call' = [call EXCEPT ![c] = k],
         \/ (k.pc \in Holds <=> call[c].pc \in Holds) /\ permits' = permits
         \/ k.pc \in Holds /\ call[c].pc \notin Holds /\ permits > 0 /\ permits' = permits - 1
         \/ k.pc \notin Holds /\ call[c].pc \in Holds /\ permits' = permits + 1
  PROVE  PermitsHeld'
<1>1. call \in [Calls -> Call] /\ call'[c] = k
      /\ \A e \in Calls : e # c => call'[e] = call[e]
  BY DEF Typed
<1>2. /\ \A e \in Calls : e \in Holding <=> call[e].pc \in Holds
      /\ \A e \in Calls : e \in Holding' <=> call'[e].pc \in Holds
      /\ Holding \subseteq Calls /\ Holding' \subseteq Calls
  BY DEF Holding, Holds
<1>3. IsFiniteSet(Holding) /\ permits \in Nat /\ permits + Cardinality(Holding) = Capacity
      /\ Cardinality(Holding) \in Nat
  BY FS_CardinalityType DEF PermitsHeld
<1>4. CASE (k.pc \in Holds <=> call[c].pc \in Holds) /\ permits' = permits
  <2>1. Holding' = Holding
    BY <1>1, <1>2, <1>4
  <2>. QED
    BY <1>3, <1>4, <2>1 DEF PermitsHeld
<1>5. CASE k.pc \in Holds /\ call[c].pc \notin Holds /\ permits > 0 /\ permits' = permits - 1
  <2>1. Holding' = Holding \cup {c} /\ c \notin Holding
    BY <1>1, <1>2, <1>5
  <2>2. IsFiniteSet(Holding') /\ Cardinality(Holding') = Cardinality(Holding) + 1
    BY <1>3, <2>1, FS_AddElement
  <2>. QED
    BY <1>3, <1>5, <2>2 DEF PermitsHeld
<1>6. CASE k.pc \notin Holds /\ call[c].pc \in Holds /\ permits' = permits + 1
  <2>1. Holding' = Holding \ {c} /\ c \in Holding
    BY <1>1, <1>2, <1>6
  <2>2. IsFiniteSet(Holding') /\ Cardinality(Holding') = Cardinality(Holding) - 1
    BY <1>3, <2>1, FS_RemoveElement
  <2>. QED
    BY <1>3, <1>6, <2>2 DEF PermitsHeld
<1>. QED
  BY <1>4, <1>5, <1>6

\* What a call that is not idle is known to have.
LEMMA Attending ==
  ASSUME Core, NEW c \in Calls, call[c].pc # "idle"
  PROVE  /\ call[c] \in Call /\ call[c].run \in Runs
         /\ run[call[c].run] \in RunDir /\ proc[call[c].run] \in Process
         /\ answer[call[c].run] \in Answer
         /\ Attends(call[c], run[call[c].run], proc[call[c].run], answer[call[c].run])
         /\ Sound(run[call[c].run], proc[call[c].run], answer[call[c].run])
<1>1. call[c] # Idle
  BY DEF Idle
<1>2. call[c].run \in Runs
      /\ Attends(call[c], run[call[c].run], proc[call[c].run], answer[call[c].run])
  BY <1>1 DEF Core, CallsAttend
<1>. QED
  BY <1>2 DEF Core, Typed, RunsSound

\* A function that is left alone is one that is changed to what it is.
LEMMA LeftAlone ==
  ASSUME Typed, NEW r \in Runs
  PROVE  /\ run = [run EXCEPT ![r] = run[r]]
         /\ proc = [proc EXCEPT ![r] = proc[r]]
         /\ answer = [answer EXCEPT ![r] = answer[r]]
BY DEF Typed

LEMMA CallLeftAlone ==
  ASSUME Typed, NEW c \in Calls
  PROVE  call = [call EXCEPT ![c] = call[c]]
BY DEF Typed

\* What a step that touches no call leaves of the semaphore.
LEMMA PermitsAlone ==
  ASSUME PermitsHeld, UNCHANGED <<call, permits>>
  PROVE  PermitsHeld'
BY DEF PermitsHeld, Holding

----------------------------------------------------------------------------
(* Every action *)

LEMMA InitRInv == Init => RInv
<1>. SUFFICES ASSUME Init PROVE RInv
  OBVIOUS
<1>1. Typed
  BY DEF Init, Typed, RunDir, NoDir, Process, Answer, Call, Idle
<1>2. CallsAttend /\ RunsApart
  BY DEF Init, CallsAttend, RunsApart, Idle
<1>3. RunsSound /\ NoStrayProcess
  BY DEF Init, RunsSound, Sound, NoDir, NoStrayProcess
<1>4. Counted
  BY DEF Init, Counted
<1>5. PermitsHeld
  <2>1. Holding = {}
    BY DEF Init, Holding, Idle
  <2>. QED
    BY <2>1, FS_EmptySet, RunsAssumption DEF Init, PermitsHeld
<1>. QED
  BY <1>1, <1>2, <1>3, <1>4, <1>5 DEF RInv, Core

Goes == RInv' /\ Frozen

LEMMA SubmitGoes ==
  ASSUME RInv, NEW c \in Calls, NEW r \in Runs, Submit(c, r)
  PROVE  Goes
<1> DEFINE k == [Idle EXCEPT !.pc = "queued", !.run = r, !.ticket = tickets]
<1>1. Core /\ Counted /\ PermitsHeld /\ Typed /\ RunsSound
  BY DEF RInv, Core
<1>2. call[c].pc = "idle" /\ run[r].meta = "none"
  BY DEF Submit
<1>3. k \in Call /\ k.pc = "queued" /\ k.run = r
  BY <1>1 DEF Call, Idle, Counted
<1>4. Workspace \in RunDir /\ Workspace.meta = "created"
  BY DEF Workspace, NoDir, RunDir
<1>5. proc[r] = "none" /\ answer[r] = "none"
  BY <1>1, <1>2 DEF RunsSound, Sound
<1>6. Attends(k, Workspace, "none", "none") /\ Sound(Workspace, "none", "none")
  BY <1>3, <1>4 DEF Attends, Sound
<1>7. proc' = [proc EXCEPT ![r] = "none"] /\ answer' = [answer EXCEPT ![r] = "none"]
  BY <1>1, <1>5, LeftAlone DEF Submit
<1>8. call' = [call EXCEPT ![c] = k] /\ run' = [run EXCEPT ![r] = Workspace]
  BY DEF Submit
<1>9. "none" \in Process /\ "none" \in Answer
  BY DEF Process, Answer
<1> HIDE DEF k
<1>10. Core' /\ ~ Closed(run[r]) /\ \A q \in Runs : q # r => run'[q] = run[q]
  BY <1>1, <1>2, <1>3, <1>4, <1>6, <1>7, <1>8, <1>9, CallStep
<1>11. Counted'
  BY <1>1 DEF Submit, Counted, budget
<1>12. PermitsHeld'
  BY <1>1, <1>2, <1>3, <1>8, PermitStep DEF Submit, Holds
<1>. QED
  BY <1>10, <1>11, <1>12 DEF Goes, RInv, Frozen

LEMMA WorkspaceFailsGoes ==
  ASSUME RInv, NEW c \in Calls, NEW r \in Runs, WorkspaceFails(c, r)
  PROVE  Goes
<1> DEFINE d == [NoDir EXCEPT !.meta = "absent"]
<1>1. Core /\ Counted /\ PermitsHeld /\ Typed /\ RunsSound /\ CallsAttend
  BY DEF RInv, Core
<1>2. call[c].pc = "idle" /\ run[r].meta = "none"
  BY DEF WorkspaceFails
<1>3. d \in RunDir /\ d.meta = "absent"
  BY DEF NoDir, RunDir
<1>4. proc[r] = "none"
  BY <1>1, <1>2 DEF RunsSound, Sound
<1>5. Sound(d, "none", "storage")
  BY <1>3 DEF Sound
<1>6. call[c] = Idle /\ Idle \in Call
  BY <1>1, <1>2 DEF CallsAttend, Typed
<1>7. /\ call' = [call EXCEPT ![c] = Idle] /\ run' = [run EXCEPT ![r] = d]
      /\ proc' = [proc EXCEPT ![r] = "none"] /\ answer' = [answer EXCEPT ![r] = "storage"]
  BY <1>1, <1>4, <1>6, LeftAlone, CallLeftAlone DEF WorkspaceFails
<1>8. "none" \in Process /\ "storage" \in Answer
  BY DEF Process, Answer
<1> HIDE DEF d
<1>9. Core' /\ ~ Closed(run[r]) /\ \A q \in Runs : q # r => run'[q] = run[q]
  BY <1>1, <1>2, <1>3, <1>5, <1>6, <1>7, <1>8, CallStep
<1>10. Counted' /\ PermitsHeld'
  BY <1>1, PermitsAlone DEF WorkspaceFails, Counted
<1>. QED
  BY <1>9, <1>10 DEF Goes, RInv, Frozen

LEMMA PreconditionFailsGoes ==
  ASSUME RInv, NEW c \in Calls, NEW r \in Runs, PreconditionFails(c, r)
  PROVE  Goes
<1>1. Core /\ Counted /\ PermitsHeld /\ Typed /\ RunsSound /\ CallsAttend
  BY DEF RInv, Core
<1>2. call[c].pc = "idle" /\ run[r].meta = "none"
  BY DEF PreconditionFails
<1>3. Workspace \in RunDir /\ Workspace.meta = "created" /\ FALSE \in BOOLEAN
  BY DEF Workspace, NoDir, RunDir
<1>4. proc[r] = "none"
  BY <1>1, <1>2 DEF RunsSound, Sound
<1>5. call[c] = Idle
  BY <1>1, <1>2 DEF CallsAttend
<1>6. call' = [call EXCEPT ![c] = Idle] /\ proc' = [proc EXCEPT ![r] = "none"]
  BY <1>1, <1>4, <1>5, LeftAlone, CallLeftAlone DEF PreconditionFails
<1>7. \A o \in Failed(Workspace, FALSE) :
        Leaves(o, Workspace, Workspace.result) /\ o[1].meta = "failed"
  BY <1>3, EndsOfRun, FailedIsFailed
<1>8. Conclude(r, Workspace, Failed(Workspace, FALSE), FALSE)
  BY DEF PreconditionFails
<1>9. Core' /\ Frozen /\ faults' \in Nat
  BY <1>1, <1>2, <1>3, <1>6, <1>7, <1>8, ConcludeStep
<1>10. Counted' /\ PermitsHeld'
  BY <1>1, <1>9, PermitsAlone DEF PreconditionFails, Counted
<1>. QED
  BY <1>9, <1>10 DEF Goes, RInv

\* A call goes on: its directory and its answer stay as they are.
LEMMA OnwardStep ==
  ASSUME Core, NEW c \in Calls, call[c].pc # "idle", NEW k \in Call, NEW p \in Process,
         k.pc # "idle", k.run = call[c].run,
         Attends(k, run[call[c].run], p, "none"),
         p = "alive" => k.pc = "running",
         call' = [call EXCEPT ![c] = k], proc' = [proc EXCEPT ![call[c].run] = p],
         UNCHANGED <<run, answer>>
  PROVE  Core' /\ Frozen
<1> DEFINE r == call[c].run
<1>1. /\ Typed /\ r \in Runs /\ run[r] \in RunDir /\ answer[r] = "none"
      /\ answer[r] \in Answer /\ run[r].meta = "created"
  BY Attending DEF Core, Attends
<1>2. run' = [run EXCEPT ![r] = run[r]] /\ answer' = [answer EXCEPT ![r] = "none"]
  BY <1>1, LeftAlone
<1>3. Sound(run[r], p, "none")
  BY <1>1 DEF Sound
<1> HIDE DEF r
<1>4. Core'
  BY <1>1, <1>2, <1>3, CallStep, ZenonT(40) DEF r
<1>. QED
  BY <1>4 DEF Frozen

\* A call is cancelled: it ends, its directory stays as it is.
LEMMA CancelStep ==
  ASSUME Core, NEW c \in Calls, call[c].pc # "idle", CloseCancelled(c),
         NEW p \in Process, p # "alive", proc' = [proc EXCEPT ![call[c].run] = p]
  PROVE  Core' /\ Frozen
<1> DEFINE r == call[c].run
<1>1. /\ Typed /\ r \in Runs /\ run[r] \in RunDir /\ run[r].meta = "created"
      /\ "cancelled" \in Answer /\ Idle \in Call
  BY Attending DEF Core, Attends, Answer, Idle, Call
<1>2. /\ run' = [run EXCEPT ![r] = run[r]] /\ answer' = [answer EXCEPT ![r] = "cancelled"]
      /\ call' = [call EXCEPT ![c] = Idle]
  BY <1>1, LeftAlone DEF CloseCancelled
<1>3. Sound(run[r], p, "cancelled")
  BY <1>1 DEF Sound
<1>4. run' = run
  BY DEF CloseCancelled
<1> HIDE DEF r
<1>5. Core'
  BY <1>1, <1>2, <1>3, CallStep DEF r
<1>. QED
  BY <1>4, <1>5 DEF Frozen

LEMMA AcquireGoes ==
  ASSUME RInv, NEW c \in Calls, Acquire(c)
  PROVE  Goes
<1> DEFINE k == [call[c] EXCEPT !.pc = "spawning"]
<1>1. Core /\ Counted /\ PermitsHeld /\ Typed
  BY DEF RInv, Core
<1>2. call[c].pc = "queued" /\ permits > 0
  BY DEF Acquire, FirstInQueue
<1>3. /\ call[c] \in Call /\ call[c].run \in Runs /\ proc[call[c].run] \in Process
      /\ Attends(call[c], run[call[c].run], proc[call[c].run], answer[call[c].run])
  BY <1>1, <1>2, Attending
<1>4. k \in Call /\ k.pc = "spawning" /\ k.run = call[c].run
  BY <1>3 DEF Call
<1>5. call' = [call EXCEPT ![c] = k]
      /\ proc' = [proc EXCEPT ![call[c].run] = proc[call[c].run]]
  BY <1>1, <1>3, LeftAlone DEF Acquire
<1> HIDE DEF k
<1>6. Attends(k, run[call[c].run], proc[call[c].run], "none")
      /\ proc[call[c].run] = "none"
  BY <1>2, <1>3, <1>4 DEF Attends
<1>7. Core' /\ Frozen
  BY <1>1, <1>2, <1>3, <1>4, <1>5, <1>6, OnwardStep, ZenonT(40) DEF Acquire
<1>8. Counted' /\ PermitsHeld'
  BY <1>1, <1>2, <1>4, <1>5, PermitStep DEF Acquire, Counted, budget, Holds
<1>. QED
  BY <1>7, <1>8 DEF Goes, RInv

LEMMA SpawnedGoes ==
  ASSUME RInv, NEW c \in Calls, Spawned(c)
  PROVE  Goes
<1> DEFINE k == [call[c] EXCEPT !.pc = "running"]
<1>1. Core /\ Counted /\ PermitsHeld /\ Typed
  BY DEF RInv, Core
<1>2. call[c].pc = "spawning"
  BY DEF Spawned
<1>3. /\ call[c] \in Call /\ call[c].run \in Runs
      /\ Attends(call[c], run[call[c].run], proc[call[c].run], answer[call[c].run])
  BY <1>1, <1>2, Attending
<1>4. k \in Call /\ k.pc = "running" /\ k.run = call[c].run /\ "alive" \in Process
  BY <1>3 DEF Call, Process
<1>5. call' = [call EXCEPT ![c] = k]
      /\ proc' = [proc EXCEPT ![call[c].run] = "alive"]
  BY DEF Spawned
<1> HIDE DEF k
<1>6. Attends(k, run[call[c].run], "alive", "none")
  BY <1>2, <1>3, <1>4 DEF Attends
<1>7. Core' /\ Frozen
  BY <1>1, <1>2, <1>4, <1>5, <1>6, OnwardStep DEF Spawned
<1>8. Counted' /\ PermitsHeld'
  BY <1>1, <1>2, <1>4, <1>5, PermitStep DEF Spawned, Counted, budget, Holds
<1>. QED
  BY <1>7, <1>8 DEF Goes, RInv

LEMMA TimeoutGoes ==
  ASSUME RInv, NEW c \in Calls, Timeout(c)
  PROVE  Goes
<1> DEFINE r == call[c].run
           k == [call[c] EXCEPT !.pc = "draining", !.why = "timeout"]
           p == IF proc[r] = "alive" THEN "killed" ELSE proc[r]
<1>1. Core /\ Counted /\ PermitsHeld /\ Typed
  BY DEF RInv, Core
<1>2. call[c].pc = "running"
  BY DEF Timeout
<1>3. /\ call[c] \in Call /\ r \in Runs /\ proc[r] \in Process
      /\ Attends(call[c], run[r], proc[r], answer[r])
  BY <1>1, <1>2, Attending
<1>4. k \in Call /\ k.pc = "draining" /\ k.run = r
  BY <1>3 DEF Call
<1>5. p \in {"killed", "exit0", "exit1"} /\ p \in Process
  BY <1>2, <1>3 DEF Attends, Process
<1>6. call' = [call EXCEPT ![c] = k] /\ proc' = [proc EXCEPT ![r] = p]
  BY <1>1, <1>3 DEF Timeout, Kill, Typed
<1> HIDE DEF k, p
<1>7. Attends(k, run[r], p, "none")
  BY <1>2, <1>3, <1>4, <1>5 DEF Attends
<1>8. Core' /\ Frozen
  BY <1>1, <1>2, <1>4, <1>5, <1>6, <1>7, OnwardStep DEF Timeout
<1>9. Counted' /\ PermitsHeld'
  BY <1>1, <1>2, <1>4, <1>6, PermitStep DEF Timeout, Counted, budget, Holds
<1>. QED
  BY <1>8, <1>9 DEF Goes, RInv

LEMMA SpawnFailsGoes ==
  ASSUME RInv, NEW c \in Calls, SpawnFails(c)
  PROVE  Goes
<1> DEFINE r == call[c].run
<1>1. Core /\ Counted /\ PermitsHeld /\ Typed
  BY DEF RInv, Core
<1>2. call[c].pc = "spawning"
  BY DEF SpawnFails
<1>3. /\ r \in Runs /\ run[r] \in RunDir /\ run[r].meta = "created" /\ proc[r] = "none"
  BY <1>1, <1>2, Attending DEF Attends
<1>4. call' = [call EXCEPT ![c] = Idle] /\ proc' = [proc EXCEPT ![r] = "none"]
      /\ Conclude(r, run[r], Failed(run[r], FALSE), FALSE)
  BY <1>1, <1>3, LeftAlone DEF SpawnFails, Close
<1>5. \A o \in Failed(run[r], FALSE) :
        Leaves(o, run[r], run[r].result) /\ o[1].meta = "failed"
  BY <1>3, EndsOfRun, FailedIsFailed
<1>6. Core' /\ Frozen /\ faults' \in Nat
  <2>1. FALSE \in BOOLEAN
    OBVIOUS
  <2> HIDE DEF r
  <2>. QED
    BY <1>1, <1>3, <1>4, <1>5, <2>1, ConcludeStep, ZenonT(40) DEF r
<1>7. Counted'
  BY <1>1, <1>6 DEF SpawnFails, Counted
<1>8. PermitsHeld'
  BY <1>1, <1>2, <1>4, PermitStep DEF SpawnFails, Release, Holds, Idle, Call
<1>. QED
  BY <1>6, <1>7, <1>8 DEF Goes, RInv

LEMMA FinishGoes ==
  ASSUME RInv, NEW c \in Calls, Finish(c)
  PROVE  Goes
<1> DEFINE r == call[c].run
           outs == IF proc[r] = "exit0" /\ run[r].result = "valid"
                   THEN Completed(run[r]) ELSE Failed(run[r], TRUE)
<1>1. Core /\ Counted /\ PermitsHeld /\ Typed
  BY DEF RInv, Core
<1>2. call[c].pc = "running" /\ proc[r] \in {"exit0", "exit1"}
  BY DEF Finish, Exited
<1>3. /\ r \in Runs /\ run[r] \in RunDir /\ run[r].meta = "created" /\ TRUE \in BOOLEAN
  BY <1>1, <1>2, Attending DEF Attends
<1>4. /\ call' = [call EXCEPT ![c] = Idle] /\ proc' = [proc EXCEPT ![r] = proc[r]]
      /\ Conclude(r, run[r], outs, TRUE)
  BY <1>1, <1>3, LeftAlone DEF Finish, Close
<1>5. \A o \in outs :
        /\ Leaves(o, run[r], run[r].result)
        /\ o[1].meta = "completed" => run[r].result = "valid"
  <2>1. CASE proc[r] = "exit0" /\ run[r].result = "valid"
    BY <1>3, <2>1, EndsOfRun
  <2>2. CASE ~ (proc[r] = "exit0" /\ run[r].result = "valid")
    BY <1>3, <2>2, EndsOfRun, FailedIsFailed
  <2>. QED
    BY <2>1, <2>2
<1> HIDE DEF r, outs
<1>6. Core' /\ Frozen /\ faults' \in Nat
  BY <1>1, <1>2, <1>3, <1>4, <1>5, ConcludeStep DEF r
<1>7. Counted'
  BY <1>1, <1>6 DEF Finish, Counted
<1>8. PermitsHeld'
  BY <1>1, <1>2, <1>4, PermitStep DEF Finish, Release, Holds, Idle, Call
<1>. QED
  BY <1>6, <1>7, <1>8 DEF Goes, RInv

LEMMA DrainEndsGoes ==
  ASSUME RInv, NEW c \in Calls, DrainEnds(c)
  PROVE  Goes
<1> DEFINE r == call[c].run
<1>1. Core /\ Counted /\ PermitsHeld /\ Typed
  BY DEF RInv, Core
<1>2. call[c].pc = "draining" /\ proc[r] \in {"exit0", "exit1"}
  BY DEF DrainEnds, Drained, Exited
<1>3. /\ r \in Runs /\ run[r] \in RunDir /\ run[r].meta = "created" /\ TRUE \in BOOLEAN
      /\ proc[r] \in Process /\ proc[r] # "alive"
  BY <1>1, <1>2, Attending DEF Attends
<1>4. call' = [call EXCEPT ![c] = Idle] /\ proc' = [proc EXCEPT ![r] = proc[r]]
  BY <1>1, <1>3, LeftAlone DEF DrainEnds, Close, CloseCancelled
<1>5. Core' /\ Frozen /\ faults' \in Nat
  <2>1. CASE call[c].why = "timeout"
    <3>1. Conclude(r, run[r], Failed(run[r], TRUE), TRUE)
      BY <2>1 DEF DrainEnds, Close
    <3>2. \A o \in Failed(run[r], TRUE) :
            Leaves(o, run[r], run[r].result) /\ o[1].meta = "failed"
      BY <1>3, EndsOfRun, FailedIsFailed
    <3> HIDE DEF r
    <3>. QED
      BY <1>1, <1>2, <1>3, <1>4, <3>1, <3>2, ConcludeStep, ZenonT(40) DEF r
  <2>2. CASE call[c].why # "timeout"
    <3>1. CloseCancelled(c) /\ faults' = faults
      BY <2>2 DEF DrainEnds
    <3>. QED
      BY <1>1, <1>2, <1>3, <1>4, <3>1, CancelStep DEF Counted
  <2>. QED
    BY <2>1, <2>2
<1>6. Counted'
  BY <1>1, <1>5 DEF DrainEnds, Counted
<1>7. PermitsHeld'
  BY <1>1, <1>2, <1>4, PermitStep DEF DrainEnds, Release, Holds, Idle, Call
<1>. QED
  BY <1>5, <1>6, <1>7 DEF Goes, RInv

LEMMA CancelGoes ==
  ASSUME RInv, NEW c \in Calls, Cancel(c)
  PROVE  Goes
<1> DEFINE r == call[c].run
           p == IF proc[r] = "alive" THEN "killed" ELSE proc[r]
           k == [call[c] EXCEPT !.pc = "draining", !.why = "cancel"]
<1>1. Core /\ Counted /\ PermitsHeld /\ Typed
  BY DEF RInv, Core
<1>2. call[c].pc # "idle"
  BY DEF Cancel, CancelEarly, CancelSupervised, CancelDrain
<1>3. /\ call[c] \in Call /\ r \in Runs /\ proc[r] \in Process
      /\ Attends(call[c], run[r], proc[r], answer[r])
      /\ proc' = proc => proc' = [proc EXCEPT ![r] = proc[r]]
  BY <1>1, <1>2, Attending, LeftAlone
<1>4. Idle.pc \notin Holds /\ Idle \in Call
  BY DEF Idle, Holds, Call
<1>5. ASSUME CloseCancelled(c), proc' = proc, proc[r] # "alive"
      PROVE  Core' /\ Frozen /\ call' = [call EXCEPT ![c] = Idle]
  BY <1>1, <1>2, <1>3, <1>5, CancelStep DEF CloseCancelled
<1>6. CASE CancelEarly(c)
  <2>1. proc[r] # "alive" /\ CloseCancelled(c) /\ proc' = proc
    BY <1>3, <1>6 DEF CancelEarly, Attends
  <2>2. \/ call[c].pc = "spawning" /\ permits' = permits + 1
        \/ call[c].pc = "queued" /\ permits' = permits
    BY <1>6 DEF CancelEarly, Release
  <2>3. PermitsHeld'
    BY <1>1, <1>4, <1>5, <2>1, <2>2, PermitStep DEF Holds
  <2>. QED
    BY <1>1, <1>5, <1>6, <2>1, <2>3 DEF Goes, RInv, Cancel, CancelEarly, Counted
<1>7. CASE CancelSupervised(c)
  <2>1. call[c].pc \in {"running", "draining"} /\ faults' = faults
    BY <1>7 DEF CancelSupervised
  <2>2. CASE Exited(r)
    <3>1. CloseCancelled(c) /\ proc' = proc /\ proc[r] # "alive" /\ permits' = permits + 1
      BY <1>7, <2>2 DEF CancelSupervised, Exited, Release
    <3>2. PermitsHeld'
      BY <1>1, <1>4, <1>5, <2>1, <3>1, PermitStep DEF Holds
    <3>. QED
      BY <1>1, <1>5, <2>1, <3>1, <3>2 DEF Goes, RInv, Cancel, Counted
  <2>3. CASE ~ Exited(r)
    <3>1. /\ Kill(r) /\ call' = [call EXCEPT ![c] = k] /\ UNCHANGED <<run, permits, answer>>
      BY <1>7, <2>3 DEF CancelSupervised
    <3>2. k \in Call /\ k.pc = "draining" /\ k.run = r
      BY <1>3 DEF Call
    <3>3. proc' = [proc EXCEPT ![r] = p]
      BY <1>1, <1>3, <3>1 DEF Kill, Typed
    <3>4. p \in {"killed", "exit0", "exit1"} /\ p \in Process
      BY <1>3, <2>1 DEF Attends, Process
    <3> HIDE DEF k, p
    <3>5. Attends(k, run[r], p, "none")
      BY <1>3, <3>2, <3>4 DEF Attends
    <3>6. Core' /\ Frozen
      BY <1>1, <1>2, <3>1, <3>2, <3>3, <3>4, <3>5, OnwardStep
    <3>7. PermitsHeld'
      BY <1>1, <2>1, <3>1, <3>2, PermitStep DEF Holds
    <3>. QED
      BY <1>1, <2>1, <3>6, <3>7 DEF Goes, RInv, Cancel, Counted
  <2>. QED
    BY <2>2, <2>3
<1>8. CASE CancelDrain(c)
  <2>1. /\ call[c].pc = "draining" /\ CloseCancelled(c) /\ proc' = proc
        /\ permits' = permits + 1 /\ faults' = faults
    BY <1>8 DEF CancelDrain, Release
  <2>2. proc[r] # "alive"
    BY <1>3, <2>1 DEF Attends
  <2>3. PermitsHeld'
    BY <1>1, <1>4, <1>5, <2>1, <2>2, PermitStep DEF Holds
  <2>. QED
    BY <1>1, <1>5, <2>1, <2>2, <2>3 DEF Goes, RInv, Cancel, Counted
<1>. QED
  BY <1>6, <1>7, <1>8 DEF Cancel

LEMMA SimulatorGoes ==
  ASSUME RInv, NEW r \in Runs, SimulatorWrites(r) \/ SimulatorExits(r) \/ KilledExits(r)
  PROVE  Goes
<1>1. Core /\ Counted /\ PermitsHeld /\ Typed
  BY DEF RInv, Core
<1>2. run[r] \in RunDir /\ proc[r] \in Process /\ {"exit0", "exit1"} \subseteq Process
  BY <1>1 DEF Typed, Process
<1>3. Counted' /\ PermitsHeld' /\ call' = call /\ answer' = answer
  BY <1>1, PermitsAlone DEF SimulatorWrites, SimulatorExits, KilledExits, Counted, budget
<1>4. PICK d \in RunDir, p \in Process :
        /\ run' = [run EXCEPT ![r] = d] /\ proc' = [proc EXCEPT ![r] = p]
        /\ proc[r] \in {"alive", "killed", "orphan"}
        /\ d.meta = run[r].meta
        /\ p = proc[r] \/ p \in {"exit0", "exit1"}
  <2>1. CASE SimulatorWrites(r)
    <3>1. PICK x \in {"bad", "valid"} : run' = [run EXCEPT ![r] = [run[r] EXCEPT !.result = x]]
      BY <1>1, <2>1 DEF SimulatorWrites, Typed
    <3>2. [run[r] EXCEPT !.result = x] \in RunDir
          /\ [run[r] EXCEPT !.result = x].meta = run[r].meta
      BY <1>2 DEF RunDir
    <3>3. proc' = [proc EXCEPT ![r] = proc[r]]
          /\ proc[r] \in {"alive", "killed", "orphan"}
      BY <1>1, <2>1, LeftAlone DEF SimulatorWrites
    <3>. QED
      BY <1>2, <3>1, <3>2, <3>3
  <2>2. CASE SimulatorExits(r) \/ KilledExits(r)
    <3>1. PICK p \in {"exit0", "exit1"} : proc' = [proc EXCEPT ![r] = p]
      BY <2>2 DEF SimulatorExits, KilledExits
    <3>2. run' = [run EXCEPT ![r] = run[r]] /\ proc[r] \in {"alive", "killed", "orphan"}
      BY <1>1, <2>2, LeftAlone DEF SimulatorExits, KilledExits
    <3>. QED
      BY <1>2, <3>1, <3>2
  <2>. QED
    BY <2>1, <2>2
<1>5. Core' /\ ~ Closed(run[r]) /\ \A q \in Runs : q # r => run'[q] = run[q]
  BY <1>1, <1>3, <1>4, ProcessStep
<1>. QED
  BY <1>3, <1>5 DEF Goes, RInv, Frozen

LEMMA CrashGoes ==
  ASSUME RInv, Crash
  PROVE  Goes
<1>1. Core /\ Counted /\ Typed /\ RunsSound
  BY DEF RInv, Core
<1>2. /\ \A c \in Calls : call'[c] = Idle
      /\ \A r \in Runs : proc'[r] = IF proc[r] = "alive" THEN "orphan" ELSE proc[r]
      /\ run' = run /\ answer' = answer
  BY DEF Crash
<1>3. Typed'
  <2>1. Idle \in Call
    BY DEF Idle, Call
  <2>2. \A r \in Runs : (IF proc[r] = "alive" THEN "orphan" ELSE proc[r]) \in Process
    BY <1>1 DEF Typed, Process
  <2>. QED
    BY <1>1, <2>1, <2>2 DEF Crash, Typed
<1>4. CallsAttend' /\ RunsApart' /\ NoStrayProcess'
  BY <1>2 DEF CallsAttend, RunsApart, NoStrayProcess, Idle
<1>5. RunsSound'
  BY <1>1, <1>2 DEF RunsSound, Sound
<1>6. Counted'
  BY <1>1 DEF Crash, Counted
<1>7. PermitsHeld'
  <2>1. Holding' = {}
    BY <1>2 DEF Holding, Idle
  <2>. QED
    BY <2>1, FS_EmptySet, RunsAssumption DEF Crash, PermitsHeld
<1>. QED
  BY <1>2, <1>3, <1>4, <1>5, <1>6, <1>7 DEF Goes, RInv, Core, Frozen

LEMMA NextGoes == RInv /\ [Next]_vars => Goes
<1>. SUFFICES ASSUME RInv, [Next]_vars PROVE Goes
  OBVIOUS
<1>1. ASSUME NEW c \in Calls, Serve(c) PROVE Goes
  BY <1>1, AcquireGoes, SpawnedGoes, SpawnFailsGoes, FinishGoes, TimeoutGoes,
     DrainEndsGoes DEF Serve
<1>2. ASSUME NEW c \in Calls, Cancel(c) PROVE Goes
  BY <1>2, CancelGoes
<1>3. ASSUME NEW c \in Calls, NEW r \in Runs,
             Submit(c, r) \/ WorkspaceFails(c, r) \/ PreconditionFails(c, r)
      PROVE  Goes
  BY <1>3, SubmitGoes, WorkspaceFailsGoes, PreconditionFailsGoes
<1>4. ASSUME NEW r \in Runs, SimulatorWrites(r) \/ SimulatorExits(r) \/ KilledExits(r)
      PROVE  Goes
  BY <1>4, SimulatorGoes
<1>5. CASE Crash
  BY <1>5, CrashGoes
<1>6. CASE UNCHANGED vars
  BY <1>6 DEF vars, Goes, Frozen, RInv, Core, Typed, CallsAttend, RunsApart, RunsSound,
              NoStrayProcess, Counted, PermitsHeld, Holding
<1>. QED
  BY <1>1, <1>2, <1>3, <1>4, <1>5, <1>6 DEF Next

LEMMA Invariance == Spec => []RInv
<1>1. RInv /\ [Next]_vars => RInv'
  BY NextGoes DEF Goes
<1>. QED
  BY InitRInv, <1>1, PTL DEF Spec

----------------------------------------------------------------------------
(* The theorems *)

\* Run directories, processes, calls and answers keep their types, and the
\* semaphore's count stays between zero and max_concurrent_runs.
THEOREM RunsTyped == Spec => []TypeOK
<1>1. RInv => TypeOK
  <2>. SUFFICES ASSUME RInv PROVE TypeOK
    OBVIOUS
  <2>1. Cardinality(Holding) \in Nat /\ permits \in Nat
        /\ permits + Cardinality(Holding) = Capacity
    BY FS_CardinalityType DEF RInv, PermitsHeld
  <2>2. permits \in 0 .. Capacity
    BY <2>1, RunsAssumption
  <2>. QED
    BY <2>2 DEF RInv, Core, Typed, Counted, TypeOK
<1>. QED
  BY Invariance, <1>1, PTL

\* Every living simulator is awaited by a call that holds a permit, and no two
\* by the same one: there are no more of them than permits taken.
LEMMA SimulatorsHoldPermits ==
  ASSUME RInv
  PROVE  Cardinality({r \in Runs : proc[r] = "alive"}) <= Capacity
<1> DEFINE Alive   == {r \in Runs : proc[r] = "alive"}
           Waiting == {c \in Calls : call[c].pc = "running" /\ call[c].run \in Alive}
           of      == [c \in Waiting |-> call[c].run]
<1>1. IsFiniteSet(Holding) /\ Cardinality(Holding) \in Nat /\ permits \in Nat
      /\ permits + Cardinality(Holding) = Capacity
  BY FS_CardinalityType DEF RInv, PermitsHeld
<1>2. Waiting \subseteq Holding
  BY DEF Holding
<1>3. IsFiniteSet(Waiting) /\ Cardinality(Waiting) <= Cardinality(Holding)
  BY <1>1, <1>2, FS_Subset
<1>4. of \in Surjection(Waiting, Alive)
  <2>1. of \in [Waiting -> Alive]
    OBVIOUS
  <2>2. \A r \in Alive : \E c \in Waiting : of[c] = r
    BY DEF RInv, Core, NoStrayProcess
  <2>. QED
    BY <2>1, <2>2, Zenon DEF Surjection
<1>5. IsFiniteSet(Alive) /\ Cardinality(Alive) <= Cardinality(Waiting)
  BY <1>3, <1>4, FS_Surjection
<1>6. Cardinality(Alive) \in Nat /\ Cardinality(Waiting) \in Nat
  BY <1>3, <1>5, FS_CardinalityType
<1>. QED
  BY <1>1, <1>3, <1>5, <1>6, RunsAssumption

\* However calls end, fail, time out or are cancelled, no permit is lost or
\* given back twice, there are never more living simulators than the semaphore
\* allows, and each is awaited by the call that started it.
THEOREM PermitsAndProcesses == Spec => []ResourcesHeld
<1>1. RInv => ResourcesHeld
  BY SimulatorsHoldPermits DEF RInv, Core, PermitsHeld, PermitsAccounted, ResourcesHeld
<1>. QED
  BY Invariance, <1>1, PTL

\* What the caller of run_simulation was answered is what the run directory
\* says, whichever write failed and whenever the call was cut off.
THEOREM AnswersTrue == Spec => []AnswerMatchesRun
<1>1. RInv => AnswerMatchesRun
  BY DEF RInv, Core, RunsSound, Sound, AnswerMatchesRun
<1>. QED
  BY Invariance, <1>1, PTL

\* No step changes a run whose closing metadata is written: not a later call,
\* not a restart, not a late write of a simulator that was killed or orphaned.
THEOREM ClosedStayFrozen == Spec => ClosedRunsFrozen
<1>1. RInv /\ [Next]_vars
        => [\A r \in Runs : run[r].meta \in {"completed", "failed"} => run'[r] = run[r]]_vars
  BY NextGoes DEF Goes, Frozen, Closed
<1>. QED
  BY Invariance, <1>1, PTL DEF Spec, ClosedRunsFrozen

=============================================================================
