---------------------------- MODULE Intake_proofs ----------------------------
(***************************************************************************)
(* Proofs about Intake, for every configuration of repositories, windows,   *)
(* deliveries and requests, and any TTL.                                    *)
(***************************************************************************)
EXTENDS Intake, FiniteSetTheorems, WellFoundedInduction, TLAPS

\* The newest issue of a page is there (NextIssue).
LEMMA Newest ==
  ASSUME NEW S \in SUBSET Nat, IsFiniteSet(S), S # {}
  PROVE  \E m \in S : \A i \in S : m >= i
<1> DEFINE HasMax(T) == \E m \in T : \A i \in T : m >= i
<1> DEFINE W == {T \in SUBSET S : T # {} /\ ~HasMax(T)}
<1> DEFINE R == StrictSubsetOrdering(S)
<1> SUFFICES ASSUME W # {} PROVE FALSE
  OBVIOUS
<1>1. IsWellFoundedOn(R, SUBSET S)
  BY FS_StrictSubsetOrderingWellFounded, FS_FiniteSubsetsOfFinite
<1>2. \E T \in W : \A V \in W : ~(<<V, T>> \in R)
  <2>1. W \subseteq SUBSET S
    OBVIOUS
  <2> HIDE DEF W, R
  <2> QED BY <1>1, <2>1, WFMin, Zenon
<1>3. PICK T \in W : \A V \in W : ~(<<V, T>> \in R)
  BY <1>2, Zenon
<1>4. PICK x \in T : TRUE
  OBVIOUS
<1> DEFINE V == T \ {x}
<1>5. <<V, T>> \in R
  BY <1>4 DEF StrictSubsetOrdering
<1>6. V = {} \/ HasMax(V)
  BY <1>3, <1>5
<1>7. CASE V = {}
  <2>1. \A i \in T : i = x
    BY <1>7
  <2> QED BY <1>4, <2>1
<1>8. CASE HasMax(V)
  <2>1. PICK y \in V : \A i \in V : y >= i
    BY <1>8
  <2>2. x \in Nat /\ y \in Nat /\ T \subseteq Nat /\ y \in T
    BY <1>4
  <2>3. CASE x >= y
    <3>1. \A i \in T : x >= i
      BY <2>1, <2>2, <2>3
    <3> QED BY <1>4, <3>1
  <2>4. CASE ~(x >= y)
    <3>1. \A i \in T : y >= i
      BY <2>1, <2>2, <2>4
    <3> QED BY <2>2, <3>1
  <2> QED BY <2>3, <2>4
<1> QED BY <1>6, <1>7, <1>8

LEMMA NextIssueIn == ASSUME TypeOK, page # {} PROVE NextIssue \in page
<1>1. page \in SUBSET Nat /\ IsFiniteSet(page)
  BY IntakeAssumption, FS_Subset DEF TypeOK
<1>2. \E m \in page : \A i \in page : m >= i
  BY <1>1, Newest
<1> QED BY <1>2 DEF NextIssue

-----------------------------------------------------------------------------
(* Types                                                                    *)

LEMMA CreateType ==
  ASSUME TypeOK, NEW i \in Issues, NEW s \in Sources, Create(i, s)
  PROVE  tasks' \in [Issues -> [Sources -> Nat]] /\ known' \subseteq Issues
  BY DEF Create, TypeOK

LEMMA StartType ==
  ASSUME TypeOK, NEW c \in Calls, NEW s \in Deliveries \cup {API}, NEW i \in Issues \cup {NoIssue},
         NEW label \in {"idle", "exists", "gate", "duplicate", "create"},
         (label = "idle") <=> (i = NoIssue), label = "exists" => s # API,
         Start(c, s, i, label)
  PROVE  /\ pc' \in [Calls -> {"idle", "exists", "gate", "duplicate", "create"}]
         /\ source' \in [Calls -> Deliveries \cup {API}]
         /\ about' \in [Calls -> Issues \cup {NoIssue}]
         /\ \A e \in Calls : /\ (pc'[e] = "idle") <=> (about'[e] = NoIssue)
                             /\ pc'[e] = "exists" => source'[e] # API
<1>1. \A e \in Calls : pc'[e] = IF e = c THEN label ELSE pc[e]
  BY DEF Start, TypeOK
<1>2. \A e \in Calls : source'[e] = IF e = c THEN s ELSE source[e]
  BY DEF Start, TypeOK
<1>3. \A e \in Calls : about'[e] = IF e = c THEN i ELSE about[e]
  BY DEF Start, TypeOK
<1>4. /\ pc' \in [Calls -> {"idle", "exists", "gate", "duplicate", "create"}]
      /\ source' \in [Calls -> Deliveries \cup {API}]
      /\ about' \in [Calls -> Issues \cup {NoIssue}]
  BY DEF Start, TypeOK
<1> QED BY <1>1, <1>2, <1>3, <1>4 DEF TypeOK

LEMMA GotoType ==
  ASSUME TypeOK, NEW c \in Calls, pc[c] # "idle", NEW label \in {"gate", "duplicate", "create"},
         Goto(c, label)
  PROVE  /\ pc' \in [Calls -> {"idle", "exists", "gate", "duplicate", "create"}]
         /\ source' \in [Calls -> Deliveries \cup {API}]
         /\ about' \in [Calls -> Issues \cup {NoIssue}]
         /\ \A e \in Calls : /\ (pc'[e] = "idle") <=> (about'[e] = NoIssue)
                             /\ pc'[e] = "exists" => source'[e] # API
  BY DEF Goto, TypeOK

LEMMA AnswerType ==
  ASSUME TypeOK, NEW c \in Calls, Answer(c)
  PROVE  /\ pc' \in [Calls -> {"idle", "exists", "gate", "duplicate", "create"}]
         /\ source' \in [Calls -> Deliveries \cup {API}]
         /\ about' \in [Calls -> Issues \cup {NoIssue}]
         /\ \A e \in Calls : /\ (pc'[e] = "idle") <=> (about'[e] = NoIssue)
                             /\ pc'[e] = "exists" => source'[e] # API
  BY StartType DEF Answer

\* A call that is not idle has an issue.
LEMMA AboutIssue ==
  ASSUME TypeOK, NEW c \in Calls, pc[c] # "idle"
  PROVE  about[c] \in Issues /\ source[c] \in Sources
  BY DEF TypeOK, Sources

LEMMA TypeInit == Init => TypeOK
<1> SUFFICES ASSUME Init PROVE TypeOK
  OBVIOUS
<1>1. 0 \in 0..(Week - 1) /\ 0 \in 0..TTL /\ 0 \in 0..MaxCrashes
  BY IntakeAssumption
<1>2. tasks \in [Issues -> [Sources -> Nat]]
  BY DEF Init
<1> QED BY <1>1, <1>2 DEF Init, TypeOK

LEMMA TypeNext == TypeOK /\ [Next]_vars => TypeOK'
<1> SUFFICES ASSUME TypeOK, [Next]_vars PROVE TypeOK'
  OBVIOUS
<1> USE IntakeAssumption DEF env, calls, poller
<1>1. CASE AdvanceClock
  <2>1. now' \in 0..(Week - 1)
    BY <1>1 DEF AdvanceClock, TypeOK
  <2>2. cache' \in [Deliveries -> 0..TTL]
    <3>1. \A d \in Deliveries : cache[d] \in 0..TTL
      BY DEF TypeOK
    <3> QED BY <1>1, <3>1 DEF AdvanceClock
  <2> QED BY <1>1, <2>1, <2>2 DEF AdvanceClock, TypeOK
<1>2. CASE Crash
  BY <1>2 DEF Crash, TypeOK
<1>3. ASSUME NEW enabled \in BOOLEAN, SetFullMode(enabled) PROVE TypeOK'
  BY <1>3 DEF SetFullMode, TypeOK
<1>4. ASSUME NEW i \in Issues, OpenIssue(i) \/ CloseIssue(i) PROVE TypeOK'
  BY <1>4 DEF OpenIssue, CloseIssue, TypeOK
<1>5. ASSUME NEW i \in Issues, NEW s \in Sources, TaskEnds(i, s) PROVE TypeOK'
  <2>1. tasks' \in [Issues -> [Sources -> Nat]]
    <3>1. tasks[i][s] - 1 \in Nat
      BY <1>5 DEF TaskEnds, TypeOK
    <3> QED BY <1>5, <3>1 DEF TaskEnds, TypeOK
  <2> QED BY <1>5, <2>1 DEF TaskEnds, TypeOK
<1>6. ASSUME NEW c \in Calls, NEW d \in Deliveries, Deliver(c, d) PROVE TypeOK'
  <2>1. cache' \in [Deliveries -> 0..TTL]
    BY <1>6 DEF Deliver, CheckAndAdd, TypeOK
  <2>2. CASE IssueOf[d] = NoIssue
    BY <1>6, <2>1, <2>2 DEF Deliver, TypeOK
  <2>3. CASE IssueOf[d] # NoIssue
    <3>1. Start(c, d, IssueOf[d], "exists") /\ IssueOf[d] \in Issues /\ d # API
      BY <1>6, <2>3 DEF Deliver
    <3> QED BY <1>6, <2>1, <2>3, <3>1, StartType DEF Deliver, TypeOK
  <2> QED BY <2>2, <2>3
<1>7. ASSUME NEW c \in Calls, NEW i \in Issues, Request(c, i) PROVE TypeOK'
  BY <1>7, StartType DEF Request, TypeOK
<1>8. ASSUME NEW c \in Calls, CheckExists(c) \/ Gate(c) \/ CheckDuplicate(c) PROVE TypeOK'
  <2>1. /\ pc[c] # "idle"
        /\ Answer(c) \/ \E label \in {"gate", "duplicate", "create"} : Goto(c, label)
        /\ UNCHANGED <<env, fullMode, tasks, known, cache, poller, crashes>>
    BY <1>8 DEF CheckExists, Gate, CheckDuplicate
  <2> QED BY <2>1, AnswerType, GotoType DEF TypeOK
<1>9. ASSUME NEW c \in Calls, CreateTask(c) PROVE TypeOK'
  <2>1. Answer(c) /\ UNCHANGED <<env, fullMode, cache, poller, crashes>>
    BY <1>9 DEF CreateTask
  <2>2. about[c] \in Issues /\ source[c] \in Sources
    BY <1>9, AboutIssue DEF CreateTask
  <2>3. tasks' \in [Issues -> [Sources -> Nat]] /\ known' \subseteq Issues
    BY <1>9, <2>2, CreateType DEF CreateTask, TypeOK
  <2> QED BY <2>1, <2>3, AnswerType DEF TypeOK
<1>10. CASE StartPoll
  BY <1>10 DEF StartPoll, TypeOK
<1>11. CASE List
  <2>1. repos' \subseteq Repos /\ page' \subseteq Issues /\ poll' \in {"idle", "list", "issues"}
    BY <1>11 DEF List, FirstPage, TypeOK
  <2> QED BY <1>11, <2>1 DEF List, TypeOK
<1>12. CASE PollIssue
  <2>1. page # {} => NextIssue \in Issues
    BY NextIssueIn DEF TypeOK
  <2> QED BY <1>12, <2>1 DEF PollIssue, TypeOK
<1>13. CASE PollCreate
  <2>1. picked \in Issues /\ Poll \in Sources
    BY <1>13 DEF PollCreate, TypeOK, Sources
  <2>2. tasks' \in [Issues -> [Sources -> Nat]] /\ known' \subseteq Issues
    BY <1>13, <2>1, CreateType DEF PollCreate, TypeOK
  <2> QED BY <1>13, <2>2 DEF PollCreate, TypeOK
<1>14. CASE UNCHANGED vars
  BY <1>14 DEF vars, TypeOK
<1> QED BY <1>1, <1>2, <1>3, <1>4, <1>5, <1>6, <1>7, <1>8, <1>9, <1>10, <1>11, <1>12, <1>13, <1>14
    DEF Next

\* Requests, the poller, crashes and the clock keep the types, for any sets of
\* repositories, issues, deliveries and calls.
THEOREM TypeCorrect == Spec => []TypeOK
  BY TypeInit, TypeNext, PTL DEF Spec
-----------------------------------------------------------------------------
(* One live task from a source                                              *)

\* The id of a delivery is known while a request for it is going on.
Remembered == \A c \in Calls : pc[c] # "idle" /\ source[c] \in Deliveries => cache[source[c]] > 0

\* No two requests are for the same delivery.
Alone ==
  \A c, e \in Calls :
    pc[c] # "idle" /\ pc[e] # "idle" /\ source[c] = source[e] /\ source[c] \in Deliveries => c = e

\* What was found missing is still missing when it is inserted.
Missing ==
  /\ \A c \in Calls : pc[c] = "create" /\ source[c] \in Deliveries => tasks[about[c]][source[c]] = 0
  /\ picked \in Issues => tasks[picked][Poll] = 0

IOnce ==
  /\ TypeOK
  /\ Remembered
  /\ Alone
  /\ Missing
  /\ SourceOnce

LEMMA OnceInit == Init => IOnce
<1> SUFFICES ASSUME Init PROVE IOnce
  OBVIOUS
<1>1. TypeOK /\ picked \notin Issues
  BY TypeInit, IntakeAssumption DEF Init
<1> QED BY <1>1 DEF Init, IOnce, Remembered, Alone, Missing, SourceOnce

\* A request that goes on, or is answered, is no new one.
LEMMA RequestsShrink ==
  ASSUME TypeOK, Remembered, Alone, NEW c \in Calls, pc[c] # "idle",
         Answer(c) \/ \E label \in {"gate", "duplicate", "create"} : Goto(c, label),
         UNCHANGED cache
  PROVE  /\ Remembered' /\ Alone'
         /\ \A e \in Calls : pc'[e] # "idle" =>
              pc[e] # "idle" /\ source'[e] = source[e] /\ about'[e] = about[e] /\ (e # c => pc'[e] = pc[e])
<1>1. \A e \in Calls : pc'[e] # "idle" =>
        pc[e] # "idle" /\ source'[e] = source[e] /\ about'[e] = about[e] /\ (e # c => pc'[e] = pc[e])
  BY DEF Answer, Start, Goto, TypeOK
<1> QED BY <1>1 DEF Remembered, Alone

\* A row more, of a source that had none for this issue.
LEMMA CreateOnce ==
  ASSUME TypeOK, SourceOnce, NEW i \in Issues, NEW s \in Sources,
         s # API => tasks[i][s] = 0, Create(i, s)
  PROVE  /\ SourceOnce'
         /\ \A j \in Issues, z \in Sources : j # i \/ z # s => tasks'[j][z] = tasks[j][z]
<1>1. \A j \in Issues, z \in Sources :
        tasks'[j][z] = IF j = i /\ z = s THEN tasks[i][s] + 1 ELSE tasks[j][z]
  BY DEF Create, TypeOK
<1>2. \A j \in Issues, z \in Sources : tasks[j][z] \in Nat
  BY DEF TypeOK
<1> QED BY <1>1, <1>2 DEF SourceOnce

LEMMA NoneExists ==
  ASSUME TypeOK, NEW i \in Issues, ~Exists(i), NEW s \in Sources
  PROVE  tasks[i][s] = 0
  BY DEF Exists, TypeOK

LEMMA OnceNext ==
  ASSUME ~SlowCalls, IOnce, [Next]_vars
  PROVE  IOnce'
<1> USE DEF env, calls, poller
<1>1. TypeOK /\ TypeOK' /\ Remembered /\ Alone /\ Missing /\ SourceOnce
  BY TypeNext DEF IOnce
<1>2. ASSUME Remembered', Alone', Missing', SourceOnce' PROVE IOnce'
  BY <1>1, <1>2 DEF IOnce
<1>3. CASE AdvanceClock
  <2>1. Remembered'
    <3> SUFFICES ASSUME NEW c \in Calls, pc[c] # "idle", source[c] \in Deliveries
                 PROVE  cache'[source[c]] > 0
      BY <1>3 DEF AdvanceClock, Remembered
    <3>1. cache[source[c]] > 0 /\ cache[source[c]] # 1 /\ cache[source[c]] \in Nat
      BY <1>1, <1>3 DEF AdvanceClock, Remembered, InFlight, TypeOK
    <3>2. cache'[source[c]] = cache[source[c]] - 1
      BY <1>3, <3>1 DEF AdvanceClock
    <3> QED BY <3>1, <3>2
  <2> QED BY <1>1, <1>2, <1>3, <2>1 DEF AdvanceClock, Alone, Missing, SourceOnce
<1>4. CASE Crash
  BY <1>1, <1>2, <1>4, IntakeAssumption DEF Crash, Remembered, Alone, Missing, SourceOnce
<1>5. CASE /\ UNCHANGED <<tasks, cache, pc, source, about>>
           /\ picked' = picked \/ picked' \notin Issues
  BY <1>1, <1>2, <1>5 DEF Remembered, Alone, Missing, SourceOnce
<1>6. ASSUME NEW i \in Issues, NEW s \in Sources, TaskEnds(i, s) PROVE IOnce'
  <2>1. \A j \in Issues, z \in Sources :
          tasks'[j][z] = IF j = i /\ z = s THEN tasks[i][s] - 1 ELSE tasks[j][z]
    BY <1>1, <1>6 DEF TaskEnds, TypeOK
  <2>2. \A j \in Issues, z \in Sources : tasks[j][z] \in Nat
    BY <1>1 DEF TypeOK
  <2>3. SourceOnce'
    BY <1>1, <2>1, <2>2 DEF SourceOnce
  <2>4. \A j \in Issues, z \in Sources : tasks[j][z] = 0 => tasks'[j][z] = 0
    BY <1>6, <2>1 DEF TaskEnds
  <2>5. /\ UNCHANGED <<cache, pc, source, about, picked>>
        /\ \A c \in Calls : pc[c] = "create" => about[c] \in Issues /\ source[c] \in Sources
        /\ Poll \in Sources
    BY <1>1, <1>6, AboutIssue DEF TaskEnds, Sources
  <2>6. Missing'
    BY <1>1, <2>4, <2>5 DEF Missing
  <2> QED BY <1>1, <1>2, <2>3, <2>5, <2>6 DEF Remembered, Alone
<1>7. ASSUME NEW c \in Calls, NEW d \in Deliveries, Deliver(c, d) PROVE IOnce'
  <2>1. /\ pc[c] = "idle" /\ cache[d] = 0 /\ cache' = [cache EXCEPT ![d] = TTL]
        /\ UNCHANGED <<tasks, picked>>
    BY <1>7 DEF Deliver, CheckAndAdd
  <2>2. \A b \in Deliveries : cache[b] > 0 => cache'[b] > 0
    BY <1>1, <2>1, IntakeAssumption DEF TypeOK
  <2>3. CASE UNCHANGED calls
    BY <1>1, <1>2, <2>1, <2>2, <2>3 DEF Remembered, Alone, Missing, SourceOnce
  <2>4. CASE Start(c, d, IssueOf[d], "exists")
    <3>1. \A e \in Calls : /\ pc'[e] = IF e = c THEN "exists" ELSE pc[e]
                           /\ source'[e] = IF e = c THEN d ELSE source[e]
                           /\ e # c => about'[e] = about[e]
      BY <1>1, <2>4 DEF Start, TypeOK
    <3>2. cache'[d] > 0
      BY <1>1, <2>1, IntakeAssumption DEF TypeOK
    <3>3. \A e \in Calls : pc[e] # "idle" => source[e] # d
      BY <1>1, <2>1 DEF Remembered
    <3>4. Remembered'
      BY <1>1, <2>2, <3>1, <3>2 DEF Remembered
    <3>5. Alone'
      BY <1>1, <3>1, <3>3 DEF Alone
    <3> QED BY <1>1, <1>2, <2>1, <3>1, <3>4, <3>5 DEF Missing, SourceOnce
  <2> QED BY <1>7, <2>3, <2>4 DEF Deliver
<1>8. ASSUME NEW c \in Calls, NEW i \in Issues, Request(c, i) PROVE IOnce'
  <2>1. \A e \in Calls : /\ pc'[e] = IF e = c THEN "gate" ELSE pc[e]
                         /\ source'[e] = IF e = c THEN API ELSE source[e]
                         /\ e # c => about'[e] = about[e]
    BY <1>1, <1>8 DEF Request, Start, TypeOK
  <2>2. API \notin Deliveries /\ UNCHANGED <<tasks, cache, picked>>
    BY <1>8, IntakeAssumption DEF Request
  <2> QED BY <1>1, <1>2, <2>1, <2>2 DEF Remembered, Alone, Missing, SourceOnce
<1>9. ASSUME NEW c \in Calls, CheckExists(c) \/ Gate(c) \/ CheckDuplicate(c) PROVE IOnce'
  <2>1. /\ pc[c] # "idle"
        /\ Answer(c) \/ \E label \in {"gate", "duplicate", "create"} : Goto(c, label)
        /\ UNCHANGED <<tasks, cache, picked>>
    BY <1>9 DEF CheckExists, Gate, CheckDuplicate
  <2>2. /\ Remembered' /\ Alone'
        /\ \A e \in Calls : pc'[e] # "idle" =>
             pc[e] # "idle" /\ source'[e] = source[e] /\ about'[e] = about[e] /\ (e # c => pc'[e] = pc[e])
    BY <1>1, <2>1, RequestsShrink
  <2>3. pc'[c] = "create" => ~Exists(about[c])
    BY <1>1, <1>9 DEF CheckExists, Gate, CheckDuplicate, Goto, Answer, Start, TypeOK
  <2>4. pc'[c] = "create" => tasks[about[c]][source[c]] = 0
    BY <1>1, <2>1, <2>3, AboutIssue, NoneExists
  <2>5. Missing'
    BY <1>1, <2>1, <2>2, <2>4 DEF Missing
  <2> QED BY <1>1, <1>2, <2>1, <2>2, <2>5 DEF SourceOnce
<1>10. ASSUME NEW c \in Calls, CreateTask(c) PROVE IOnce'
  <2>1. /\ pc[c] = "create" /\ Answer(c) /\ UNCHANGED <<cache, picked>>
        /\ Create(about[c], source[c]) \/ UNCHANGED tasks
    BY <1>10 DEF CreateTask
  <2>2. /\ about[c] \in Issues /\ source[c] \in Sources /\ source[c] \in Deliveries \cup {API}
        /\ source[c] # Poll
    BY <1>1, <2>1, AboutIssue, IntakeAssumption DEF TypeOK
  <2>3. /\ Remembered' /\ Alone'
        /\ \A e \in Calls : pc'[e] # "idle" =>
             pc[e] # "idle" /\ source'[e] = source[e] /\ about'[e] = about[e] /\ (e # c => pc'[e] = pc[e])
    BY <1>1, <2>1, RequestsShrink
  <2>4. pc'[c] = "idle"
    BY <1>1, <2>1 DEF Answer, Start, TypeOK
  <2>5. CASE UNCHANGED tasks
    BY <1>1, <1>2, <2>1, <2>3, <2>4, <2>5 DEF Missing, SourceOnce
  <2>6. CASE Create(about[c], source[c])
    <3>1. source[c] # API => tasks[about[c]][source[c]] = 0
      BY <1>1, <2>1, <2>2 DEF Missing
    <3>2. /\ SourceOnce'
          /\ \A j \in Issues, z \in Sources : j # about[c] \/ z # source[c] => tasks'[j][z] = tasks[j][z]
      BY <1>1, <2>2, <2>6, <3>1, CreateOnce
    <3>3. ASSUME NEW e \in Calls, pc'[e] = "create", source'[e] \in Deliveries
          PROVE  tasks'[about'[e]][source'[e]] = 0
      <4>1. e # c /\ pc[e] = "create" /\ source'[e] = source[e] /\ about'[e] = about[e]
        BY <2>3, <2>4, <3>3
      <4>2. source[e] # source[c]
        BY <1>1, <2>1, <3>3, <4>1 DEF Alone
      <4>3. about[e] \in Issues /\ source[e] \in Sources
        BY <1>1, <4>1, AboutIssue
      <4>4. tasks[about[e]][source[e]] = 0
        BY <1>1, <3>3, <4>1 DEF Missing
      <4> QED BY <3>2, <4>1, <4>2, <4>3, <4>4
    <3>4. picked' \in Issues => tasks'[picked'][Poll] = 0
      BY <1>1, <2>1, <2>2, <3>2 DEF Missing, Sources
    <3> QED BY <1>2, <2>3, <3>2, <3>3, <3>4 DEF Missing
  <2> QED BY <2>1, <2>5, <2>6
<1>11. CASE PollIssue
  <2>1. /\ UNCHANGED <<tasks, cache, pc, source, about>>
        /\ picked' = picked \/ (picked' = NextIssue /\ page # {} /\ ~Exists(NextIssue))
    BY <1>11 DEF PollIssue
  <2>2. CASE picked' = NextIssue /\ page # {} /\ ~Exists(NextIssue)
    <3>1. NextIssue \in Issues /\ Poll \in Sources
      BY <1>1, <2>2, NextIssueIn DEF TypeOK, Sources
    <3>2. tasks[NextIssue][Poll] = 0
      BY <1>1, <2>2, <3>1, NoneExists
    <3>3. Missing'
      BY <1>1, <2>1, <2>2, <3>2 DEF Missing
    <3> QED BY <1>1, <1>2, <2>1, <3>3 DEF Remembered, Alone, SourceOnce
  <2> QED BY <1>5, <2>1, <2>2
<1>12. CASE PollCreate
  <2>1. /\ picked \in Issues /\ Poll \in Sources /\ picked' = NoIssue
        /\ UNCHANGED <<cache, pc, source, about>>
        /\ Create(picked, Poll) \/ UNCHANGED tasks
    BY <1>1, <1>12 DEF PollCreate, Sources, TypeOK
  <2>2. CASE UNCHANGED tasks
    BY <1>5, <2>1, <2>2, IntakeAssumption
  <2>3. CASE Create(picked, Poll)
    <3>1. /\ SourceOnce'
          /\ \A j \in Issues, z \in Sources : j # picked \/ z # Poll => tasks'[j][z] = tasks[j][z]
      BY <1>1, <2>1, <2>3, CreateOnce DEF Missing
    <3>2. \A e \in Calls : pc[e] = "create" =>
            about[e] \in Issues /\ source[e] \in Sources /\ (source[e] \in Deliveries => source[e] # Poll)
      BY <1>1, AboutIssue, IntakeAssumption
    <3>3. Missing'
      BY <1>1, <2>1, <3>1, <3>2, IntakeAssumption DEF Missing
    <3> QED BY <1>1, <1>2, <2>1, <3>1, <3>3 DEF Remembered, Alone
  <2> QED BY <2>1, <2>2, <2>3
<1>13. ASSUME \/ \E enabled \in BOOLEAN : SetFullMode(enabled)
              \/ \E i \in Issues : OpenIssue(i) \/ CloseIssue(i)
              \/ StartPoll \/ List \/ UNCHANGED vars
       PROVE  IOnce'
  <2>1. UNCHANGED <<tasks, cache, pc, source, about, picked>>
    BY <1>13 DEF SetFullMode, OpenIssue, CloseIssue, StartPoll, List, vars
  <2> QED BY <1>5, <2>1
<1> QED BY <1>3, <1>4, <1>6, <1>7, <1>8, <1>9, <1>10, <1>11, <1>12, <1>13 DEF Next

\* A delivery and the poller have at most one live task each for an issue,
\* through redeliveries, lapsed entries of the cache, restarts and statements that
\* fail, when no request outlives the TTL (CheckAndAdd, HandleWebhook,
\* EnqueueFromIssue, Poller).
THEOREM SourcesOnce == ASSUME ~SlowCalls PROVE Spec => []SourceOnce
<1>1. IOnce => SourceOnce
  BY DEF IOnce
<1>2. IOnce /\ [Next]_vars => IOnce'
  BY OnceNext
<1> QED BY <1>1, <1>2, OnceInit, PTL DEF Spec
=============================================================================
