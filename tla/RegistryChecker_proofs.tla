----------------------- MODULE RegistryChecker_proofs -----------------------
(***************************************************************************)
(* Theorems about RegistryChecker, for any callers, names, budget and      *)
(* number of retries.  The argument: the mutex keeps one goroutine inside  *)
(* Check, so what get compares still holds when it adds, what the first    *)
(* query heard still holds when the second one is judged, and no request   *)
(* comes between another one and its pause.                                *)
(***************************************************************************)
EXTENDS RegistryChecker, FiniteSetTheorems, TLAPS

\* A goroutine is between get and the end of Check exactly when it holds the
\* mutex, and it is then at one of its names; past get's look at the attempts,
\* it has one left.
Exclusive ==
  \A c \in Callers :
    /\ pc[c] \in Holding <=> lock = c
    /\ pc[c] \in Holding \union {"locking"} => at[c] \in Positions(c)
    /\ pc[c] \in Holding \ {"asking"} => attempt[c] < MaxRetries

\* The room that get found for a request is still there when it counts it.
Room ==
  /\ WithinBudget
  /\ \A c \in Callers : pc[c] = "admitted" /\ MaxRequests > 0 => requests < MaxRequests

\* A name owned when its check began is still owned; once the check has heard
\* a 404 for it, the registry has no stale one left to give, and the check has
\* not heard two.
Heard ==
  \A c \in Callers : lock = c /\ Name(c) \in before =>
    /\ Name(c) \in owned
    /\ first[c] => stale[Name(c)] = 0
    /\ pc[c] = "pausing" /\ code[c] = 404 => stale[Name(c)] = 0 /\ ~first[c]

\* Only a goroutine whose latest request is not paused for keeps it unrested.
Paced ==
  ended = {} /\ ~rested =>
    \E c \in Callers : pc[c] \in {"sent", "backoff", "pausing"}

IInv == TypeOK /\ Exclusive /\ Room

\* The verdicts, and what each one takes.
LEMMA VerdictCases ==
  ASSUME NEW again \in BOOLEAN, NEW status \in Statuses
  PROVE  /\ VerdictOf(again, status) \in Verdicts
         /\ VerdictOf(again, status) = "unregistered" => again /\ status = 404
<1>1. CASE status = 200  BY <1>1 DEF VerdictOf, Verdicts
<1>2. CASE status = 404 /\ again  BY <1>2 DEF VerdictOf, Verdicts
<1>3. CASE status # 200 /\ ~(status = 404 /\ again)
  <2>1. VerdictOf(again, status) = "inconclusive"  BY <1>3 DEF VerdictOf
  <2> QED BY <2>1 DEF Verdicts
<1> QED BY <1>1, <1>2, <1>3

-----------------------------------------------------------------------------
(* The inductive invariant.                                                *)

\* A checker starts in the invariant.
LEMMA InitIInv == Init => IInv
<1> SUFFICES ASSUME Init PROVE IInv  OBVIOUS
<1> USE CheckerAssumption DEF Init, CheckerAssumption
<1>1. TypeOK
  BY DEF TypeOK, NoReport, Statuses, Holding
<1>2. Exclusive
  BY DEF Exclusive, Holding
<1>3. Room
  BY DEF Room, WithinBudget
<1> QED BY <1>1, <1>2, <1>3 DEF IInv

\* What the end of a check does to the invariant.
LEMMA ConcludeKeeps ==
  ASSUME IInv, NEW c \in Callers, pc[c] \in Holding, NEW verdict \in Verdicts,
         Conclude(c, verdict),
         attempt' \in [Callers -> 0 .. MaxRetries], first' \in [Callers -> BOOLEAN],
         rested' \in BOOLEAN,
         UNCHANGED <<registry, requests, ended, code, outcome, before>>
  PROVE  IInv'
<1> USE CheckerAssumption DEF IInv, CheckerAssumption
<1>a. lock = c /\ at[c] \in Positions(c)  BY DEF Exclusive
<1>b. Name(c) \in Names  BY <1>a DEF Name, Positions
<1>1. TypeOK'
  <2>1. at' \in [Callers -> Nat \ {0}] /\ \A d \in Callers : at'[d] <= Len(Selected[d]) + 1
    <3>1. at[c] \in Nat /\ at[c] + 1 <= Len(Selected[c]) + 1
      BY <1>a DEF TypeOK, Positions
    <3>2. at' = [at EXCEPT ![c] = at[c] + 1] /\ at \in [Callers -> Nat \ {0}]
      BY DEF TypeOK, Conclude
    <3>3. ASSUME NEW d \in Callers PROVE at'[d] <= Len(Selected[d]) + 1
      <4>1. CASE d = c  BY <4>1, <3>1, <3>2
      <4>2. CASE d # c  BY <4>2, <3>2 DEF TypeOK
      <4> QED BY <4>1, <4>2
    <3>4. at' \in [Callers -> Nat \ {0}]  BY <3>1, <3>2
    <3> QED BY <3>3, <3>4
  <2>2. report' \in [Callers -> [Verdicts -> Nat]]
    BY DEF TypeOK, Conclude
  <2>3. written' \in [Callers -> SUBSET Names]
    BY <1>b DEF TypeOK, Conclude
  <2>4. pc' \in [Callers -> Holding \union {"next", "locking", "done"}]
    BY DEF TypeOK, Conclude
  <2> QED BY <2>1, <2>2, <2>3, <2>4 DEF TypeOK, Conclude, registry
<1>2. Exclusive'
  BY <1>a DEF Exclusive, TypeOK, Conclude, Holding, Positions
<1>3. Room'
  BY DEF Room, WithinBudget, TypeOK, Conclude
<1> QED BY <1>1, <1>2, <1>3

\* Every step of every goroutine, and of the registry, keeps it.
LEMMA NextIInv == IInv /\ [Next]_vars => IInv'
<1> SUFFICES ASSUME IInv, [Next]_vars PROVE IInv'  OBVIOUS
<1> USE CheckerAssumption DEF IInv, CheckerAssumption
<1>s. ASSUME UNCHANGED vars PROVE IInv'
  BY <1>s DEF vars, TypeOK, Exclusive, Room, WithinBudget, Name, Positions, Holding
<1>r. ASSUME NEW n \in Names, Register(n) PROVE IInv'
  BY <1>r DEF Register, TypeOK, Exclusive, Room, WithinBudget, Name, Positions, Holding,
     get, run
<1>e. ASSUME NEW c \in Callers, ContextEnds(c) PROVE IInv'
  BY <1>e DEF ContextEnds, TypeOK, Exclusive, Room, WithinBudget, Name, Positions, Holding,
     get, run, registry
<1>c. ASSUME NEW c \in Callers, Step(c) PROVE IInv'
  <2>1. CASE Assemble(c) \/ NoticeEnd(c)
    <3>0. /\ pc[c] = "next" /\ pc' = [pc EXCEPT ![c] = "done"]
          /\ \E what \in {"feed", "context_error"} :
                outcome' = [outcome EXCEPT ![c] = what]
          /\ UNCHANGED <<registry, lock, requests, ended, at, first, get, report,
                         written, before, rested>>
      BY <2>1 DEF Assemble, NoticeEnd, Return
    <3>1. TypeOK'  BY <3>0 DEF TypeOK, registry, get
    <3>2. Exclusive'
      <4>1. pc'[c] = "done" /\ \A d \in Callers \ {c} : pc'[d] = pc[d]
        BY <3>0 DEF TypeOK
      <4>2. lock' = lock /\ lock # c /\ at' = at /\ attempt' = attempt
        BY <3>0 DEF Exclusive, Holding, get
      <4>3. ASSUME NEW d \in Callers \ {c}
            PROVE  /\ pc'[d] \in Holding <=> lock' = d
                   /\ pc'[d] \in Holding \union {"locking"} => at'[d] \in Positions(d)
                   /\ pc'[d] \in Holding \ {"asking"} => attempt'[d] < MaxRetries
        BY <4>1, <4>2 DEF Exclusive
      <4> QED BY <4>1, <4>2, <4>3 DEF Exclusive, Holding
    <3>3. Room'  BY <3>0 DEF TypeOK, Room, WithinBudget
    <3> QED BY <3>1, <3>2, <3>3
  <2>2. CASE BeginCheck(c)
    BY <2>2 DEF BeginCheck, TypeOK, Exclusive, Room, WithinBudget, Positions, Holding,
       get, run, registry
  <2>3. CASE Lock(c)
    <3> USE <2>3 DEF Lock, MayLock, Free
    <3>1. TypeOK'  BY DEF TypeOK, Holding, registry, run
    <3>2. Exclusive'  BY DEF TypeOK, Exclusive, Holding, Positions
    <3>3. Room'  BY DEF TypeOK, Room, WithinBudget
    <3> QED BY <3>1, <3>2, <3>3
  <2>4. CASE RetriesExhausted(c)
    <3>1. pc[c] \in Holding  BY <2>4 DEF RetriesExhausted, Holding
    <3> QED BY <2>4, <3>1, ConcludeKeeps
            DEF RetriesExhausted, Verdicts, get, TypeOK
  <2>5. CASE BudgetExhausted(c)
    <3> USE <2>5 DEF BudgetExhausted, BudgetError, Return
    <3>1. TypeOK'  BY DEF TypeOK, registry, get
    <3>2. Exclusive'  BY DEF TypeOK, Exclusive, Holding, Positions
    <3>3. Room'  BY DEF TypeOK, Room, WithinBudget
    <3> QED BY <3>1, <3>2, <3>3
  <2>6. CASE Admit(c)
    <3> USE <2>6 DEF Admit, AttemptsLeft
    <3>1. TypeOK'  BY DEF TypeOK, Holding, registry, get, run
    <3>2. Exclusive'  BY DEF TypeOK, Exclusive, Holding, Positions, get
    <3>3. Room'  BY DEF TypeOK, Room, WithinBudget, Spent
    <3> QED BY <3>1, <3>2, <3>3
  <2>7. CASE Send(c)
    <3> USE <2>7 DEF Send
    <3>1. TypeOK'
      <4>1. requests' \in Nat  BY DEF TypeOK
      <4>2. pc' \in [Callers -> Holding \union {"next", "locking", "done"}]
        BY DEF TypeOK, Holding
      <4> QED BY <4>1, <4>2 DEF TypeOK, registry, get, run
    <3>2. Exclusive'  BY DEF TypeOK, Exclusive, Holding, Positions, get
    <3>3. Room'
      <4>1. \A d \in Callers : pc'[d] # "admitted"
        BY DEF TypeOK, Exclusive, Holding
      <4> QED BY <4>1 DEF TypeOK, Room, WithinBudget
    <3> QED BY <3>1, <3>2, <3>3
  <2>8. CASE TransportError(c)
    <3> USE <2>8 DEF TransportError
    <3>1. TypeOK'  BY DEF TypeOK, Holding, registry, get, run
    <3>2. Exclusive'  BY DEF TypeOK, Exclusive, Holding, Positions, get
    <3>3. Room'  BY DEF TypeOK, Room, WithinBudget
    <3> QED BY <3>1, <3>2, <3>3
  <2>9. ASSUME NEW status \in Statuses, Answer(c, status) PROVE IInv'
    <3>0. /\ pc[c] = "sent"
          /\ \E label \in {"backoff", "pausing"} : pc' = [pc EXCEPT ![c] = label]
          /\ code' = [code EXCEPT ![c] = status]
          /\ UNCHANGED <<owned, lock, requests, ended, at, first, attempt, report,
                         written, outcome, before, rested>>
      BY <2>9 DEF Answer, run
    <3>1. TypeOK'
      <4>1. Name(c) \in Names
        BY <3>0 DEF Exclusive, Holding, Name, Positions
      <4>2. stale' \in [Names -> 0 .. Staleness]
        <5>1. status = 404 /\ Name(c) \in owned => stale[Name(c)] > 0
          BY <2>9 DEF Answer, Answers
        <5>2. stale' = IF status = 404 /\ Name(c) \in owned
                       THEN [stale EXCEPT ![Name(c)] = stale[Name(c)] - 1] ELSE stale
          BY <2>9 DEF Answer
        <5>3. stale \in [Names -> 0 .. Staleness]
          BY DEF TypeOK
        <5> QED BY <4>1, <5>1, <5>2, <5>3
      <4>3. pc' \in [Callers -> Holding \union {"next", "locking", "done"}]
        BY <3>0 DEF TypeOK, Holding
      <4>4. code' \in [Callers -> Statuses]
        BY <3>0 DEF TypeOK
      <4> QED BY <3>0, <4>2, <4>3, <4>4 DEF TypeOK
    <3>2. Exclusive'  BY <3>0 DEF TypeOK, Exclusive, Holding, Positions
    <3>3. Room'  BY <3>0 DEF TypeOK, Room, WithinBudget
    <3> QED BY <3>1, <3>2, <3>3
  <2>10. CASE BackoffOver(c)
    <3> USE <2>10 DEF BackoffOver, NextAttempt
    <3>1. TypeOK'
      <4>1. attempt' \in [Callers -> 0 .. MaxRetries]
        <5>1. attempt[c] \in 0 .. MaxRetries /\ attempt[c] < MaxRetries
          BY DEF TypeOK, Exclusive, Holding
        <5> QED BY <5>1 DEF TypeOK
      <4>2. pc' \in [Callers -> Holding \union {"next", "locking", "done"}]
        BY DEF TypeOK, Holding
      <4> QED BY <4>1, <4>2 DEF TypeOK, registry, run
    <3>2. Exclusive'  BY DEF TypeOK, Exclusive, Holding, Positions
    <3>3. Room'  BY DEF TypeOK, Room, WithinBudget
    <3> QED BY <3>1, <3>2, <3>3
  <2>11. CASE BackoffCut(c)
    <3> USE <2>11 DEF BackoffCut, Return
    <3>1. TypeOK'  BY DEF TypeOK, registry, get
    <3>2. Exclusive'  BY DEF TypeOK, Exclusive, Holding, Positions
    <3>3. Room'  BY DEF TypeOK, Room, WithinBudget
    <3> QED BY <3>1, <3>2, <3>3
  <2>12. CASE Pause(c)
    <3>1. pc[c] \in Holding  BY <2>12 DEF Pause, Holding
    <3>2. rested' \in BOOLEAN  BY <2>12 DEF Pause, TypeOK
    <3>3. CASE code[c] = 404 /\ ~first[c]
      <4>0. /\ first' = [first EXCEPT ![c] = TRUE]
            /\ attempt' = [attempt EXCEPT ![c] = 0]
            /\ pc' = [pc EXCEPT ![c] = "asking"]
            /\ UNCHANGED <<lock, at, report, written>>
            /\ UNCHANGED <<registry, requests, ended, code, outcome, before>>
        BY <2>12, <3>3, Zenon DEF Pause
      <4>1. TypeOK'
        <5>1. pc' \in [Callers -> Holding \union {"next", "locking", "done"}]
          BY <4>0 DEF TypeOK, Holding
        <5>2. attempt' \in [Callers -> 0 .. MaxRetries]  BY <4>0 DEF TypeOK
        <5>3. first' \in [Callers -> BOOLEAN]  BY <4>0 DEF TypeOK
        <5> QED BY <4>0, <3>2, <5>1, <5>2, <5>3 DEF TypeOK, registry
      <4>2. Exclusive'  BY <4>0, <3>1 DEF TypeOK, Exclusive, Holding, Positions
      <4>3. Room'  BY <4>0 DEF TypeOK, Room, WithinBudget
      <4> QED BY <4>1, <4>2, <4>3
    <3>4. CASE ~(code[c] = 404 /\ ~first[c])
      <4>1. VerdictOf(first[c], code[c]) \in Verdicts  BY VerdictCases DEF TypeOK
      <4> QED BY <2>12, <3>1, <3>2, <3>4, <4>1, ConcludeKeeps DEF Pause, TypeOK
    <3> QED BY <3>3, <3>4
  <2> QED BY <1>c, <2>1, <2>2, <2>3, <2>4, <2>5, <2>6, <2>7, <2>8, <2>9, <2>10, <2>11, <2>12
          DEF Step
<1> QED BY <1>s, <1>r, <1>e, <1>c DEF Next

\* The mutex excludes and an admitted request has room, always.
THEOREM Invariance == Spec => []IInv
BY InitIInv, NextIInv, PTL DEF Spec

\* Every variable keeps its kind.
THEOREM TypeCorrect == Spec => []TypeOK
BY Invariance, PTL DEF IInv

\* The requests of all the goroutines together never pass the cap, for any
\* number of them (checker.go:70-72).
THEOREM BudgetHolds == Spec => []WithinBudget
BY Invariance, PTL DEF IInv, Room

-----------------------------------------------------------------------------
(* No owner is accused.                                                    *)

\* Which steps write a name, and what they have heard.
LEMMA WritesAreHeard ==
  ASSUME IInv, Next, NEW c \in Callers, NEW n \in written'[c] \ written[c]
  PROVE  /\ pc[c] = "pausing" /\ lock = c /\ n = Name(c)
         /\ first[c] /\ code[c] = 404
<1> USE DEF IInv
<1>1. PICK d \in Callers : Step(d)
  <2>1. written' # written  OBVIOUS
  <2> QED BY <2>1 DEF Next, ContextEnds, Register, run
<1>2. CASE RetriesExhausted(d)
  BY <1>2 DEF RetriesExhausted, Conclude
<1>3. CASE Pause(d)
  <2>1. ~(code[d] = 404 /\ ~first[d])
    BY <1>3 DEF Pause
  <2>2. Conclude(d, VerdictOf(first[d], code[d]))
    BY <1>3, <2>1 DEF Pause
  <2>3. VerdictOf(first[d], code[d]) = "unregistered"
    BY <2>2 DEF Conclude
  <2>4. written' = [written EXCEPT ![d] = @ \union {Name(d)}]
    BY <2>2, <2>3 DEF Conclude
  <2>5. c = d /\ n = Name(d)
    BY <2>4 DEF TypeOK
  <2>6. first[d] /\ code[d] = 404
    BY <2>3, VerdictCases DEF TypeOK
  <2>7. pc[d] = "pausing" /\ lock = d
    BY <1>3 DEF Pause, Exclusive, Holding
  <2> QED BY <2>5, <2>6, <2>7
<1>4. CASE ~RetriesExhausted(d) /\ ~Pause(d)
  BY <1>1, <1>4 DEF Step, Assemble, NoticeEnd, BeginCheck, Lock, BudgetExhausted, Admit, Send,
     TransportError, Answer, BackoffOver, BackoffCut, run
<1> QED BY <1>2, <1>3, <1>4

\* Nothing was heard before the first request.
LEMMA HeardInit == Init => Heard
BY CheckerAssumption DEF Init, Heard, CheckerAssumption

\* Every step keeps what was heard and the stale answers left in balance.
LEMMA HeardStep ==
  ASSUME Staleness <= 1, IInv, Heard, [Next]_vars
  PROVE  Heard'
<1> USE CheckerAssumption DEF IInv, CheckerAssumption
<1> SUFFICES ASSUME NEW c \in Callers, lock' = c, Name(c)' \in before'
             PROVE  /\ Name(c)' \in owned'
                    /\ first'[c] => stale'[Name(c)'] = 0
                    /\ pc'[c] = "pausing" /\ code'[c] = 404 =>
                         stale'[Name(c)'] = 0 /\ ~first'[c]
  BY DEF Heard
<1>s. CASE UNCHANGED vars
  BY <1>s DEF vars, Heard, Name
<1>r. ASSUME NEW n \in Names, Register(n) PROVE Heard'
  BY <1>r DEF Register, Heard, Name, TypeOK, get
<1>e. ASSUME NEW d \in Callers, ContextEnds(d) PROVE Heard'
  BY <1>e DEF ContextEnds, Heard, Name, registry, get
<1>c. ASSUME NEW d \in Callers, Step(d) PROVE Heard'
  <2>1. CASE Assemble(d) \/ NoticeEnd(d) \/ BeginCheck(d)
    <3>1. lock' = lock /\ at' = at /\ before' = before /\ owned' = owned /\ stale' = stale
            /\ first' = first /\ code' = code
      BY <2>1 DEF Assemble, NoticeEnd, BeginCheck, registry, get
    <3>2. \A e \in Callers : pc'[e] = "pausing" => pc[e] = "pausing"
      BY <2>1 DEF Assemble, NoticeEnd, BeginCheck, Return, TypeOK
    <3> QED BY <3>1, <3>2 DEF Heard, Name
  <2>2. CASE Lock(d)
    BY <2>2 DEF Lock, Heard, Name, TypeOK, registry
  <2>3. CASE RetriesExhausted(d)
    BY <2>3 DEF RetriesExhausted, Conclude, Heard
  <2>4. CASE BudgetExhausted(d) \/ BackoffCut(d)
    BY <2>4 DEF BudgetExhausted, BackoffCut, Heard
  <2>5. CASE Admit(d) \/ Send(d) \/ TransportError(d)
    <3>1. lock' = lock /\ at' = at /\ before' = before /\ owned' = owned /\ stale' = stale
            /\ first' = first /\ code' = code
      BY <2>5 DEF Admit, Send, TransportError, registry, get
    <3>2. \A e \in Callers : pc'[e] = "pausing" => pc[e] = "pausing"
      BY <2>5 DEF Admit, Send, TransportError, TypeOK
    <3> QED BY <3>1, <3>2 DEF Heard, Name
  <2>6. CASE BackoffOver(d)
    BY <2>6 DEF BackoffOver, Heard, Name, TypeOK, registry
  <2>7. ASSUME NEW status \in Statuses, Answer(d, status) PROVE Heard'
    <3>1. lock = d /\ at[d] \in Positions(d)  BY <2>7 DEF Answer, Exclusive, Holding
    <3>2. Name(d) \in Names  BY <3>1 DEF Name, Positions
    <3>3. lock' = lock /\ at' = at /\ before' = before /\ owned' = owned /\ first' = first
      BY <2>7 DEF Answer
    <3>4. code'[d] = status  BY <2>7 DEF Answer, TypeOK
    <3>5. stale'[Name(d)] = IF status = 404 /\ Name(d) \in owned
                            THEN stale[Name(d)] - 1 ELSE stale[Name(d)]
      BY <2>7, <3>2 DEF Answer, TypeOK
    <3>6. status = 404 /\ Name(d) \in owned => stale[Name(d)] = 1
      BY <2>7, <3>2 DEF Answer, Answers, TypeOK
    <3> QED BY <3>1, <3>3, <3>4, <3>5, <3>6 DEF Heard, Name
  <2>8. CASE Pause(d)
    <3>1. lock = d /\ pc[d] = "pausing"  BY <2>8 DEF Pause, Exclusive, Holding
    <3>2. CASE code[d] = 404 /\ ~first[d]
      <4>1. /\ pc' = [pc EXCEPT ![d] = "asking"]
            /\ UNCHANGED <<lock, at, report, written>>
            /\ UNCHANGED <<registry, requests, ended, code, outcome, before>>
        BY <2>8, <3>2, Zenon DEF Pause
      <4>2. pc'[d] = "asking"  BY <4>1 DEF TypeOK
      <4> QED BY <3>1, <3>2, <4>1, <4>2 DEF Heard, Name, registry
    <3>3. CASE ~(code[d] = 404 /\ ~first[d])
      <4>1. lock' = NoCaller  BY <2>8, <3>3 DEF Pause, Conclude
      <4> QED BY <4>1 DEF Heard
    <3> QED BY <3>2, <3>3
  <2> QED BY <1>c, <2>1, <2>2, <2>3, <2>4, <2>5, <2>6, <2>7, <2>8 DEF Step
<1> QED BY <1>s, <1>r, <1>e, <1>c DEF Next, Heard

\* As long as the registry gives at most one stale 404 for a name, no run ever
\* writes a name that a package owned when its check began, whatever the other
\* runs do with the checker meanwhile (checker.go:93-97).
THEOREM NoOwnerAccused ==
  ASSUME Staleness <= 1
  PROVE  Spec => NeverAccusesAnOwner
<1>1. Spec => [](IInv /\ Heard)
  BY InitIInv, NextIInv, HeardInit, HeardStep, PTL DEF Spec
<1>2. ASSUME IInv, Heard, [Next]_vars
      PROVE  [\A c \in Callers : (written'[c] \ written[c]) \intersect before = {}]_vars
  <2> SUFFICES ASSUME Next, NEW c \in Callers, NEW n \in written'[c] \ written[c], n \in before
               PROVE  FALSE
    BY <1>2
  <2>1. pc[c] = "pausing" /\ lock = c /\ n = Name(c) /\ first[c] /\ code[c] = 404
    BY <1>2, WritesAreHeard
  <2> QED BY <1>2, <2>1 DEF Heard
<1> QED BY <1>1, <1>2, PTL DEF Spec, NeverAccusesAnOwner

-----------------------------------------------------------------------------
(* Requests are paced.                                                     *)

\* No one has asked before the first request.
LEMMA PacedInit == Init => Paced
BY DEF Init, Paced

\* Every step keeps the pace while no context has ended.
LEMMA PacedStep == ASSUME IInv, Paced, [Next]_vars PROVE Paced'
<1> USE DEF IInv
<1> SUFFICES ASSUME ended' = {}, rested' = FALSE
             PROVE  \E e \in Callers : pc'[e] \in {"sent", "backoff", "pausing"}
  BY NextIInv DEF Paced, TypeOK
<1>s. CASE UNCHANGED vars  BY <1>s DEF vars, Paced
<1>r. ASSUME NEW n \in Names, Register(n)
      PROVE \E e \in Callers : pc'[e] \in {"sent", "backoff", "pausing"}
  BY <1>r DEF Register, Paced
<1>e. ASSUME NEW d \in Callers, ContextEnds(d) PROVE FALSE
  BY <1>e DEF ContextEnds
<1>c. ASSUME NEW d \in Callers, Step(d)
      PROVE \E e \in Callers : pc'[e] \in {"sent", "backoff", "pausing"}
  <2>1. CASE Assemble(d) \/ NoticeEnd(d) \/ BeginCheck(d) \/ Lock(d) \/ RetriesExhausted(d)
             \/ BudgetExhausted(d) \/ Admit(d)
    <3>1. ended = {} /\ rested = FALSE
      BY <2>1 DEF Assemble, NoticeEnd, BeginCheck, Lock, RetriesExhausted, BudgetExhausted, Admit
    <3>2. PICK e \in Callers : pc[e] \in {"sent", "backoff", "pausing"}
      BY <3>1 DEF Paced
    <3>3. pc[d] \in {"next", "locking", "asking"}
      BY <2>1 DEF Assemble, NoticeEnd, BeginCheck, Lock, RetriesExhausted, BudgetExhausted, Admit
    <3>4. \E v : pc' = [pc EXCEPT ![d] = v]
      BY <2>1 DEF Assemble, NoticeEnd, BeginCheck, Lock, RetriesExhausted, BudgetExhausted, Admit,
         Return, Conclude
    <3>5. pc'[e] = pc[e]  BY <3>2, <3>3, <3>4 DEF TypeOK
    <3> QED BY <3>2, <3>5
  <2>2. CASE Send(d) \/ TransportError(d)
    BY <2>2 DEF Send, TransportError, TypeOK
  <2>3. ASSUME NEW status \in Statuses, Answer(d, status)
        PROVE \E e \in Callers : pc'[e] \in {"sent", "backoff", "pausing"}
    BY <2>3 DEF Answer, TypeOK
  <2>4. CASE BackoffOver(d) \/ BackoffCut(d)
    BY <2>4 DEF BackoffOver, BackoffCut
  <2>5. CASE Pause(d)
    <3>1. ended = {}  BY <2>5 DEF Pause
    <3> QED BY <2>5, <3>1 DEF Pause
  <2> QED BY <1>c, <2>1, <2>2, <2>3, <2>4, <2>5 DEF Step
<1> QED BY <1>s, <1>r, <1>e, <1>c DEF Next

\* While no context has ended, every request follows a whole pause or backoff
\* after the one before it, whichever goroutines send them (checker.go:98-99).
THEOREM RequestsArePaced == Spec => PacedUnlessEnded
<1>1. Spec => [](IInv /\ Paced)
  BY InitIInv, NextIInv, PacedInit, PacedStep, PTL DEF Spec
<1>2. ASSUME IInv, Paced, [Next]_vars
      PROVE  [requests' # requests => rested \/ ended # {}]_vars
  <2> SUFFICES ASSUME Next, requests' # requests, ~rested, ended = {} PROVE FALSE
    BY <1>2
  <2>1. PICK d \in Callers : Step(d)
    BY DEF Next, ContextEnds, Register
  <2>2. Send(d)
    BY <2>1 DEF Step, Assemble, NoticeEnd, BeginCheck, Lock, RetriesExhausted, BudgetExhausted,
       Admit, TransportError, Answer, BackoffOver, BackoffCut, Pause
  <2>3. PICK e \in Callers : pc[e] \in {"sent", "backoff", "pausing"}
    BY <1>2 DEF Paced
  <2>4. lock = d /\ lock = e
    BY <1>2, <2>2, <2>3 DEF IInv, Exclusive, Holding, Send
  <2> QED BY <2>2, <2>3, <2>4 DEF Send
<1> QED BY <1>1, <1>2, PTL DEF Spec, PacedUnlessEnded

-----------------------------------------------------------------------------
(* Short feeds are said.                                                   *)

\* The report counts the names before the one at hand, once each; a run that
\* has returned stays where it was, past its names or at one of them.
Accounts ==
  \A c \in Callers :
    /\ Checked(c) = at[c] - 1
    /\ outcome[c] # "running" => pc[c] = "done"
    /\ outcome[c] = "feed" => at[c] = Len(Selected[c]) + 1
    /\ outcome[c] \in {"budget_error", "context_error"} => at[c] <= Len(Selected[c])
    /\ IsFiniteSet(written[c])
    /\ Cardinality(written[c]) <= report[c]["unregistered"]

\* Nothing is accounted for before a run.
LEMMA AccountsInit == Init => Accounts
<1> SUFFICES ASSUME Init, NEW c \in Callers
             PROVE  /\ Checked(c) = at[c] - 1
                    /\ outcome[c] = "running"
                    /\ IsFiniteSet(written[c])
                    /\ Cardinality(written[c]) <= report[c]["unregistered"]
  BY DEF Accounts, Init
<1>1. Checked(c) = 0 /\ at[c] = 1 /\ report[c]["unregistered"] = 0
  BY DEF Init, Checked, NoReport, Verdicts
<1>2. written[c] = {} /\ outcome[c] = "running"  BY DEF Init
<1> QED BY <1>1, <1>2, FS_EmptySet

\* The end of a check counts its name once, and writes it at most once.
LEMMA ConcludeAccounts ==
  ASSUME TypeOK, Accounts, NEW c \in Callers, pc[c] # "done", NEW verdict \in Verdicts,
         Conclude(c, verdict), outcome' = outcome
  PROVE  Accounts'
<1> SUFFICES ASSUME NEW d \in Callers
             PROVE  /\ Checked(d)' = at'[d] - 1
                    /\ outcome'[d] # "running" => pc'[d] = "done"
                    /\ outcome'[d] = "feed" => at'[d] = Len(Selected[d]) + 1
                    /\ outcome'[d] \in {"budget_error", "context_error"} =>
                         at'[d] <= Len(Selected[d])
                    /\ IsFiniteSet(written'[d])
                    /\ Cardinality(written'[d]) <= report'[d]["unregistered"]
  BY DEF Accounts
<1>1. CASE d # c
  <2>1. report'[d] = report[d] /\ at'[d] = at[d] /\ pc'[d] = pc[d] /\ written'[d] = written[d]
    BY <1>1 DEF Conclude, TypeOK
  <2> QED BY <2>1 DEF Accounts, Checked
<1>2. CASE d = c
  <2>1. at'[d] = at[d] + 1 /\ at[d] \in Nat  BY <1>2 DEF Conclude, TypeOK
  <2>2. outcome'[d] = "running"  BY <1>2 DEF Accounts, TypeOK
  <2>3. /\ report'[d] = [report[d] EXCEPT ![verdict] = @ + 1]
        /\ report[d] \in [Verdicts -> Nat]
    BY <1>2 DEF Conclude, TypeOK
  <2>4. Checked(d)' = Checked(d) + 1
    BY <2>3 DEF Checked, Verdicts
  <2>5. CASE verdict = "unregistered" /\ Name(c) \in Likely
    <3>1. written'[d] = written[d] \union {Name(c)}
      BY <1>2, <2>5 DEF Conclude, TypeOK
    <3>2. report'[d]["unregistered"] = report[d]["unregistered"] + 1
      BY <2>3, <2>5 DEF Verdicts
    <3>3. IsFiniteSet(written[d]) /\ Cardinality(written[d]) <= report[d]["unregistered"]
      BY DEF Accounts
    <3>4. IsFiniteSet(written'[d])
      BY <3>1, <3>3, FS_AddElement
    <3>5. /\ Cardinality(written'[d]) \in {Cardinality(written[d]), Cardinality(written[d]) + 1}
          /\ Cardinality(written[d]) \in Nat
      BY <3>1, <3>3, FS_AddElement, FS_CardinalityType
    <3>6. report[d]["unregistered"] \in Nat  BY <2>3 DEF Verdicts
    <3> QED BY <2>1, <2>2, <2>4, <3>2, <3>3, <3>4, <3>5, <3>6 DEF Accounts
  <2>6. CASE ~(verdict = "unregistered" /\ Name(c) \in Likely)
    <3>1. written' = written  BY <2>6 DEF Conclude
    <3>2. report'[d]["unregistered"] >= report[d]["unregistered"]
          /\ report'[d]["unregistered"] \in Nat /\ report[d]["unregistered"] \in Nat
      BY <2>3 DEF Verdicts
    <3>3. IsFiniteSet(written[d]) /\ Cardinality(written[d]) <= report[d]["unregistered"]
      BY DEF Accounts
    <3>4. Cardinality(written[d]) \in Nat  BY <3>3, FS_CardinalityType
    <3> QED BY <2>1, <2>2, <2>4, <3>1, <3>2, <3>3, <3>4 DEF Accounts
  <2> QED BY <2>5, <2>6
<1> QED BY <1>1, <1>2

\* Every step keeps a run's accounts.
LEMMA AccountsStep == ASSUME IInv, Accounts, [Next]_vars PROVE Accounts'
<1> USE CheckerAssumption DEF IInv, CheckerAssumption
<1>s. CASE UNCHANGED vars  BY <1>s DEF vars, Accounts, Checked
<1>r. ASSUME NEW n \in Names, Register(n) PROVE Accounts'
  BY <1>r DEF Register, Accounts, Checked, run
<1>e. ASSUME NEW d \in Callers, ContextEnds(d) PROVE Accounts'
  BY <1>e DEF ContextEnds, Accounts, Checked, run
<1>c. ASSUME NEW d \in Callers, Step(d) PROVE Accounts'
  <2>1. CASE Assemble(d)
    <3>1. at[d] = Len(Selected[d]) + 1
      BY <2>1 DEF Assemble, Positions, TypeOK
    <3> QED BY <2>1, <3>1 DEF Assemble, Return, Accounts, Checked, TypeOK
  <2>2. CASE NoticeEnd(d) \/ BudgetExhausted(d) \/ BackoffCut(d)
    <3>1. at[d] <= Len(Selected[d])
      BY <2>2 DEF NoticeEnd, BudgetExhausted, BackoffCut, Exclusive, Holding, Positions
    <3>2. \E what \in {"budget_error", "context_error"} : Return(d, what)
      BY <2>2 DEF NoticeEnd, BudgetExhausted, BudgetError, BackoffCut
    <3>3. at' = at /\ report' = report /\ written' = written
      BY <2>2 DEF NoticeEnd, BudgetExhausted, BackoffCut
    <3> QED BY <3>1, <3>2, <3>3 DEF Return, Accounts, Checked, TypeOK
  <2>3. CASE RetriesExhausted(d)
    BY <2>3, ConcludeAccounts DEF RetriesExhausted, Verdicts
  <2>4. CASE Pause(d)
    <3>1. VerdictOf(first[d], code[d]) \in Verdicts  BY VerdictCases DEF TypeOK
    <3>2. CASE code[d] = 404 /\ ~first[d]
      <4>1. /\ pc[d] = "pausing" /\ pc' = [pc EXCEPT ![d] = "asking"]
            /\ UNCHANGED <<lock, at, report, written>>
            /\ UNCHANGED <<registry, requests, ended, code, outcome, before>>
        BY <2>4, <3>2, Zenon DEF Pause
      <4> QED BY <4>1 DEF Accounts, Checked, TypeOK
    <3>3. CASE ~(code[d] = 404 /\ ~first[d])
      BY <2>4, <3>1, <3>3, ConcludeAccounts DEF Pause
    <3> QED BY <3>2, <3>3
  <2>5. CASE BeginCheck(d) \/ Lock(d) \/ Admit(d) \/ Send(d) \/ TransportError(d)
             \/ (\E status \in Statuses : Answer(d, status)) \/ BackoffOver(d)
    <3>1. at' = at /\ report' = report /\ written' = written /\ outcome' = outcome
      BY <2>5 DEF BeginCheck, Lock, Admit, Send, TransportError, Answer, BackoffOver, run
    <3>2. pc[d] # "done" /\ \A e \in Callers \ {d} : pc'[e] = pc[e]
      BY <2>5 DEF BeginCheck, Lock, Admit, Send, TransportError, Answer, BackoffOver, TypeOK
    <3> QED BY <3>1, <3>2 DEF Accounts, Checked
  <2> QED BY <1>c, <2>1, <2>2, <2>3, <2>4, <2>5 DEF Step
<1> QED BY <1>s, <1>r, <1>e, <1>c DEF Next

\* For any names and any budget, a feed returned without an error accounts for
\* every selected name, a run that stopped for strictly fewer, and there are no
\* more entries than names found unregistered (generate.go:53-65, 73-77).
THEOREM ShortFeedsSaid == Spec => []ShortFeedsAreSaid
<1>1. ASSUME IInv, Accounts PROVE ShortFeedsAreSaid
  <2>1. \A c \in Callers : Len(Selected[c]) \in Nat /\ at[c] \in Nat
    BY <1>1, CheckerAssumption DEF IInv, TypeOK, CheckerAssumption
  <2> QED BY <1>1, <2>1 DEF Accounts, ShortFeedsAreSaid
<1> QED BY <1>1, InitIInv, NextIInv, AccountsInit, AccountsStep, PTL DEF Spec
=============================================================================
