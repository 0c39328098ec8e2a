-------------------------- MODULE RegistryChecker --------------------------
(***************************************************************************)
(* The registry checker and the generation runs that share it              *)
(* (src/slopfeed/generate/checker.go, generate.go).                        *)
(*                                                                         *)
(* Every caller is a goroutine inside Feed with its own context and its    *)
(* own list of names; they share one Checker: its mutex, its request       *)
(* counter and its budget.  A step is what a goroutine does between two    *)
(* points where another one can come between: a lock, a request, a pause.  *)
(* The registry is not part of the repository: a name gets an owner at any *)
(* moment, and the registry may go on answering 404 for it a few times     *)
(* (checker.go:93-95, "registries are eventually consistent").             *)
(***************************************************************************)
EXTENDS Integers, Sequences, FiniteSets

CONSTANTS
  Callers,      \* goroutines running Feed on one shared Checker
  Names,        \* the names that are checked
  Selected,     \* the names a caller's run has selected, in order
  Likely,       \* the names whose score reaches a risk tier (Score's second result)
  MaxRequests,  \* CheckerOptions.MaxRequests; 0 is no cap
  MaxRetries,   \* CheckerOptions.MaxRetries: attempts of one get
  Staleness,    \* how many 404s the registry may still give for an owned name
  NoCaller      \* the mutex is free

ASSUME CheckerAssumption ==
  /\ Selected \in [Callers -> Seq(Names)]
  /\ Likely \subseteq Names
  /\ MaxRequests \in Nat
  /\ MaxRetries \in Nat \ {0}
  /\ Staleness \in Nat
  /\ NoCaller \notin Callers

VARIABLES
  owned,     \* registry: the names a package owns
  stale,     \* registry: the 404s it may still give for each owned name
  lock,      \* Checker.mu: the goroutine that holds it
  requests,  \* Checker.requests
  ended,     \* the callers whose context has ended
  pc,        \* where each caller is
  at,        \* Feed: position in Selected of the name being checked
  first,     \* Check: the first get has answered 404 and the second one is under way
  attempt,   \* get: attempts made
  code,      \* get: the status of the completed request
  report,    \* Feed: the Report under construction
  written,   \* Feed: the names among the entries
  outcome,   \* Feed: what it returned
  \* history, not program state
  before,    \* the names owned when the check under way began
  rested     \* a whole pause or backoff has passed since the latest request

registry == <<owned, stale>>
run == <<report, written, outcome>>
get == <<attempt, code>>
vars == <<owned, stale, lock, requests, ended, pc, at, first, attempt, code,
          report, written, outcome, before, rested>>

Verdicts == {"unregistered", "registered", "inconclusive"}
Statuses == {200, 404, 403, 503}     \* 403: any status the code does not name
Retryable == {503}                   \* 429, 500, 502, 503, 504

Positions(c) == 1 .. Len(Selected[c])
Name(c) == Selected[c][at[c]]

NoReport == [verdict \in Verdicts |-> 0]
Checked(c) == report[c]["unregistered"] + report[c]["registered"]
                + report[c]["inconclusive"]

Init ==
  /\ owned \in SUBSET Names
  /\ stale = [n \in Names |-> 0]
  /\ lock = NoCaller
  /\ requests = 0
  /\ ended = {}
  /\ pc = [c \in Callers |-> "next"]
  /\ at = [c \in Callers |-> 1]
  /\ first = [c \in Callers |-> FALSE]
  /\ attempt = [c \in Callers |-> 0]
  /\ code = [c \in Callers |-> 200]
  /\ report = [c \in Callers |-> NoReport]
  /\ written = [c \in Callers |-> {}]
  /\ outcome = [c \in Callers |-> "running"]
  /\ before = {}
  /\ rested = TRUE

-----------------------------------------------------------------------------
(* The world: the registry and the callers' contexts.                      *)

\* A package takes a name; replicas may go on denying it.
Register(n) ==
  /\ n \notin owned
  /\ owned' = owned \union {n}
  /\ \E k \in 0 .. Staleness : stale' = [stale EXCEPT ![n] = k]
  /\ UNCHANGED <<lock, requests, ended, pc, at, first, get, run, before, rested>>

\* A caller's context is cancelled or its deadline passes while Feed runs.
ContextEnds(c) ==
  /\ pc[c] # "done"
  /\ c \notin ended
  /\ ended' = ended \union {c}
  /\ UNCHANGED <<registry, lock, requests, pc, at, first, get, run, before, rested>>

\* The statuses the registry may give for a name.
Answers(n) ==
  {503, 403} \union (IF n \in owned THEN {200} ELSE {404})
             \union (IF stale[n] > 0 THEN {404} ELSE {})

-----------------------------------------------------------------------------
(* Feed's loop.                                                            *)

Return(c, what) ==
  /\ pc' = [pc EXCEPT ![c] = "done"]
  /\ outcome' = [outcome EXCEPT ![c] = what]

\* Every selected name has been looked at: Feed assembles the feed.
Assemble(c) ==
  /\ pc[c] = "next"
  /\ at[c] \notin Positions(c)
  /\ Return(c, "feed")
  /\ UNCHANGED <<registry, lock, requests, ended, at, first, get, report, written, before, rested>>

\* The loop's own look at the context: a nil feed and the context's error.
NoticeEnd(c) ==
  /\ pc[c] = "next"
  /\ at[c] \in Positions(c)
  /\ c \in ended
  /\ Return(c, "context_error")
  /\ UNCHANGED <<registry, lock, requests, ended, at, first, get, report, written, before, rested>>

BeginCheck(c) ==
  /\ pc[c] = "next"
  /\ at[c] \in Positions(c)
  /\ c \notin ended
  /\ pc' = [pc EXCEPT ![c] = "locking"]
  /\ UNCHANGED <<registry, lock, requests, ended, at, first, get, run, before, rested>>

-----------------------------------------------------------------------------
(* Check and get.                                                          *)

Free == lock = NoCaller

\* Slip: the mutex is not taken.
Unguarded == TRUE

MayLock == Free

Lock(c) ==
  /\ pc[c] = "locking"
  /\ MayLock
  /\ lock' = c
  /\ pc' = [pc EXCEPT ![c] = "asking"]
  /\ first' = [first EXCEPT ![c] = FALSE]
  /\ attempt' = [attempt EXCEPT ![c] = 0]
  /\ before' = owned
  /\ UNCHANGED <<registry, requests, ended, at, code, run, rested>>

\* Slip: the counter may pass the cap by one.
SpentLate == MaxRequests > 0 /\ requests > MaxRequests

Spent == MaxRequests > 0 /\ requests >= MaxRequests

\* Slip: an attempt too many.
OneMoreAttempt(c) == attempt[c] <= MaxRetries

AttemptsLeft(c) == attempt[c] < MaxRetries

NextAttempt(c) == attempt[c] + 1

\* Check returns: the mutex is released and Feed counts the verdict; only an
\* unregistered name that scores is written.
Conclude(c, verdict) ==
  /\ lock' = NoCaller
  /\ report' = [report EXCEPT ![c][verdict] = @ + 1]
  /\ written' = IF verdict = "unregistered" /\ Name(c) \in Likely
                THEN [written EXCEPT ![c] = @ \union {Name(c)}]
                ELSE written
  /\ at' = [at EXCEPT ![c] = @ + 1]
  /\ pc' = [pc EXCEPT ![c] = "next"]

\* get's loop is over: the check is inconclusive and the run goes on.
RetriesExhausted(c) ==
  /\ pc[c] = "asking"
  /\ ~AttemptsLeft(c)
  /\ Conclude(c, "inconclusive")
  /\ UNCHANGED <<registry, requests, ended, first, get, outcome, before, rested>>

\* Slip: the run that the budget stopped returns its feed without an error.
BudgetUnsaid == "feed"

BudgetError == "budget_error"

\* The request budget is spent: Check's error stops the run, and Feed returns
\* what it has built with that error.
BudgetExhausted(c) ==
  /\ pc[c] = "asking"
  /\ AttemptsLeft(c)
  /\ Spent
  /\ lock' = NoCaller
  /\ Return(c, BudgetError)
  /\ UNCHANGED <<registry, requests, ended, at, first, get, report, written, before, rested>>

\* The budget has room for a request: the comparison, apart from the addition.
Admit(c) ==
  /\ pc[c] = "asking"
  /\ AttemptsLeft(c)
  /\ ~Spent
  /\ pc' = [pc EXCEPT ![c] = "admitted"]
  /\ UNCHANGED <<registry, lock, requests, ended, at, first, get, run, before, rested>>

Send(c) ==
  /\ pc[c] = "admitted"
  /\ requests' = requests + 1
  /\ rested' = FALSE
  /\ pc' = [pc EXCEPT ![c] = "sent"]
  /\ UNCHANGED <<registry, lock, ended, at, first, get, run, before>>

\* A transport error, the client's timeout among them, or an ended context.
TransportError(c) ==
  /\ pc[c] = "sent"
  /\ pc' = [pc EXCEPT ![c] = "backoff"]
  /\ UNCHANGED <<registry, lock, requests, ended, at, first, get, run, before, rested>>

\* The registry answers; a 404 for an owned name is one of its stale ones.
Answer(c, status) ==
  /\ pc[c] = "sent"
  /\ status \in Answers(Name(c))
  /\ stale' = IF status = 404 /\ Name(c) \in owned
              THEN [stale EXCEPT ![Name(c)] = @ - 1] ELSE stale
  /\ code' = [code EXCEPT ![c] = status]
  /\ pc' = [pc EXCEPT ![c] = IF status \in Retryable THEN "backoff" ELSE "pausing"]
  /\ UNCHANGED <<owned, lock, requests, ended, at, first, attempt, run, before, rested>>

BackoffOver(c) ==
  /\ pc[c] = "backoff"
  /\ attempt' = [attempt EXCEPT ![c] = NextAttempt(c)]
  /\ rested' = TRUE
  /\ pc' = [pc EXCEPT ![c] = "asking"]
  /\ UNCHANGED <<registry, lock, requests, ended, at, first, code, run, before>>

\* Slip: the mutex is not released on the way out with the context's error.
BackoffCutLocked(c) ==
  /\ pc[c] = "backoff"
  /\ c \in ended
  /\ Return(c, "context_error")
  /\ UNCHANGED <<registry, lock, requests, ended, at, first, get, report, written, before, rested>>

\* A backoff that the context cuts short ends the check and the run.
BackoffCut(c) ==
  /\ pc[c] = "backoff"
  /\ c \in ended
  /\ lock' = NoCaller
  /\ Return(c, "context_error")
  /\ UNCHANGED <<registry, requests, ended, at, first, get, report, written, before, rested>>

\* Slip: on the second query, anything but a 200 confirms the 404.
VerdictUnlessOwned(again, status) ==
  CASE status = 200 -> "registered"
    [] status # 200 /\ again -> "unregistered"
    [] OTHER -> "inconclusive"

\* What Check makes of the status of its last get: unregistered takes a 404 on
\* the second query too.
VerdictOf(again, status) ==
  CASE status = 200 -> "registered"
    [] status = 404 /\ again -> "unregistered"
    [] OTHER -> "inconclusive"

\* The pause after a completed request.  Its error is dropped: get returns the
\* status it has, whether the pause passed or the context cut it short.
Pause(c) ==
  /\ pc[c] = "pausing"
  /\ rested' \in {TRUE} \union (IF c \in ended THEN {rested} ELSE {})
  /\ IF code[c] = 404 /\ ~first[c]
     THEN /\ first' = [first EXCEPT ![c] = TRUE]
          /\ attempt' = [attempt EXCEPT ![c] = 0]
          /\ pc' = [pc EXCEPT ![c] = "asking"]
          /\ UNCHANGED <<lock, at, report, written>>
     ELSE /\ Conclude(c, VerdictOf(first[c], code[c]))
          /\ UNCHANGED <<first, attempt>>
  /\ UNCHANGED <<registry, requests, ended, code, outcome, before>>

-----------------------------------------------------------------------------

Step(c) ==
  \/ Assemble(c) \/ NoticeEnd(c) \/ BeginCheck(c)
  \/ Lock(c) \/ RetriesExhausted(c) \/ BudgetExhausted(c) \/ Admit(c) \/ Send(c)
  \/ TransportError(c)
  \/ \E status \in Statuses : Answer(c, status)
  \/ BackoffOver(c) \/ BackoffCut(c) \/ Pause(c)

Next ==
  \/ \E c \in Callers : Step(c) \/ ContextEnds(c)
  \/ \E n \in Names : Register(n)

Spec == Init /\ [][Next]_vars

\* A goroutine that can run does run: the client's timeout ends every request,
\* timers fire, and the mutex is handed to a waiter.  Contexts need never end
\* and the registry need never change.
FairSpec == Spec /\ \A c \in Callers : WF_vars(Step(c))

-----------------------------------------------------------------------------
(* Properties.                                                             *)

Holding == {"asking", "admitted", "sent", "backoff", "pausing"}

\* Every variable holds a value of its kind; no get attempts more than
\* MaxRetries requests.
TypeOK ==
  /\ owned \subseteq Names
  /\ stale \in [Names -> 0 .. Staleness]
  /\ lock \in Callers \union {NoCaller}
  /\ requests \in Nat
  /\ ended \subseteq Callers
  /\ pc \in [Callers -> Holding \union {"next", "locking", "done"}]
  /\ at \in [Callers -> Nat \ {0}]
  /\ \A c \in Callers : at[c] <= Len(Selected[c]) + 1
  /\ first \in [Callers -> BOOLEAN]
  /\ attempt \in [Callers -> 0 .. MaxRetries]
  /\ code \in [Callers -> Statuses]
  /\ report \in [Callers -> [Verdicts -> Nat]]
  /\ written \in [Callers -> SUBSET Names]
  /\ outcome \in [Callers -> {"running", "feed", "budget_error", "context_error"}]
  /\ before \subseteq Names
  /\ rested \in BOOLEAN

\* The cap counts every request of every goroutine, retries and second queries
\* included, although get compares and adds in two steps (checker.go:70-72).
WithinBudget == MaxRequests > 0 => requests <= MaxRequests

\* A name that a package owned when its check began is never written, by this
\* run or through what another run does meanwhile, as long as the registry
\* gives fewer than two stale 404s for it (checker.go:93-97, generate.go:14-16).
NeverAccusesAnOwner ==
  [][\A c \in Callers : (written'[c] \ written[c]) \intersect before = {}]_vars

\* No request follows another one without a whole pause or backoff between
\* them, whichever goroutines send the two, unless a context has ended
\* (checker.go:98-99).
PacedUnlessEnded ==
  [][requests' # requests => rested \/ ended # {}]_vars

\* A feed that Feed returns without an error accounts for every selected name,
\* and one cut short by the budget, or no feed, for strictly fewer
\* (generate.go:53-65, 73-77).
ShortFeedsAreSaid ==
  \A c \in Callers :
    /\ Checked(c) = at[c] - 1
    /\ outcome[c] = "feed" => Checked(c) = Len(Selected[c])
    /\ outcome[c] \in {"budget_error", "context_error"} => Checked(c) < Len(Selected[c])
    /\ Cardinality(written[c]) <= report[c]["unregistered"]

\* Every run ends: retries are bounded and the mutex is always released.
RunsEnd == \A c \in Callers : <>(pc[c] = "done")
=============================================================================
