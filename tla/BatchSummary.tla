---------------------------- MODULE BatchSummary ----------------------------
(***************************************************************************)
(* The daily summary (app/batch_worker.py) over the decisions that workers *)
(* keep adding (app/database.py).                                          *)
(*                                                                         *)
(* created_at is now() of the database, the start of the transaction that  *)
(* adds the row, so a row becomes visible some time after the instant it   *)
(* carries.  A run fixes `since' when it starts and counts later, in two   *)
(* statements that each see what is committed by then.                     *)
(*                                                                         *)
(* now is the database's clock.  The process reads its own, Skew away from *)
(* it, for the time of day and for `since'; it sleeps for a delay that it  *)
(* works out once, not until an instant.                                   *)
(***************************************************************************)
EXTENDS Integers, Sequences

CONSTANTS
    Decision,       \* rows workers may add
    Day,            \* time between two runs
    Skew,           \* the process's clock against the database's
    Window,         \* BATCH_SUMMARY_WINDOW_HOURS
    OpenTime,       \* longest transaction of a worker
    RunTime,        \* longest run
    Lateness,       \* how late the timer wakes
    MaxReports,     \* bound: summaries logged
    MaxTime         \* bound: length of a behaviour

ASSUME BatchAssumption ==
    /\ Day \in Nat \ {0} /\ Window \in Nat \ {0}
    /\ Skew \in Int
    /\ OpenTime \in Nat /\ RunTime \in Nat /\ Lateness \in Nat
    /\ MaxReports \in Nat /\ MaxTime \in Nat

Never == -1

VARIABLES
    now,
    created,        \* created_at of each row, Never before it is added
    visible,        \* rows whose transaction has committed
    pc,             \* the process: "down", "waiting", "counting", "grouping"
    resident,       \* FALSE with --once
    asked,          \* when the delay was worked out
    delay,          \* how long it sleeps from then on
    run,            \* the run under way: when it started, its since and its total
    reports         \* the summaries logged

rowVars == <<created, visible>>
timer == <<asked, delay>>
vars == <<now, rowVars, pc, resident, timer, run, reports>>

NoRun == [started |-> 0, since |-> 0, total |-> {}, at |-> 0]
Run == [started : Nat, since : Int, total : SUBSET Decision, at : Nat]
Report == [started : Nat, since : Int, total : SUBSET Decision, at : Nat, grouped : SUBSET Decision]

\* Every variable has the values the code can give it; a sleep is "always > 0", so a
\* run that ends at the very time of day does not run again, it is at most a day, and
\* it ends at the time of day on the process's clock.
TypeOK ==
    /\ now \in Nat
    /\ created \in [Decision -> Nat \cup {Never}]
    /\ visible \subseteq {d \in Decision : created[d] /= Never}
    /\ pc \in {"down", "waiting", "counting", "grouping"}
    /\ resident \in BOOLEAN
    /\ asked \in 0..now /\ delay \in 0..Day
    /\ pc = "waiting" => delay # 0 /\ (asked + Skew + delay) % Day = 0
    /\ run \in Run
    /\ reports \in Seq(Report)

Init ==
    /\ now = 0
    /\ created = [d \in Decision |-> Never]
    /\ visible = {}
    /\ pc = "down"
    /\ resident = FALSE
    /\ asked = 0 /\ delay = 0
    /\ run = NoRun
    /\ reports = <<>>

-----------------------------------------------------------------------------
(* Workers: record_decision's transaction. *)

Add(d) ==
    /\ created[d] = Never
    /\ created' = [created EXCEPT ![d] = now]
    /\ UNCHANGED <<now, visible, pc, resident, timer, run, reports>>

CommitDecision(d) ==
    /\ created[d] /= Never
    /\ d \notin visible
    /\ visible' = visible \cup {d}
    /\ UNCHANGED <<now, created, pc, resident, timer, run, reports>>

-----------------------------------------------------------------------------
(* The process *)

\* datetime.now(UTC)
Clock == now + Skew

\* Mutant: target < now instead of target <= now.
seconds_until_next_run_now ==
    IF Clock % Day = 0 THEN 0 ELSE Day * (Clock \div Day + 1) - Clock

\* From now to the next multiple of Day, on the process's clock.
seconds_until_next_run == Day * (Clock \div Day + 1) - Clock

Wait == pc' = "waiting" /\ asked' = now /\ delay' = seconds_until_next_run

Boot ==
    /\ pc = "down"
    /\ resident' = TRUE
    /\ Wait
    /\ UNCHANGED <<now, rowVars, run, reports>>

\* run_summary fixes its window.
StartRun ==
    /\ Len(reports) < MaxReports
    /\ pc' = "counting"
    /\ run' = [NoRun EXCEPT !.started = now, !.since = Clock - Window]
    /\ UNCHANGED <<now, rowVars, timer, reports>>

\* The sleep ends ...
Wake == pc = "waiting" /\ now >= asked + delay /\ StartRun /\ UNCHANGED resident

\* ... or the process was started with --once.
Once == pc = "down" /\ StartRun /\ resident' = FALSE

\* After a run, failed or not: the next day, or exit.
Done ==
    /\ run' = NoRun
    /\ UNCHANGED resident
    /\ \/ resident /\ Wait
       \/ ~resident /\ pc' = "down" /\ UNCHANGED timer

\* Rows with created_at >= since that are visible now.
Since(t) == {d \in visible : created[d] >= t}

\* Mutant: rows that carry exactly the window's first instant are left out.
Count_after ==
    /\ pc = "counting"
    /\ pc' = "grouping"
    /\ run' = [run EXCEPT !.total = Since(run.since + 1), !.at = now]
    /\ UNCHANGED <<now, rowVars, resident, timer, reports>>

\* summarize_transactions, first statement ...
Count ==
    /\ pc = "counting"
    /\ pc' = "grouping"
    /\ run' = [run EXCEPT !.total = Since(run.since), !.at = now]
    /\ UNCHANGED <<now, rowVars, resident, timer, reports>>

Summary(grouped) ==
    [started |-> run.started, since |-> run.since, total |-> run.total, at |-> run.at,
     grouped |-> grouped]

\* Mutant: the breakdown ends at the start of the run.
Group_bounded ==
    /\ pc = "grouping"
    /\ reports' = Append(reports, Summary({d \in Since(run.since) : created[d] < run.started}))
    /\ Done
    /\ UNCHANGED <<now, rowVars>>

\* ... and second; the summary is logged and the process waits for the next day.
Group ==
    /\ pc = "grouping"
    /\ reports' = Append(reports, Summary(Since(run.since)))
    /\ Done
    /\ UNCHANGED <<now, rowVars>>

\* run_summary raised: logged, and the schedule goes on (--once: exit code 1).
FailRun ==
    /\ pc \in {"counting", "grouping"}
    /\ Done
    /\ UNCHANGED <<now, rowVars, reports>>

\* A signal while it waits, or the process dies.
Stop ==
    /\ pc /= "down"
    /\ pc' = "down"
    /\ run' = NoRun
    /\ UNCHANGED <<now, rowVars, resident, timer, reports>>

\* Time passes, within the limits on transactions, runs and the timer.
Tick ==
    /\ now < MaxTime
    /\ \A d \in Decision \ visible : created[d] /= Never => now - created[d] < OpenTime
    /\ pc \in {"counting", "grouping"} => now - run.started < RunTime
    /\ pc = "waiting" => now < asked + delay + Lateness
    /\ now' = now + 1
    /\ UNCHANGED <<rowVars, pc, resident, timer, run, reports>>

Next ==
    \/ \E d \in Decision : Add(d) \/ CommitDecision(d)
    \/ Boot \/ Wake \/ Once \/ Count \/ Group \/ FailRun \/ Stop
    \/ Tick

Spec == Init /\ [][Next]_vars

-----------------------------------------------------------------------------
Counted(i, d) == d \in reports[i].total

(***************************************************************************)
(* No decision falls between two runs whose windows overlap by at least a  *)
(* worker's longest transaction: what became visible only after one run    *)
(* counted is in the next one's window, however late it was committed.     *)
(***************************************************************************)
NothingBetweenRuns ==
    \A i \in 1..(Len(reports) - 1) :
        reports[i + 1].since <= reports[i].at - OpenTime =>
            \A d \in Decision :
                /\ created[d] /= Never
                /\ created[d] >= reports[i].since
                /\ created[d] + OpenTime < reports[i + 1].at
                => Counted(i, d) \/ Counted(i + 1, d)

\* The breakdown by category covers everything in the total beside it, although
\* the two statements see different rows.
BreakdownCoversTotal ==
    \A i \in 1..Len(reports) : reports[i].total \subseteq reports[i].grouped
=============================================================================
