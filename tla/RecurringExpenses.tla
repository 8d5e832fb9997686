-------------------------- MODULE RecurringExpenses --------------------------
(***************************************************************************)
(* Templates that generate an expense on every date of a schedule.         *)
(*                                                                         *)
(*   backend/src/recurring-expenses/recurring-expenses.service.ts          *)
(*   backend/src/recurring-expenses/recurring-expenses.scheduler.ts        *)
(*   database/migrations/018_recurring_expenses.sql                        *)
(*                                                                         *)
(* runOne reads the template, and generates in a later transaction that    *)
(* asks nothing again, or ends it.  It is called for one template by a     *)
(* request, and for a list of the first due ones by the daily tick and by  *)
(* processDue.  What becomes of the expense (posted, or waiting for        *)
(* approval) is left to ExpenseApproval.  One clock stands for the UTC     *)
(* date of runOne, the date in Cairo and the database's.  The 'failed' row *)
(* and last_error are written in the transaction that the failure rolls    *)
(* back, so they are not there.                                            *)
(***************************************************************************)
EXTENDS Integers, FiniteSets

CONSTANTS
  Templates,
  Scheduler,   \* the cron job
  Requests,    \* requests to run one template, or all that are due
  MaxDay,      \* bound on the calendar: nothing falls due after it
  Gap,         \* days from a date of the schedule to the next one
  Starts, Ends,\* the start dates and end dates of templates
  Never,       \* no end_date
  Limit,       \* templates of a list (100)
  None,
  MaxEdits,    \* bound on the changes to templates
  MaxCrashes   \* bound on the crashes

Days    == 0 .. MaxDay
Runners == {Scheduler} \cup Requests

ASSUME RecurringAssumption ==
  /\ Scheduler \notin Requests
  /\ MaxDay \in Nat /\ MaxEdits \in Nat /\ MaxCrashes \in Nat
  /\ Gap \in [Days -> Nat \ {0}]
  /\ IsFiniteSet(Templates) /\ Limit \in Nat \ {0}
  /\ Never \notin Days
  /\ Starts \subseteq Days /\ Ends \subseteq Days \cup {Never}
  /\ None \notin [tpl : Templates, date : Days, past : BOOLEAN]

VARIABLES
  template,  \* Templates -> its row: status, auto_post, end_date, next_run_date
  start,     \* Templates -> start_date
  made,      \* Templates -> Days -> expenses generated for the date
  broken,    \* templates that cannot generate: no account, no cashbox
  day,       \* today
  ticked,    \* the cron job ran today
  todo,      \* Runners -> templates still to run
  seen,      \* Runners -> what runOne has read, or None: the template, its
             \* next date, and whether it is past its end
  edits, crashes,
  overlap    \* history: templates that two runs had read at a time

runs == <<todo, seen>>
recurringVars ==
  <<template, start, made, broken, day, ticked, todo, seen,
    edits, crashes, overlap>>

Reading == [tpl : Templates, date : Days, past : BOOLEAN]
RecurringRow == [status : {"none", "active", "paused", "ended"}, auto : BOOLEAN,
                 end : Ends \cup {Never}, next : Nat]

(* The type invariant. *)
RecurringTypeOK ==
  /\ template \in [Templates -> RecurringRow]
  /\ start \in [Templates -> Days]
  /\ made \in [Templates -> [Days -> Nat]]
  /\ broken \subseteq Templates
  /\ day \in Days /\ ticked \in BOOLEAN
  /\ todo \in [Runners -> SUBSET Templates]
  /\ seen \in [Runners -> Reading \cup {None}]
  /\ edits \in 0 .. MaxEdits /\ crashes \in 0 .. MaxCrashes
  /\ overlap \subseteq Templates

RecurringInit ==
  /\ template = [t \in Templates |->
                   [status |-> "none", auto |-> TRUE, end |-> Never, next |-> 0]]
  /\ start = [t \in Templates |-> 0]
  /\ made = [t \in Templates |-> [d \in Days |-> 0]]
  /\ broken = {} /\ day = 0 /\ ticked = FALSE
  /\ todo = [r \in Runners |-> {}] /\ seen = [r \in Runners |-> None]
  /\ edits = 0 /\ crashes = 0 /\ overlap = {}

Ended(t)  == template[t].end # Never /\ template[t].end < day
IsDue(t)  == template[t].status = "active" /\ template[t].next <= day /\ ~Ended(t)
IsIdle(r) == todo[r] = {} /\ seen[r] = None

(* fn_recurring_next_run. *)
NextRun(d) == d + Gap[d]

-----------------------------------------------------------------------------
(* create: the first run is on the start date, which may have passed. *)
CreateRecurring(t, d, auto, end) ==
  /\ template[t].status = "none"
  /\ template' = [template EXCEPT
       ![t] = [status |-> "active", auto |-> auto, end |-> end, next |-> d]]
  /\ start' = [start EXCEPT ![t] = d]
  /\ UNCHANGED <<made, broken, day, ticked, runs, edits, crashes, overlap>>

(* update, pause, resume and remove (which ends it): any status may follow *)
(* any; next_run_date is not theirs to change.                             *)
UpdateRecurring(t, status, auto, end) ==
  /\ edits < MaxEdits /\ edits' = edits + 1
  /\ template[t].status # "none"
  /\ template' = [template EXCEPT
       ![t].status = status, ![t].auto = auto, ![t].end = end]
  /\ UNCHANGED <<start, made, broken, day, ticked, runs, crashes, overlap>>

(* The category loses its account, or gets one. *)
Misconfigure(t) ==
  /\ edits < MaxEdits /\ edits' = edits + 1
  /\ broken' = IF t \in broken THEN broken \ {t} ELSE broken \cup {t}
  /\ UNCHANGED <<template, start, made, day, ticked, runs, crashes, overlap>>

-----------------------------------------------------------------------------
(* ORDER BY next_run_date LIMIT: as many of the due templates as fit, and   *)
(* none that is due later than one left out.                               *)
Lists(due, limit) ==
  {B \in SUBSET due :
     /\ Cardinality(B) <= limit
     /\ B = due \/ Cardinality(B) = limit
     /\ \A t \in B, u \in due \ B : template[t].next <= template[u].next}


PostsItself(t) == IsDue(t) /\ template[t].auto

(* autoPostDue: the list is read once, and only has templates that post. *)
Tick ==
  /\ ~ticked /\ IsIdle(Scheduler)
  /\ ticked' = TRUE
  /\ \E B \in Lists({t \in Templates : PostsItself(t)}, Limit) :
       todo' = [todo EXCEPT ![Scheduler] = B]
  /\ UNCHANGED <<template, start, made, broken, day, seen, edits, crashes, overlap>>

(* POST process-due; the request may set the limit. *)
ProcessDue(r) ==
  /\ IsIdle(r)
  /\ \E limit \in 1 .. Cardinality(Templates) :
     \E B \in Lists({t \in Templates : IsDue(t)}, limit) :
       todo' = [todo EXCEPT ![r] = B]
  /\ UNCHANGED <<template, start, made, broken, day, ticked, seen,
                 edits, crashes, overlap>>

(* POST :id/run. *)
RunOne(r, t) ==
  /\ IsIdle(r)
  /\ template[t].status # "none"
  /\ todo' = [todo EXCEPT ![r] = {t}]
  /\ UNCHANGED <<template, start, made, broken, day, ticked, seen,
                 edits, crashes, overlap>>

(* runOne up to its transaction, for a template of the list. *)
Turn(r, t) ==
  /\ t \in todo[r] /\ seen[r] = None
  /\ todo' = [todo EXCEPT ![r] = @ \ {t}]

NotNow(r, t) ==
  /\ Turn(r, t)
  /\ template[t].status # "active" \/ template[t].next > day
  /\ UNCHANGED <<template, start, made, broken, day, ticked, seen,
                 edits, crashes, overlap>>

Read(r, t) ==
  /\ Turn(r, t)
  /\ template[t].status = "active" /\ template[t].next <= day
  /\ seen' = [seen EXCEPT ![r] =
       [tpl |-> t, date |-> template[t].next, past |-> Ended(t)]]
  /\ overlap' = overlap \cup {u \in {t} : \E q \in Runners \ {r} :
       seen[q] # None /\ seen[q].tpl = t}
  /\ UNCHANGED <<template, start, made, broken, day, ticked, edits, crashes>>

(* The template was past its end_date: its status is written, whatever     *)
(* became of it since.                                                     *)
PastEnd(r) ==
  /\ seen[r] # None /\ seen[r].past
  /\ template' = [template EXCEPT ![seen[r].tpl].status = "ended"]
  /\ seen' = [seen EXCEPT ![r] = None]
  /\ UNCHANGED <<start, made, broken, day, ticked, todo, edits, crashes, overlap>>

(* Mutant: the schedule goes on from today. *)
GenerateFromToday(r) ==
  /\ seen[r] # None /\ ~seen[r].past
  /\ LET t == seen[r].tpl  d == seen[r].date IN
       /\ t \notin broken
       /\ made' = [made EXCEPT ![t][d] = @ + 1]
       /\ template' = [template EXCEPT ![t].next = NextRun(day)]
  /\ seen' = [seen EXCEPT ![r] = None]
  /\ UNCHANGED <<start, broken, day, ticked, todo, edits, crashes, overlap>>

(* Mutant: next_run_date is not moved. *)
GenerateOnly(r) ==
  /\ seen[r] # None /\ ~seen[r].past
  /\ LET t == seen[r].tpl  d == seen[r].date IN
       /\ t \notin broken
       /\ made' = [made EXCEPT ![t][d] = @ + 1]
  /\ seen' = [seen EXCEPT ![r] = None]
  /\ UNCHANGED <<template, start, broken, day, ticked, todo, edits, crashes, overlap>>

(* The transaction: the expense of the date that was read, and the date     *)
(* after it, whatever became of the template since.                         *)
Generate(r) ==
  /\ seen[r] # None /\ ~seen[r].past
  /\ LET t == seen[r].tpl  d == seen[r].date IN
       /\ t \notin broken
       /\ made' = [made EXCEPT ![t][d] = @ + 1]
       /\ template' = [template EXCEPT ![t].next = NextRun(d)]
  /\ seen' = [seen EXCEPT ![r] = None]
  /\ UNCHANGED <<start, broken, day, ticked, todo, edits, crashes, overlap>>

(* It is rolled back, and the list goes on with the next template. *)
Fails(r) ==
  /\ seen[r] # None /\ ~seen[r].past
  /\ seen[r].tpl \in broken
  /\ seen' = [seen EXCEPT ![r] = None]
  /\ UNCHANGED <<template, start, made, broken, day, ticked, todo,
                 edits, crashes, overlap>>

-----------------------------------------------------------------------------
(* After MaxDay the days go on, but nothing more falls due. *)
NewDay ==
  /\ day < MaxDay \/ ticked
  /\ day' = IF day < MaxDay THEN day + 1 ELSE day
  /\ ticked' = FALSE
  /\ UNCHANGED <<template, start, made, broken, runs, edits, crashes, overlap>>

(* The server goes down, with every list and every open transaction. *)
Crash ==
  /\ crashes < MaxCrashes /\ crashes' = crashes + 1
  /\ todo' = [r \in Runners |-> {}] /\ seen' = [r \in Runners |-> None]
  /\ UNCHANGED <<template, start, made, broken, day, ticked, edits, overlap>>

Run(r) ==
  \/ \E t \in Templates : NotNow(r, t) \/ Read(r, t)
  \/ PastEnd(r) \/ Generate(r) \/ Fails(r)

RecurringNext ==
  \/ \E t \in Templates, auto \in BOOLEAN, end \in Ends :
       \/ \E d \in Starts : CreateRecurring(t, d, auto, end)
       \/ \E s \in {"active", "paused", "ended"} : UpdateRecurring(t, s, auto, end)
  \/ \E t \in Templates : Misconfigure(t) \/ \E r \in Requests : RunOne(r, t)
  \/ \E r \in Requests : ProcessDue(r)
  \/ \E r \in Runners : Run(r)
  \/ Tick \/ NewDay \/ Crash

(* Days pass, the cron job ticks on each, and a list it began is worked off. *)
Fairness ==
  /\ WF_recurringVars(NewDay) /\ WF_recurringVars(Tick)
  /\ WF_recurringVars(Run(Scheduler))

RecurringSpec == RecurringInit /\ [][RecurringNext]_recurringVars /\ Fairness

-----------------------------------------------------------------------------
(* A date has one expense, unless two runs had read the template at a time. *)
OncePerDate ==
  \A t \in Templates \ overlap, d \in Days : made[t][d] <= 1

(* No date of the schedule is left out, however runs overlap, fail and come  *)
(* late: the next run and every date with an expense follow a date with an   *)
(* expense, back to the start date.                                          *)
Dates(t) == {d \in Days : made[t][d] > 0}
Follows(t, d) == d = start[t] \/ \E p \in Dates(t) : d = NextRun(p)

NoDateSkipped ==
  \A t \in Templates :
    template[t].status # "none" =>
      /\ Follows(t, template[t].next)
      /\ \A d \in Dates(t) : Follows(t, d)

(* A template that stays active, posts by itself, has no end and can       *)
(* generate, gets the expense of every date, also of those that were       *)
(* missed, as long as the templates that are due and fail every day do not *)
(* fill the list.                                                          *)
Healthy(t) ==
  /\ template[t].status = "active" /\ template[t].auto
  /\ template[t].end = Never /\ t \notin broken

Stuck == {t \in Templates : PostsItself(t) /\ t \in broken}

=============================================================================
