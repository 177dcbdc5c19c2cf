--------------------------------- MODULE Lists ---------------------------------
(***************************************************************************)
(* Reading a long list page by page while its rows come, go and move.      *)
(*                                                                         *)
(* The dashboard's lists carry the key values of the page's first and last *)
(* rows in a cursor; keysetPage() reads strictly past or strictly ahead of *)
(* it.  The core's list methods take `after`, the previous page's last     *)
(* row: by its values, by a row whose order is read back in the statement  *)
(* (getInstances, getBamEntries), or by one read ahead of it (findJobs).   *)
(* Every statement reads one snapshot; rows change between statements.     *)
(*                                                                         *)
(* A row is named by <<name, id>>: a queue and a job id, a schedule and    *)
(* its key, a table's created_on and id.  `at` is the column the list      *)
(* orders by ahead of those.                                               *)
(***************************************************************************)
EXTENDS Integers, FiniteSets, Sequences, SequencesExt

CONSTANTS
    Slots,      \* the rows there may be, <<name, id>>
    Times,      \* values of `at`
    Limits,     \* page sizes
    MaxChanges, \* bound: changes to rows
    MaxPage     \* bound: pages deep

Null == -1
Infinity == 99
Absent == [at |-> Null, matches |-> FALSE, there |-> FALSE]
Gone == [at |-> Null, matches |-> TRUE, there |-> FALSE]
NoValues == <<>>

VARIABLES
    list,       \* the list read, one of Lists
    limit,
    rows,       \* the table
    page,       \* the page shown
    request,    \* the statement a page still waits for
    changes,    \* changes so far
    seen,       \* ghost: rows shown since the first page
    stayed,     \* ghost: rows in the list, unmoved, since the first page
    lost        \* ghost: the row `after` names was deleted or moved

tableVars == <<rows, changes>>
vars == <<list, limit, rows, page, request, changes, seen, stayed, lost>>

-----------------------------------------------------------------------------
(* The lists. *)

Key(expr, desc) == [expr |-> expr, desc |-> desc]

SortKeys(sort, desc, tiebreak) ==
    <<Key(sort, desc)>> \o SelectSeq(tiebreak, LAMBDA k : k.expr # sort)

JobKeys == <<Key("at", TRUE), Key("id", TRUE), Key("name", TRUE)>>
QueueJobKeys == <<Key("at", TRUE), Key("id", TRUE)>>
ScheduleKeys == <<Key("name", FALSE), Key("id", FALSE)>>
BamTiebreak == <<Key("name", TRUE), Key("id", TRUE)>>

\* How a list is read.  `one` lists a single queue's rows or a table without
\* queues; `merged` reads each queue's page and merges them; `filtered` has a
\* filter that rows leave and enter; `finished` asks for `at` to be set,
\* `coalesced` orders rows without one last; `moves` has `at` change; `recurs`
\* has rows deleted and written again; `core` is how the core's `after` finds
\* its row.
List(keys) ==
    [keys |-> keys, one |-> FALSE, merged |-> FALSE, filtered |-> FALSE, finished |-> FALSE,
     coalesced |-> FALSE, moves |-> FALSE, recurs |-> TRUE, core |-> "none"]

\* The dashboard's.  The same id can sit in two queues, so name ends the tie.
RecentJobs == [List(JobKeys) EXCEPT !.merged = TRUE, !.filtered = TRUE]
FinishedJobs == [List(JobKeys) EXCEPT !.merged = TRUE, !.finished = TRUE, !.moves = TRUE]
QueueJobs == [List(QueueJobKeys) EXCEPT !.one = TRUE, !.filtered = TRUE]
QueuesByCount ==
    [List(SortKeys("at", TRUE, <<Key("id", FALSE)>>)) EXCEPT !.one = TRUE, !.moves = TRUE]
WarningsByType ==
    [List(SortKeys("at", FALSE, <<Key("id", TRUE)>>)) EXCEPT !.one = TRUE, !.recurs = FALSE]
BamByStarted ==
    [List(SortKeys("at", FALSE, BamTiebreak)) EXCEPT !.coalesced = TRUE, !.moves = TRUE, !.recurs = FALSE]
SchedulesByKey == List(SortKeys("id", TRUE, ScheduleKeys))

\* The core's.
FindJobsList ==
    [List(<<Key("at", FALSE), Key("id", FALSE)>>) EXCEPT
        !.one = TRUE, !.filtered = TRUE, !.core = "anchor"]
GetInstances ==
    [List(<<Key("at", FALSE), Key("id", FALSE)>>) EXCEPT
        !.one = TRUE, !.moves = TRUE, !.core = "row"]
GetBamEntries ==
    [List(<<Key("at", FALSE), Key("name", FALSE), Key("id", FALSE)>>) EXCEPT
        !.recurs = FALSE, !.core = "row"]
GetSchedules == [List(ScheduleKeys) EXCEPT !.core = "value"]
GetDependencies == [List(<<Key("name", FALSE), Key("id", FALSE)>>) EXCEPT !.core = "value"]
GetDependents == [List(<<Key("name", FALSE), Key("id", FALSE)>>) EXCEPT !.core = "value"]
GetQueues == [List(<<Key("id", FALSE)>>) EXCEPT !.one = TRUE, !.core = "value"]
GetBlockedKeys ==
    [List(<<Key("id", FALSE)>>) EXCEPT !.one = TRUE, !.filtered = TRUE, !.core = "value"]

Lists ==
    {RecentJobs, FinishedJobs, QueueJobs, QueuesByCount, WarningsByType, BamByStarted,
     SchedulesByKey, FindJobsList, GetInstances, GetBamEntries, GetSchedules,
     GetDependencies, GetDependents, GetQueues, GetBlockedKeys}

ByAnchor == list.core \in {"row", "anchor"}

\* The rows a list's table may hold, and the values of `at` in them.
Held == {s \in Slots : list.one => s[1] = 1}
Ats ==
    IF \A i \in DOMAIN list.keys : list.keys[i].expr # "at" THEN {Null}
    ELSE IF list.finished \/ list.coalesced THEN Times \cup {Null} ELSE Times

\* COALESCE(started_on, 'infinity'): a comparison with null matches nothing.
Expr(r, k, s) ==
    CASE k.expr = "name" -> s[1]
      [] k.expr = "id" -> s[2]
      [] k.expr = "at" -> IF r[s].at = Null /\ list.coalesced THEN Infinity ELSE r[s].at

Values(r, s) == [i \in DOMAIN list.keys |-> Expr(r, list.keys[i], s)]

\* A timestamp that went through a JS Date.
CursorSelectRounded(r, s) ==
    [i \in DOMAIN list.keys |->
        LET v == Expr(r, list.keys[i], s) IN
        IF list.keys[i].expr = "at" /\ v \in Times THEN v - (v % 2) ELSE v]

\* cursorSelect(): text keeps every digit.
CursorSelect(r, s) == Values(r, s)

Follows(k, a, b, backward) ==
    /\ a # Null /\ b # Null
    /\ IF k.desc # backward THEN a < b ELSE a > b

\* Keys that all run one way compare as a row, by the first key's operator;
\* mixed ones expand to a chain of comparisons.
KeysetCondition(values, from, backward) ==
    LET uniform == \A i \in DOMAIN list.keys : list.keys[i].desc = list.keys[1].desc IN
    \E i \in DOMAIN list.keys :
        /\ \A j \in 1..(i - 1) : values[j] = from[j]
        /\ Follows(list.keys[IF uniform THEN 1 ELSE i], values[i], from[i], backward)

\* keysetOrderBy(): the order of the values, each key in its own direction.
Ahead(v, w, backward) ==
    \E i \in DOMAIN list.keys :
        /\ \A j \in 1..(i - 1) : v[j] = w[j]
        /\ Follows(list.keys[i], w[i], v[i], backward)

\* The list's rows: buildRecentJobsWhere() and the like.
Matching(r) ==
    {s \in Held : /\ r[s].there
                  /\ list.filtered => r[s].matches
                  /\ list.finished => r[s].at # Null}

First(n, seq) == SubSeq(seq, 1, IF n < Len(seq) THEN n ELSE Len(seq))
Sorted(S, backward) ==
    SetToSortSeq(S, LAMBDA s, t : Ahead(Values(rows, s), Values(rows, t), backward))

\* A plan reads strictly past its values, or from the start.
Plan(values, backward) == [values |-> values, backward |-> backward]
FromStart == Plan(NoValues, FALSE)

\* getRecentJobs(): each queue's first rows, merged.
Merged(S, backward, n) ==
    LET names == {s[1] : s \in Held} IN
    UNION {ToSet(First(n, Sorted({s \in S : s[1] = name}, backward))) : name \in names}

Read(plan, n) ==
    LET past == {s \in Matching(rows) :
                    \/ plan.values = NoValues
                    \/ KeysetCondition(Values(rows, s), plan.values, plan.backward)}
        from == IF list.merged THEN Merged(past, plan.backward, n) ELSE past
    IN  First(n, Sorted(from, plan.backward))

-----------------------------------------------------------------------------
(* Showing a page. *)

NoPage == [slots |-> <<>>, values |-> <<>>, next |-> NoValues, prev |-> NoValues,
           number |-> 0, way |-> "none", end |-> FALSE, refused |-> FALSE]
NoRequest == [step |-> "none", plan |-> FromStart, number |-> 0, way |-> "none"]

Show(slots, next, prev, number, way, end) ==
    /\ page' = [slots |-> slots,
                values |-> [i \in DOMAIN slots |-> Values(rows, slots[i])],
                next |-> next, prev |-> prev, number |-> number, way |-> way,
                end |-> end, refused |-> FALSE]
    /\ request' = NoRequest
    /\ seen' = (IF page = NoPage THEN {} ELSE seen) \cup ToSet(slots)
    /\ stayed' = IF page = NoPage THEN Matching(rows) ELSE stayed
    /\ UNCHANGED lost

\* A backward read that reaches the start shown as it is.
KeysetPageShort(plan, number, way) ==
    LET got == Read(plan, limit + 1)
        shown == IF plan.backward THEN Reverse(First(limit, got)) ELSE First(limit, got)
        cursor(i) == IF shown = <<>> THEN NoValues ELSE CursorSelect(rows, shown[i])
    IN  Show(shown, IF Len(got) > limit THEN cursor(Len(shown)) ELSE NoValues,
             cursor(1), number, way, Len(got) <= limit)

\* keysetPage(): limit + 1 rows, a backward read put back in display order.
KeysetPage(plan, number, way) ==
    LET got == Read(plan, limit + 1)
        more == Len(got) > limit
        shown == IF plan.backward THEN Reverse(First(limit, got)) ELSE First(limit, got)
        hasNext == plan.backward \/ more
        hasPrev == plan.backward \/ plan.values # NoValues
        cursor(i) == IF shown = <<>> THEN NoValues ELSE CursorSelect(rows, shown[i])
    IN  IF plan.backward /\ ~more
        THEN /\ request' = [step |-> "again", plan |-> FromStart, number |-> number, way |-> "first"]
             /\ UNCHANGED <<page, seen, stayed, lost>>
        ELSE Show(shown,
                  IF hasNext THEN cursor(Len(shown)) ELSE NoValues,
                  IF hasPrev THEN cursor(1) ELSE NoValues,
                  IF hasPrev THEN number ELSE 1,
                  IF hasPrev THEN way ELSE "first", ~hasNext)

\* A core page: limit rows, and the last one is the next call's `after`.
CorePage(plan, number, way) ==
    LET got == Read(plan, limit) IN
    Show(got, IF got = <<>> THEN NoValues ELSE Values(rows, Last(got)), NoValues,
         number, way, got = <<>>)

Idle == request = NoRequest /\ ~page.refused

\* The first page.
Open ==
    /\ Idle /\ page = NoPage
    /\ IF list.core = "none" THEN KeysetPage(FromStart, 1, "first") ELSE CorePage(FromStart, 1, "first")
    /\ UNCHANGED <<list, limit, tableVars>>

\* pagingSearchParams(): page 1, or a page without a cursor, starts over.
Go(number, cursor, backward, way) ==
    IF number <= 1 \/ cursor = NoValues
    THEN KeysetPage(FromStart, 1, "first")
    ELSE KeysetPage(Plan(cursor, backward), number, way)

NextPage ==
    /\ Idle /\ list.core = "none"
    /\ page.next # NoValues /\ page.number < MaxPage
    /\ Go(page.number + 1, page.next, FALSE, "next")
    /\ UNCHANGED <<list, limit, tableVars>>

PrevPage ==
    /\ Idle /\ list.core = "none"
    /\ page.number > 1
    /\ Go(page.number - 1, page.prev, TRUE, "prev")
    /\ UNCHANGED <<list, limit, tableVars>>

ReadAgain ==
    /\ request.step = "again"
    /\ KeysetPage(request.plan, request.number, request.way)
    /\ UNCHANGED <<list, limit, tableVars>>

Refuse ==
    /\ page' = [page EXCEPT !.refused = TRUE]
    /\ request' = NoRequest
    /\ UNCHANGED <<seen, stayed, lost>>

\* What the row `after` names orders by, or nothing when it is gone.
AnchorSlot == Last(page.slots)
Anchored == rows[AnchorSlot].there
AnchorPlan == Plan(Values(rows, AnchorSlot), FALSE)

\* getQueues(), getSchedules(), getDependencies(), getDependents(),
\* getBlockedKeys(): by the values themselves.
NextByValue ==
    /\ Idle /\ list.core = "value" /\ page.next # NoValues /\ page.number < MaxPage
    /\ CorePage(Plan(page.next, FALSE), page.number + 1, "next")
    /\ UNCHANGED <<list, limit, tableVars>>

\* getInstances(), getBamEntries(): the row is read in the statement, and an
\* empty page asks whether the row is still there.
NextByRow ==
    /\ Idle /\ list.core = "row" /\ page.next # NoValues /\ page.number < MaxPage
    /\ IF Anchored /\ Read(AnchorPlan, limit) # <<>>
       THEN CorePage(AnchorPlan, page.number + 1, "next")
       ELSE /\ request' = [NoRequest EXCEPT !.step = "exists"]
            /\ UNCHANGED <<page, seen, stayed, lost>>
    /\ UNCHANGED <<list, limit, tableVars>>

RowExists ==
    /\ request.step = "exists"
    /\ IF Anchored
       THEN /\ page' = [page EXCEPT !.end = TRUE, !.next = NoValues]
            /\ request' = NoRequest
            /\ UNCHANGED <<seen, stayed, lost>>
       ELSE Refuse
    /\ UNCHANGED <<list, limit, tableVars>>

\* findJobs(): findJobsAnchor, then the page.
FindAnchor ==
    /\ Idle /\ list.core = "anchor" /\ page.next # NoValues /\ page.number < MaxPage
    /\ IF Anchored
       THEN /\ request' = [step |-> "find", plan |-> AnchorPlan,
                           number |-> page.number + 1, way |-> "next"]
            /\ UNCHANGED <<page, seen, stayed, lost>>
       ELSE Refuse
    /\ UNCHANGED <<list, limit, tableVars>>

FindJobs ==
    /\ request.step = "find"
    /\ CorePage(request.plan, request.number, request.way)
    /\ UNCHANGED <<list, limit, tableVars>>

-----------------------------------------------------------------------------
(* Everyone else. *)

Disturb(s) ==
    /\ changes < MaxChanges
    /\ changes' = changes + 1
    /\ stayed' = stayed \ {s}
    /\ lost' = (lost \/ (ByAnchor /\ page.slots # <<>> /\ s = AnchorSlot))
    /\ UNCHANGED <<list, limit, page, request, seen>>

\* A transaction commits with the time it began, so a row may appear anywhere.
\* An id of bam or warning never returns; a name does, a redriven job and an
\* instance that was pruned and beats again too.
Insert(s) ==
    /\ ~rows[s].there
    /\ list.recurs \/ rows[s] # Gone
    /\ \E at \in Ats : rows' = [rows EXCEPT ![s] = [at |-> at, matches |-> TRUE, there |-> TRUE]]
    /\ Disturb(s)

Delete(s) ==
    /\ rows[s].there
    /\ rows' = [rows EXCEPT ![s] = Gone]
    /\ Disturb(s)

\* The column the list is ordered by changes.
Move(s) ==
    /\ rows[s].there /\ list.moves
    /\ \E at \in Ats \ {rows[s].at} : rows' = [rows EXCEPT ![s].at = at]
    /\ Disturb(s)

\* A job leaves or enters the state the list is filtered by.
Cross(s) ==
    /\ rows[s].there /\ list.filtered
    /\ rows' = [rows EXCEPT ![s].matches = ~@]
    /\ changes < MaxChanges /\ changes' = changes + 1
    /\ stayed' = stayed \ {s}
    /\ UNCHANGED <<list, limit, page, request, seen, lost>>

-----------------------------------------------------------------------------

Init ==
    /\ list \in Lists
    /\ limit \in Limits
    /\ rows \in [Held -> [at : Ats, matches : {TRUE}, there : {TRUE}] \cup {Absent}]
    /\ page = NoPage /\ request = NoRequest
    /\ changes = 0
    /\ seen = {} /\ stayed = {} /\ lost = FALSE

Next ==
    \/ Open \/ NextPage \/ PrevPage \/ ReadAgain
    \/ NextByValue \/ NextByRow \/ RowExists \/ FindAnchor \/ FindJobs
    \/ \E s \in Held : Insert(s) \/ Delete(s) \/ Move(s) \/ Cross(s)

Spec == Init /\ [][Next]_vars

-----------------------------------------------------------------------------
(* Properties. *)

\* A walk that reaches the end of a list has shown every row that was in it,
\* unmoved, since the first page, whichever way it went and whatever else came,
\* went or moved meanwhile.  A core walk that cannot say so because the row its
\* `after` names is gone is refused, and only then (keysetPage(), findJobs(),
\* getInstances(), getBamEntries()).  An instance restarted while it is the one
\* `after` names has moved, and takes the walk along.
WalkComplete ==
    /\ page.end /\ ~lost => stayed \subseteq seen
    /\ page.end /\ list.core = "row" /\ ~list.moves => stayed \subseteq seen
    /\ page.refused => lost

\* Next shows rows past everything on the page before, previous rows ahead of
\* it, and every page is in order, so no unmoved row is shown on both.
PagesInOrder ==
    [][page' # page /\ ~page'.refused /\ page'.slots # page.slots =>
        /\ \A i, j \in DOMAIN page'.values :
                i < j => Ahead(page'.values[i], page'.values[j], FALSE)
        /\ page'.way = "next" /\ ~lost =>
                \A i \in DOMAIN page.values, j \in DOMAIN page'.values :
                    Ahead(page.values[i], page'.values[j], FALSE)
        /\ page'.way = "prev" =>
                /\ Len(page'.slots) = limit
                /\ \A i \in DOMAIN page.values, j \in DOMAIN page'.values :
                        Ahead(page'.values[j], page.values[i], FALSE)]_vars

=============================================================================
