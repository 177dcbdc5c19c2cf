-------------------------------- MODULE MCSends --------------------------------
(* Small instances for TLC of how jobs are sent and edited (Sends) and of how the *)
(* jobs of schedules are forwarded (SendIt).  `part' says which of the two a      *)
(* behaviour is about; the other stands still.                                    *)
EXTENDS Sends, TLC

CONSTANTS Names, Expressions, Instances, None, RetryLimit, MaxSlot, MaxEdits, MaxSendFaults

VARIABLES
    part, slot, passed, rows, pass, queue, batch, sent, due, reported, newest, crossed,
    edits, sendFaults

Fwd == INSTANCE SendIt WITH faults <- sendFaults, MaxFaults <- MaxSendFaults

ASSUME ForwardingAssumption == Fwd!SendItAssumption

\* The calls a caller may make: how a job is looked for and where it is to start.
Asked ==
    {Request("insert", "key", "newest", -1), Request("send", "key", "newest", -1),
     Request("throttle", "key", "newest", -1), Request("debounce", "key", "newest", -1),
     Request("update", "key", "oldest", 3), Request("upsert", "key", "newest", -1),
     Request("upsert", "key", "all", 1), Request("upsert", "id", "newest", -1)}

\* A sender's clock that lags, is right, leads by what the delay makes up for, or by more.
SomeErrors == -1 .. 2

Backends == {<<"standard", FALSE>>, <<"standard", TRUE>>, <<"exclusive", FALSE>>}

\* Two formats, and an expression that can be read as neither.
SomeExpressions ==
    {[written |-> "cron", usable |-> TRUE], [written |-> "rrule", usable |-> TRUE],
     [written |-> "cron", usable |-> FALSE]}

AllSymmetric == Permutations(Callers)

scheduleVars == <<slot, passed, rows, pass, queue, batch, sent, due, reported, newest, crossed,
                  edits, sendFaults>>
allVars == <<part, vars, scheduleVars>>

SendsRest ==
    /\ policy = "standard" /\ serializable = FALSE /\ now = FirstTime /\ faults = 0
    /\ jobs = [j \in Ids |-> NoRow]
    /\ calls = [c \in Callers |-> Idle]

AllInit ==
    \/ part = "sends" /\ Init /\ Fwd!Init
    \/ part = "schedules" /\ SendsRest /\ Fwd!Init

SendsStep == part = "sends" /\ Next /\ UNCHANGED <<part, scheduleVars>>

ForwardStep == part = "schedules" /\ Fwd!Next /\ UNCHANGED <<part, vars>>

AllNext == SendsStep \/ ForwardStep

AllSpec == AllInit /\ [][AllNext]_allVars

\* SendIt's ForwardingSound: each occurrence a pass found is filed, and forwarded or
\* reported; only a lost claim forwards one again, and no edit is mislabelled.
ForwardingSound == Fwd!ForwardingSound
================================================================================
