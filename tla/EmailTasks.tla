----------------------------- MODULE EmailTasks -----------------------------
(***************************************************************************)
(* The confirmation and password-reset tasks of app/tasks/email_tasks.py,  *)
(* which differ in their texts only, on the one solo worker that           *)
(* docker-compose.yml starts.  The broker acknowledges a message when the  *)
(* worker takes it (Celery's default), so a task that is running when the  *)
(* worker dies is not run again, and a retry is a new message.             *)
(***************************************************************************)
EXTENDS Naturals, FiniteSets

CONSTANTS
    Emails,      \* tasks
    Invalid,     \* those whose recipient is not a valid address
    MaxRetries,  \* 5, max_retries of both tasks
    MaxCrashes   \* bound: deaths of the worker

ASSUME EmailAssumption ==
    Invalid \subseteq Emails /\ MaxRetries \in Nat /\ MaxCrashes \in Nat

Over == {"sent", "skipped", "rejected", "exhausted", "lost"}

VARIABLES
    status,    \* of each task
    retries,   \* self.request.retries
    runs,      \* history: how often it was run
    accepted,  \* history: how often the mail server took the message
    unheard,   \* history: how often it did and the worker saw an error
    crashes    \* history: deaths of the worker

taskVars == <<status, retries, runs, accepted, unheard, crashes>>

TasksTypeOK ==
    /\ status \in [Emails -> {"none", "queued", "running"} \cup Over]
    /\ retries \in [Emails -> 0..MaxRetries]
    /\ runs \in [Emails -> Nat]
    /\ accepted \in [Emails -> Nat]
    /\ unheard \in [Emails -> Nat]
    /\ crashes \in 0..MaxCrashes

TasksInit ==
    /\ status = [e \in Emails |-> "none"]
    /\ retries = [e \in Emails |-> 0]
    /\ runs = [e \in Emails |-> 0]
    /\ accepted = [e \in Emails |-> 0]
    /\ unheard = [e \in Emails |-> 0]
    /\ crashes = 0

Become(e, s) == status' = [status EXCEPT ![e] = s]
Count(f, e) == [f EXCEPT ![e] = @ + 1]

(***************************************************************************)
(* The auth service queues the task (delay).                               *)
(***************************************************************************)
Delay(e) ==
    /\ status[e] = "none"
    /\ Become(e, "queued")
    /\ UNCHANGED <<retries, runs, accepted, unheard, crashes>>

(***************************************************************************)
(* The worker takes a message when it runs none.                           *)
(***************************************************************************)

(* A bug: retries go to a queue that no worker reads.                       *)
StartFresh(e) ==
    /\ status[e] = "queued"
    /\ retries[e] = 0
    /\ \A f \in Emails : status[f] # "running"
    /\ Become(e, "running")
    /\ runs' = Count(runs, e)
    /\ UNCHANGED <<retries, accepted, unheard, crashes>>

Start(e) ==
    /\ status[e] = "queued"
    /\ \A f \in Emails : status[f] # "running"
    /\ Become(e, "running")
    /\ runs' = Count(runs, e)
    /\ UNCHANGED <<retries, accepted, unheard, crashes>>

(***************************************************************************)
(* _is_valid_recipient is false: the task returns.                         *)
(***************************************************************************)
Skip(e) ==
    /\ status[e] = "running"
    /\ e \in Invalid
    /\ Become(e, "skipped")
    /\ UNCHANGED <<retries, runs, accepted, unheard, crashes>>

Sending(e) == status[e] = "running" /\ e \notin Invalid

Send(e) ==
    /\ Sending(e)
    /\ Become(e, "sent")
    /\ accepted' = Count(accepted, e)
    /\ UNCHANGED <<retries, runs, unheard, crashes>>

(***************************************************************************)
(* SMTPRecipientsRefused, or a response from 500 to 599: the task returns. *)
(***************************************************************************)
Reject(e) ==
    /\ Sending(e)
    /\ Become(e, "rejected")
    /\ UNCHANGED <<retries, runs, accepted, unheard, crashes>>

(* A bug: max_retries counts from one.                                      *)
RetryOnceMore(e) ==
    IF retries[e] <= MaxRetries
    THEN Become(e, "queued") /\ retries' = Count(retries, e)
    ELSE Become(e, "exhausted") /\ UNCHANGED retries

(* A bug: the retry is a fresh task.                                        *)
RetryAfresh(e) == Become(e, "queued") /\ UNCHANGED retries

(***************************************************************************)
(* autoretry_for: any other exception queues the task again, until         *)
(* max_retries.                                                            *)
(***************************************************************************)
Retry(e) ==
    IF retries[e] < MaxRetries
    THEN Become(e, "queued") /\ retries' = Count(retries, e)
    ELSE Become(e, "exhausted") /\ UNCHANGED retries

(* A bug: the error after the server took the message counts as sent twice. *)
FailTwice(e) ==
    /\ Sending(e)
    /\ Retry(e)
    /\ accepted' = Count(accepted, e)
    /\ UNCHANGED <<runs, unheard, crashes>>

FailBeforeAccept(e) ==
    /\ Sending(e)
    /\ Retry(e)
    /\ UNCHANGED <<runs, accepted, unheard, crashes>>

(***************************************************************************)
(* The server took the message and the connection broke before send_email  *)
(* returned.                                                               *)
(***************************************************************************)
FailAfterAccept(e) ==
    /\ Sending(e)
    /\ Retry(e)
    /\ accepted' = Count(accepted, e)
    /\ unheard' = Count(unheard, e)
    /\ UNCHANGED <<runs, crashes>>

(***************************************************************************)
(* The worker dies while it runs the task, and is restarted.               *)
(***************************************************************************)
Crash(e) ==
    /\ status[e] = "running"
    /\ crashes < MaxCrashes
    /\ crashes' = crashes + 1
    /\ Become(e, "lost")
    /\ UNCHANGED <<retries, runs, accepted, unheard>>

Work(e) ==
    \/ Start(e) \/ Skip(e) \/ Send(e) \/ Reject(e)
    \/ FailBeforeAccept(e) \/ FailAfterAccept(e)

TasksNext == \E e \in Emails : Delay(e) \/ Work(e) \/ Crash(e)

(***************************************************************************)
(* The worker goes on while there is a message or a task.                  *)
(***************************************************************************)
TasksSpec == TasksInit /\ [][TasksNext]_taskVars /\ WF_taskVars(\E e \in Emails : Work(e))

-----------------------------------------------------------------------------

(***************************************************************************)
(* A task runs at most once and max_retries times more, over all its       *)
(* messages.                                                               *)
(***************************************************************************)
RunsBounded == \A e \in Emails : runs[e] <= MaxRetries + 1

(***************************************************************************)
(* A recipient gets a second mail only when the server took one and the    *)
(* worker did not hear of it; a task that reports success sent one; an     *)
(* invalid recipient gets none.                                            *)
(***************************************************************************)
NoNeedlessMail ==
    \A e \in Emails :
        /\ accepted[e] <= unheard[e] + (IF status[e] = "sent" THEN 1 ELSE 0)
        /\ status[e] = "sent" => accepted[e] > 0
        /\ e \in Invalid => accepted[e] = 0

(***************************************************************************)
(* Every task that was queued is over some day: sent, skipped, rejected,   *)
(* given up after its retries, or lost with the worker.                    *)
(***************************************************************************)
TasksEnd == \A e \in Emails : status[e] = "queued" ~> status[e] \in Over
=============================================================================
