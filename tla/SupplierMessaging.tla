--------------------------- MODULE SupplierMessaging ---------------------------
(***************************************************************************)
(* Messages to the supplier of ONE supplier request: sending the request,  *)
(* reminding the supplier, confirming an order, each by a call of the      *)
(* mail provider BETWEEN two database transactions.  Calls of the service  *)
(* overlap, die at any step, lose the provider's answer or fail to record  *)
(* it, and are made again by the user.                                     *)
(*                                                                         *)
(* A transaction here writes its rows once each and reads nothing: it is   *)
(* one step, or it fails as a whole (RecordFails; two of them lock thread  *)
(* and request in opposite order, so that PostgreSQL may end one).  Texts, *)
(* the copy of a message's status on the two request rows and the notices  *)
(* to the bakery's own staff are left out.                                 *)
(***************************************************************************)
EXTENDS Integers, Sequences

CONSTANTS
    MaxCalls,    \* BOUND: calls of the service, numbered as they arrive
    Channels,    \* EMAIL, SMS
    Email,
    Reachable,   \* the channels the supplier has an address for
    Day,         \* 24 hours, in ticks of the clock
    MaxTime      \* BOUND: the clock stops there

ASSUME MessagingAssumption ==
    /\ Email \in Channels
    /\ Reachable \subseteq Channels
    /\ Day \in Nat /\ MaxTime \in Nat /\ MaxCalls \in Nat

Calls == 1 .. MaxCalls

VARIABLES
    thread,      \* SupplierMessage rows of the bakery, in createdAt order
    status,      \* of the SupplierRequest
    channel,     \* its messageChannel
    reminder,    \* its reminderCount and lastReminderAt
    target,      \* whether the supplier has an emailTargetId, an smsTargetId
    call,        \* local state of each call
    clock,
    taken,       \* how often the provider took each message
    reminded,    \* the `now' of the calls whose reminder the provider took
    created,     \* targets created at the provider, by channel
    abandoned,   \* messages whose call died
    doubts,      \* how often the service lost track of each message
    contested    \* channels whose targets were set up in disorder

rows    == <<thread, status, channel, reminder, target>>
sent    == <<taken, reminded, created>>
trouble == <<abandoned, doubts, contested>>
vars    == <<rows, call, clock, sent, trouble>>

NoMessage == 0
Never     == -1

Retryable == {"DRAFT", "SENDING", "FAILED"}
Kinds     == {"request", "reminder", "confirmation"}
Message   == [kind : Kinds, status : Retryable \cup {"SENT"}]
Steps     == {"idle", "draft", "remind", "target", "create", "store",
              "start", "deliver", "record", "fail", "done"}
Call      == [pc : Steps, op : {"send", "remind", "confirm"}, channel : Channels,
              message : Nat, text : Kinds, now : Nat, known : [Channels -> BOOLEAN]]

NoTargets == [c \in Channels |-> FALSE]
IdleCall == [pc |-> "idle", op |-> "send", channel |-> Email, message |-> NoMessage,
             text |-> "request", now |-> 0, known |-> NoTargets]

(* createProcurementRequest leaves a draft in the new thread. *)
Init ==
    /\ thread = << [kind |-> "request", status |-> "DRAFT"] >>
    /\ status = "READY_TO_SEND"
    /\ channel = Email
    /\ reminder = [count |-> 0, last |-> Never]
    /\ target = NoTargets
    /\ call = [p \in Calls |-> IdleCall]
    /\ clock = 0
    /\ taken = << 0 >>
    /\ reminded = <<>>
    /\ created = [c \in Channels |-> 0]
    /\ abandoned = {}
    /\ doubts = << 0 >>
    /\ contested = {}

Active(p)   == call[p].pc \notin {"idle", "done"}
Goto(p, pc) == call' = [call EXCEPT ![p].pc = pc]
Finish(p)   == call' = [call EXCEPT ![p] = [IdleCall EXCEPT !.pc = "done"]]
Arrive(p)   ==
    /\ call[p].pc = "idle"
    /\ \A q \in Calls : q < p => call[q].pc # "idle"

(* findOutboundMessage: the newest message that may be sent again, if any. *)
Sendable      == {m \in DOMAIN thread : thread[m].status \in Retryable}
AnyOutbound   == {Len(thread)}                          \* mutant: SENT too
Outbound      == {m \in Sendable : \A n \in Sendable : n <= m}

Append1(kind, s) ==
    /\ thread' = Append(thread, [kind |-> kind, status |-> s])
    /\ taken' = Append(taken, 0)
    /\ doubts' = Append(doubts, 0)

(* The service loses track of a message: two calls carry it, its answer is *)
(* lost, or what became of it is not recorded.                             *)
Doubted(m)  == doubts' = [doubts EXCEPT ![m] = @ + 1]
Carried(m)  == \E q \in Calls : call[q].message = m
PickedUp(m) == IF Carried(m) THEN Doubted(m) ELSE UNCHANGED doubts

-----------------------------------------------------------------------------
(* sendSupplierRequestMessage. *)
Send(p, c) ==
    /\ Arrive(p)
    /\ \/ /\ Outbound = {}
          /\ call' = [call EXCEPT ![p] = [@ EXCEPT !.op = "send", !.channel = c, !.pc = "draft"]]
          /\ UNCHANGED doubts
       \/ \E m \in Outbound :
             /\ PickedUp(m)
             /\ call' = [call EXCEPT ![p] = [@ EXCEPT !.op = "send", !.channel = c, !.message = m,
                                                      !.text = thread[m].kind, !.pc = "target"]]
    /\ UNCHANGED <<rows, clock, sent, abandoned, contested>>

(* generateSupplierMessageDraft reads the thread once more, and makes a    *)
(* draft of the request of what it finds.                                  *)
Draft(p) ==
    /\ call[p].pc = "draft"
    /\ \/ \E m \in Outbound :
             /\ PickedUp(m)
             /\ thread' = [thread EXCEPT ![m] = [kind |-> "request", status |-> "DRAFT"]]
             /\ call' = [call EXCEPT ![p] = [@ EXCEPT !.message = m, !.pc = "target"]]
             /\ UNCHANGED taken
       \/ /\ Outbound = {}
          /\ Append1("request", "DRAFT")
          /\ call' = [call EXCEPT ![p] = [@ EXCEPT !.message = Len(thread) + 1, !.pc = "target"]]
    /\ UNCHANGED <<status, channel, reminder, target, clock, reminded, created, abandoned,
                   contested>>

(* sendSupplierReminderMessage: its checks, then its message row. *)
MayRemindUnsent == status # "ANSWERED"                 \* mutant: READY_TO_SEND too
MayRemind == status = "AWAITING_REPLY"
TooSoon == reminder.last # Never /\ clock - reminder.last < Day

Remind(p) ==
    /\ Arrive(p)
    /\ MayRemind
    /\ ~TooSoon
    /\ call' = [call EXCEPT ![p] = [@ EXCEPT !.op = "remind", !.channel = channel,
                                              !.text = "reminder", !.now = clock,
                                              !.pc = "remind"]]
    /\ UNCHANGED <<rows, clock, sent, trouble>>

CreateReminder(p) ==
    /\ call[p].pc = "remind"
    /\ \/ /\ Append1("reminder", "SENDING")
          /\ call' = [call EXCEPT ![p] = [@ EXCEPT !.message = Len(thread) + 1, !.pc = "target"]]
       \/ /\ Append1("reminder", "FAILED")              \* no provider is configured
          /\ Finish(p)
    /\ UNCHANGED <<status, channel, reminder, target, clock, reminded, created, abandoned,
                   contested>>

(* sendPurchaseOrderConfirmation: best effort, after an order was made. *)
Confirm(p) ==
    /\ Arrive(p)
    /\ status = "ANSWERED"
    /\ call' = [call EXCEPT ![p] = [@ EXCEPT !.op = "confirm", !.channel = Email,
                                              !.text = "confirmation", !.pc = "target"]]
    /\ UNCHANGED <<rows, clock, sent, trouble>>

-----------------------------------------------------------------------------
(* checkProvider, then ensureSupplierMessagingTarget (which checks again). *)
GiveUp(p) == IF call[p].op = "confirm" THEN Finish(p) ELSE Goto(p, "fail")
Ready(p)  == IF call[p].op = "send" THEN "start" ELSE "deliver"

Settling(q) == call[q].pc \in {"create", "store"}

FindTarget(p) ==
    /\ call[p].pc = "target"
    /\ \/ GiveUp(p) /\ UNCHANGED contested      \* no provider is ready, or no address
       \/ /\ call[p].channel \in Reachable
          /\ target[call[p].channel]
          /\ Goto(p, Ready(p))
          /\ UNCHANGED contested
       \/ /\ call[p].channel \in Reachable
          /\ ~target[call[p].channel]
          /\ call' = [call EXCEPT ![p] = [@ EXCEPT !.known = target, !.pc = "create"]]
          /\ contested' = contested \cup
                {c \in Channels : \E q \in Calls : Settling(q) /\ c \in {call[p].channel, call[q].channel}}
    /\ UNCHANGED <<rows, clock, sent, abandoned, doubts>>

CreateTarget(p) ==
    /\ call[p].pc = "create"
    /\ created' = [created EXCEPT ![call[p].channel] = @ + 1]
    /\ Goto(p, "store")
    /\ UNCHANGED <<rows, clock, taken, reminded, trouble>>

(* The supplier row is written with both targets, one of them as it was read. *)
StoreNothing(p) == target                               \* mutant: update left out
Stored(p) == [call[p].known EXCEPT ![call[p].channel] = TRUE]
StoreTarget(p) ==
    /\ call[p].pc = "store"
    /\ target' = Stored(p)
    /\ call' = [call EXCEPT ![p] = [@ EXCEPT !.known = NoTargets, !.pc = Ready(p)]]
    /\ UNCHANGED <<thread, status, channel, reminder, clock, sent, trouble>>

-----------------------------------------------------------------------------
(* The moment of a sending matters only for the reminder it may carry.     *)
SendingAt(p) == IF call[p].text = "reminder" THEN clock ELSE 0

StartSending(p) ==
    /\ call[p].pc = "start"
    /\ thread' = [thread EXCEPT ![call[p].message].status = "SENDING"]
    /\ channel' = call[p].channel
    /\ call' = [call EXCEPT ![p] = [@ EXCEPT !.now = SendingAt(p), !.pc = "deliver"]]
    /\ UNCHANGED <<status, reminder, target, clock, sent, trouble>>

(* createEmail, createSms: the provider takes the message and answers,     *)
(* takes it and its answer is lost, or refuses it.                         *)
Take(p) ==
    /\ taken' = IF call[p].op = "confirm" THEN taken
                ELSE [taken EXCEPT ![call[p].message] = @ + 1]
    /\ reminded' = IF call[p].text = "reminder" THEN Append(reminded, call[p].now) ELSE reminded
    /\ UNCHANGED created

(* A confirmation has no row yet that could be doubted. *)
LoseTrack(p) == IF call[p].op = "confirm" THEN UNCHANGED doubts ELSE Doubted(call[p].message)

Refused(p) == Goto(p, "record")                         \* mutant: error ignored
Refuse(p)  == GiveUp(p)

Deliver(p) ==
    /\ call[p].pc = "deliver"
    /\ \/ Take(p) /\ Goto(p, "record") /\ UNCHANGED doubts
       \/ Take(p) /\ GiveUp(p) /\ LoseTrack(p)
       \/ Refuse(p) /\ UNCHANGED <<sent, doubts>>
    /\ UNCHANGED <<rows, clock, abandoned, contested>>

RecordSent(p) ==
    /\ call[p].pc = "record" /\ call[p].op = "send"
    /\ thread' = [thread EXCEPT ![call[p].message].status = "SENT"]
    /\ status' = "AWAITING_REPLY"
    /\ channel' = call[p].channel
    /\ Finish(p)
    /\ UNCHANGED <<reminder, target, clock, sent, trouble>>

RememberTwice(p) == [count |-> reminder.count + 2, last |-> call[p].now]  \* mutant
Remember(p) == [count |-> reminder.count + 1, last |-> call[p].now]
RecordReminder(p) ==
    /\ call[p].pc = "record" /\ call[p].op = "remind"
    /\ thread' = [thread EXCEPT ![call[p].message].status = "SENT"]
    /\ reminder' = Remember(p)
    /\ Finish(p)
    /\ UNCHANGED <<status, channel, target, clock, sent, trouble>>

RecordConfirmation(p) ==
    /\ call[p].pc = "record" /\ call[p].op = "confirm"
    /\ thread' = Append(thread, [kind |-> "confirmation", status |-> "SENT"])
    /\ taken' = Append(taken, 1)
    /\ doubts' = Append(doubts, 0)
    /\ Finish(p)
    /\ UNCHANGED <<status, channel, reminder, target, clock, reminded, created, abandoned,
                   contested>>

(* The transaction is rolled back: the catch clause takes the message for  *)
(* one that was not sent.                                                  *)
RecordFails(p) ==
    /\ call[p].pc = "record"
    /\ GiveUp(p)
    /\ LoseTrack(p)
    /\ UNCHANGED <<rows, clock, sent, abandoned, contested>>

FailedAsRequest(p) ==                                   \* mutant: the request's status
    [thread EXCEPT ![call[p].message].status = "READY_TO_SEND"]
FailedNowhere(p) == thread                              \* mutant: request row only
FailedMessage(p) == [thread EXCEPT ![call[p].message].status = "FAILED"]
MarkSendFailure(p) ==
    /\ call[p].pc = "fail"
    /\ thread' = FailedMessage(p)
    /\ status' = "READY_TO_SEND"
    /\ Finish(p)
    /\ UNCHANGED <<channel, reminder, target, clock, sent, trouble>>

(* An exception outside the try block, or the server stops. *)
Die(p) ==
    /\ Active(p)
    /\ Finish(p)
    /\ abandoned' = abandoned \cup ({call[p].message} \ {NoMessage})
    /\ IF call[p].pc = "record" THEN LoseTrack(p) ELSE UNCHANGED doubts
    /\ contested' = IF call[p].pc = "store" THEN contested \cup {call[p].channel} ELSE contested
    /\ UNCHANGED <<rows, clock, sent>>

(* Quotation, order or receipt: the other writers of the status. *)
Answer ==
    /\ status' = "ANSWERED"
    /\ UNCHANGED <<thread, channel, reminder, target, call, clock, sent, trouble>>

Tick ==
    /\ clock < MaxTime
    /\ clock' = clock + 1
    /\ UNCHANGED <<rows, call, sent, trouble>>

Step(p) ==
    \/ Draft(p) \/ CreateReminder(p)
    \/ FindTarget(p) \/ CreateTarget(p) \/ StoreTarget(p)
    \/ StartSending(p) \/ Deliver(p)
    \/ RecordSent(p) \/ RecordReminder(p) \/ RecordConfirmation(p) \/ RecordFails(p)
    \/ MarkSendFailure(p)

Begin(p) == Remind(p) \/ Confirm(p) \/ \E c \in Channels : Send(p, c)

Next ==
    \/ \E p \in Calls : Begin(p) \/ Step(p) \/ Die(p)
    \/ Answer \/ Tick

Spec == Init /\ [][Next]_vars

(* The same calls, arriving only when no other is in progress. *)
SerialNext ==
    \/ \E p \in Calls : \/ Begin(p) /\ \A q \in Calls : ~Active(q)
                        \/ Step(p) \/ Die(p)
    \/ Answer \/ Tick

SerialSpec == Init /\ [][SerialNext]_vars

(* The event loop goes on with every call whose last await is over. *)
FairSpec == Spec /\ \A p \in Calls : WF_vars(Step(p))

-----------------------------------------------------------------------------
(* Type invariant. *)
TypeOK ==
    /\ thread \in Seq(Message)
    /\ status \in {"READY_TO_SEND", "AWAITING_REPLY", "ANSWERED"}
    /\ channel \in Channels
    /\ reminder \in [count : Nat, last : Nat \cup {Never}]
    /\ target \in [Channels -> BOOLEAN]
    /\ call \in [Calls -> Call]
    /\ \A p \in Calls : call[p].message \in {NoMessage} \cup DOMAIN thread
    /\ clock \in Nat
    /\ taken \in Seq(Nat) /\ Len(taken) = Len(thread)
    /\ reminded \in Seq(Nat)
    /\ created \in [Channels -> Nat]
    /\ abandoned \subseteq DOMAIN thread
    /\ doubts \in Seq(Nat) /\ Len(doubts) = Len(thread)
    /\ contested \subseteq Channels

(* Whatever the overlaps, failures and deaths: a message marked SENT was   *)
(* taken by the provider at least once.                                    *)
SentIsTaken == \A m \in DOMAIN thread : thread[m].status = "SENT" => taken[m] > 0

(* A supplier request awaits a reply, and a supplier is reminded, only     *)
(* when the provider took the request itself before.                       *)
Asked == \E m \in DOMAIN thread : thread[m].kind = "request" /\ taken[m] > 0
AskedFirst ==
    /\ status = "AWAITING_REPLY" => Asked
    /\ reminded # <<>> => Asked

(* No reminder is counted that was not taken, and lastReminderAt is the    *)
(* time of one that was, even when an older call records last.             *)
CountedIsTaken ==
    /\ reminder.count <= Len(reminded)
    /\ reminder.last # Never => \E i \in DOMAIN reminded : reminded[i] = reminder.last

(* The three of them: what the tables say was taken was taken.             *)
RecordedIsTaken == SentIsTaken /\ AskedFirst /\ CountedIsTaken

(* "A reminder was already sent in the last 24 hours": while the service   *)
(* has lost track of no message, reminders are a day apart.                *)
RemindersApart ==
    (\A m \in DOMAIN doubts : doubts[m] = 0) =>
        \A i, j \in DOMAIN reminded : i < j => reminded[j] - reminded[i] >= Day

(* A message is taken once, and once more only for each time the service   *)
(* lost track of it, although failed and abandoned ones are sent again.    *)
SentOnce == \A m \in DOMAIN taken : taken[m] <= 1 + doubts[m]

(* A channel gets one target, kept once it is stored, unless two set-ups   *)
(* overlapped or one died between the provider and the table.              *)
OneTarget == \A c \in Channels \ contested :
    /\ created[c] <= 1
    /\ (\A p \in Calls : ~(Settling(p) /\ call[p].channel = c)) => (target[c] <=> created[c] = 1)

(* Both of them, whatever overlaps, fails or dies elsewhere.               *)
NothingTwice == SentOnce /\ OneTarget

(* No message stays SENDING for good unless a call that was to send it     *)
(* died: again and again there is a moment when none is on its way.        *)
SendingIsLeft ==
    []<>(\A m \in DOMAIN thread : thread[m].status = "SENDING" => m \in abandoned)
=============================================================================
