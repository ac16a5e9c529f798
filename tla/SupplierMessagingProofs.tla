----------------------- MODULE SupplierMessagingProofs -----------------------
(***************************************************************************)
(* Proofs about SupplierMessaging, for any number of calls, any channels   *)
(* and any time.                                                           *)
(***************************************************************************)
EXTENDS SupplierMessaging, FiniteSetTheorems, SequenceTheorems, TLAPS

USE MessagingAssumption DEF MessagingAssumption

-----------------------------------------------------------------------------
(* What a step can do to the thread: mark a message, or append one.        *)

Statuses == Retryable \cup {"SENT"}

LEMMA MarkedThread ==
    ASSUME NEW t \in Seq(Message), NEW m \in DOMAIN t, NEW s \in Statuses,
           NEW u, u = [t EXCEPT ![m].status = s]
    PROVE  /\ u \in Seq(Message) /\ Len(u) = Len(t) /\ DOMAIN u = DOMAIN t
           /\ \A n \in DOMAIN t : /\ u[n].kind = t[n].kind
                                  /\ u[n].status = IF n = m THEN s ELSE t[n].status
<1> DEFINE new == [t[m] EXCEPT !.status = s]
<1>1. m \in 1 .. Len(t) /\ t[m] \in Message
  OBVIOUS
<1>2. new \in Message /\ new.kind = t[m].kind /\ new.status = s
  BY <1>1 DEF Message, Statuses
<1>3. u = [t EXCEPT ![m] = new]
  OBVIOUS
<1> HIDE DEF new
<1>4. /\ u \in Seq(Message) /\ Len(u) = Len(t)
      /\ \A n \in 1 .. Len(t) : u[n] = IF n = m THEN new ELSE t[n]
  BY <1>1, <1>2, <1>3, ExceptSeq
<1>5. DOMAIN u = 1 .. Len(t) /\ DOMAIN t = 1 .. Len(t)
  BY <1>4
<1>6. QED
  BY <1>2, <1>4, <1>5

LEMMA LongerThread ==
    ASSUME NEW t \in Seq(Message), NEW e \in Message, NEW u, u = Append(t, e)
    PROVE  /\ u \in Seq(Message) /\ Len(u) = Len(t) + 1
           /\ DOMAIN u = DOMAIN t \cup {Len(t) + 1} /\ Len(t) + 1 \notin DOMAIN t
           /\ \A n \in DOMAIN t : u[n] = t[n]
           /\ u[Len(t) + 1] = e
<1>1. /\ u \in Seq(Message) /\ Len(u) = Len(t) + 1
      /\ \A i \in 1 .. Len(t) : u[i] = t[i]
      /\ u[Len(t) + 1] = e
  BY AppendProperties
<1>2. DOMAIN u = 1 .. Len(t) + 1 /\ DOMAIN t = 1 .. Len(t) /\ Len(t) \in Nat
  BY <1>1
<1>3. QED
  BY <1>1, <1>2

LEMMA LongerCounts ==
    ASSUME NEW t \in Seq(Nat), NEW n \in Nat, NEW u, u = Append(t, n)
    PROVE  /\ u \in Seq(Nat) /\ Len(u) = Len(t) + 1 /\ u # <<>>
           /\ DOMAIN u = DOMAIN t \cup {Len(t) + 1}
           /\ \A i \in DOMAIN t : u[i] = t[i]
           /\ u[Len(t) + 1] = n
<1>1. /\ u \in Seq(Nat) /\ Len(u) = Len(t) + 1 /\ u # <<>>
      /\ \A i \in 1 .. Len(t) : u[i] = t[i]
      /\ u[Len(t) + 1] = n
  BY AppendProperties
<1>2. DOMAIN u = 1 .. Len(t) + 1 /\ DOMAIN t = 1 .. Len(t) /\ Len(t) \in Nat
  BY <1>1
<1>3. QED
  BY <1>1, <1>2

LEMMA TakenOnceMore ==
    ASSUME NEW t \in Seq(Nat), NEW m \in DOMAIN t, NEW u, u = [t EXCEPT ![m] = t[m] + 1]
    PROVE  /\ u \in Seq(Nat) /\ Len(u) = Len(t) /\ u[m] > 0
           /\ \A n \in DOMAIN t : u[n] >= t[n]
<1>1. m \in 1 .. Len(t) /\ t[m] \in Nat /\ DOMAIN t = 1 .. Len(t)
  OBVIOUS
<1>2. t[m] + 1 \in Nat
  BY <1>1
<1>3. /\ u \in Seq(Nat) /\ Len(u) = Len(t)
      /\ \A n \in 1 .. Len(t) : u[n] = IF n = m THEN t[m] + 1 ELSE t[n]
  BY <1>1, <1>2, ExceptSeq
<1>4. \A n \in 1 .. Len(t) : t[n] \in Nat
  OBVIOUS
<1>5. QED
  BY <1>1, <1>3, <1>4

-----------------------------------------------------------------------------
(* What a step can do to the record of its call.                           *)

Others(p) == \A q \in Calls \ {p} : call'[q] = call[q]

LEMMA SendUpdate ==
    ASSUME NEW r \in Call, NEW c \in Channels, NEW s \in Steps
    PROVE  [r EXCEPT !.op = "send", !.channel = c, !.pc = s] \in Call
BY Zenon DEF Call

LEMMA SendMessageUpdate ==
    ASSUME NEW r \in Call, NEW c \in Channels, NEW m \in Nat, NEW k \in Kinds, NEW s \in Steps
    PROVE  [r EXCEPT !.op = "send", !.channel = c, !.message = m, !.text = k, !.pc = s] \in Call
BY Zenon DEF Call

LEMMA RemindUpdate ==
    ASSUME NEW r \in Call, NEW c \in Channels, NEW k \in Kinds, NEW n \in Nat, NEW s \in Steps
    PROVE  [r EXCEPT !.op = "remind", !.channel = c, !.text = k, !.now = n, !.pc = s] \in Call
BY Zenon DEF Call

LEMMA ConfirmUpdate ==
    ASSUME NEW r \in Call, NEW c \in Channels, NEW k \in Kinds, NEW s \in Steps
    PROVE  [r EXCEPT !.op = "confirm", !.channel = c, !.text = k, !.pc = s] \in Call
BY Zenon DEF Call

LEMMA MessageUpdate ==
    ASSUME NEW r \in Call, NEW m \in Nat, NEW s \in Steps
    PROVE  [r EXCEPT !.message = m, !.pc = s] \in Call
BY Zenon DEF Call

LEMMA KnownUpdate ==
    ASSUME NEW r \in Call, NEW k \in [Channels -> BOOLEAN], NEW s \in Steps
    PROVE  [r EXCEPT !.known = k, !.pc = s] \in Call
BY Zenon DEF Call

LEMMA NowUpdate ==
    ASSUME NEW r \in Call, NEW n \in Nat, NEW s \in Steps
    PROVE  [r EXCEPT !.now = n, !.pc = s] \in Call
BY Zenon DEF Call

LEMMA CallBecomes ==
    ASSUME TypeOK, NEW p \in Calls, NEW new \in Call, call' = [call EXCEPT ![p] = new]
    PROVE  call' \in [Calls -> Call] /\ Others(p) /\ call'[p] = new
BY DEF TypeOK, Others

LEMMA CallMoves ==
    ASSUME TypeOK, NEW p \in Calls, NEW s \in Steps, Goto(p, s)
    PROVE  /\ call' \in [Calls -> Call] /\ Others(p)
           /\ call'[p].pc = s /\ call'[p].op = call[p].op
           /\ call'[p].message = call[p].message /\ call'[p].now = call[p].now
           /\ call'[p].channel = call[p].channel /\ call'[p].known = call[p].known
           /\ call'[p].text = call[p].text
BY DEF TypeOK, Goto, Call, Others

LEMMA CallFinishes ==
    ASSUME TypeOK, NEW p \in Calls, Finish(p)
    PROVE  /\ call' \in [Calls -> Call] /\ Others(p)
           /\ call'[p].pc = "done" /\ call'[p].message = NoMessage /\ call'[p].text = "request"
BY DEF TypeOK, Finish, Call, Others, IdleCall, Steps, NoTargets, NoMessage, Kinds

LEMMA CallSends ==
    ASSUME TypeOK, NEW p \in Calls, NEW c \in Channels, Send(p, c)
    PROVE  /\ call' \in [Calls -> Call] /\ Others(p) /\ call'[p].op = "send"
           /\ \/ /\ call'[p].pc = "draft" /\ call'[p].message = call[p].message
                 /\ call'[p].text = call[p].text /\ UNCHANGED doubts
              \/ /\ call'[p].pc = "target" /\ call'[p].message \in Sendable
                 /\ call'[p].text = thread[call'[p].message].kind
                 /\ PickedUp(call'[p].message)
<1>0. call[p] \in Call
  BY DEF TypeOK
<1>1. CASE /\ UNCHANGED doubts
           /\ call' = [call EXCEPT ![p] = [@ EXCEPT !.op = "send", !.channel = c, !.pc = "draft"]]
  <2> DEFINE new == [call[p] EXCEPT !.op = "send", !.channel = c, !.pc = "draft"]
  <2>1. new \in Call
    BY <1>0, SendUpdate DEF Steps
  <2>2. new.op = "send" /\ new.pc = "draft" /\ new.message = call[p].message /\ new.text = call[p].text
    BY <1>0 DEF Call
  <2>3. call' = [call EXCEPT ![p] = new]
    BY <1>1
  <2> HIDE DEF new
  <2>4. QED
    BY <1>1, <2>1, <2>2, <2>3, CallBecomes
<1>2. ASSUME NEW m \in Sendable, PickedUp(m),
             call' = [call EXCEPT ![p] = [@ EXCEPT !.op = "send", !.channel = c, !.message = m,
                                                   !.text = thread[m].kind, !.pc = "target"]]
      PROVE  /\ call' \in [Calls -> Call] /\ Others(p) /\ call'[p].op = "send"
             /\ call'[p].pc = "target" /\ call'[p].message = m /\ call'[p].text = thread[m].kind
  <2> DEFINE new == [call[p] EXCEPT !.op = "send", !.channel = c, !.message = m,
                                    !.text = thread[m].kind, !.pc = "target"]
  <2>6. m \in DOMAIN thread /\ thread \in Seq(Message)
    BY DEF Sendable, TypeOK
  <2>7. thread[m] \in Message /\ m \in Nat
    BY <2>6
  <2>1. m \in Nat /\ thread[m].kind \in Kinds
    BY <2>7 DEF Message
  <2>2. new \in Call
    BY <1>0, <2>1, SendMessageUpdate DEF Steps
  <2>3. new.op = "send" /\ new.pc = "target" /\ new.message = m /\ new.text = thread[m].kind
    BY <1>0 DEF Call
  <2>4. call' = [call EXCEPT ![p] = new]
    BY <1>2
  <2> HIDE DEF new
  <2>5. QED
    BY <2>2, <2>3, <2>4, CallBecomes
<1>3. QED
  BY <1>1, <1>2 DEF Send, Outbound

LEMMA CallReminds ==
    ASSUME TypeOK, NEW p \in Calls, Remind(p)
    PROVE  /\ call' \in [Calls -> Call] /\ Others(p) /\ call'[p].op = "remind"
           /\ call'[p].pc = "remind" /\ call'[p].message = call[p].message
           /\ call'[p].text = "reminder"
<1> DEFINE new == [call[p] EXCEPT !.op = "remind", !.channel = channel, !.text = "reminder",
                                  !.now = clock, !.pc = "remind"]
<1>1. call[p] \in Call /\ channel \in Channels /\ clock \in Nat
  BY DEF TypeOK
<1>2. new \in Call
  BY <1>1, RemindUpdate DEF Steps, Kinds
<1>3. /\ new.op = "remind" /\ new.pc = "remind" /\ new.message = call[p].message
      /\ new.text = "reminder"
  BY <1>1 DEF Call
<1>4. call' = [call EXCEPT ![p] = new]
  BY DEF Remind
<1> HIDE DEF new
<1>5. QED
  BY <1>2, <1>3, <1>4, CallBecomes

LEMMA CallConfirms ==
    ASSUME TypeOK, NEW p \in Calls, Confirm(p)
    PROVE  /\ call' \in [Calls -> Call] /\ Others(p) /\ call'[p].op = "confirm"
           /\ call'[p].pc = "target" /\ call'[p].message = call[p].message
           /\ call'[p].text = "confirmation"
<1> DEFINE new == [call[p] EXCEPT !.op = "confirm", !.channel = Email, !.text = "confirmation",
                                  !.pc = "target"]
<1>1. call[p] \in Call
  BY DEF TypeOK
<1>2. new \in Call
  BY <1>1, ConfirmUpdate DEF Steps, Kinds
<1>3. /\ new.op = "confirm" /\ new.pc = "target" /\ new.message = call[p].message
      /\ new.text = "confirmation"
  BY <1>1 DEF Call
<1>4. call' = [call EXCEPT ![p] = new]
  BY DEF Confirm
<1> HIDE DEF new
<1>5. QED
  BY <1>2, <1>3, <1>4, CallBecomes

LEMMA CallTakesMessage ==
    ASSUME TypeOK, NEW p \in Calls, NEW m \in Nat,
           call' = [call EXCEPT ![p] = [@ EXCEPT !.message = m, !.pc = "target"]]
    PROVE  /\ call' \in [Calls -> Call] /\ Others(p) /\ call'[p].op = call[p].op
           /\ call'[p].pc = "target" /\ call'[p].message = m /\ call'[p].text = call[p].text
<1> DEFINE new == [call[p] EXCEPT !.message = m, !.pc = "target"]
<1>1. call[p] \in Call
  BY DEF TypeOK
<1>2. new \in Call
  BY <1>1, MessageUpdate DEF Steps
<1>3. new.op = call[p].op /\ new.pc = "target" /\ new.message = m /\ new.text = call[p].text
  BY <1>1 DEF Call
<1>4. call' = [call EXCEPT ![p] = new]
  OBVIOUS
<1> HIDE DEF new
<1>5. QED
  BY <1>2, <1>3, <1>4, CallBecomes

LEMMA CallKnows ==
    ASSUME TypeOK, NEW p \in Calls, NEW k \in [Channels -> BOOLEAN], NEW s \in Steps,
           call' = [call EXCEPT ![p] = [@ EXCEPT !.known = k, !.pc = s]]
    PROVE  /\ call' \in [Calls -> Call] /\ Others(p) /\ call'[p].op = call[p].op
           /\ call'[p].pc = s /\ call'[p].message = call[p].message
           /\ call'[p].text = call[p].text
<1> DEFINE new == [call[p] EXCEPT !.known = k, !.pc = s]
<1>1. call[p] \in Call
  BY DEF TypeOK
<1>2. new \in Call
  BY <1>1, KnownUpdate
<1>3. /\ new.op = call[p].op /\ new.pc = s /\ new.message = call[p].message
      /\ new.text = call[p].text
  BY <1>1 DEF Call
<1>4. call' = [call EXCEPT ![p] = new]
  OBVIOUS
<1> HIDE DEF new
<1>5. QED
  BY <1>2, <1>3, <1>4, CallBecomes

LEMMA CallLooksUp ==
    ASSUME TypeOK, NEW p \in Calls, NEW k, NEW s,
           call' = [call EXCEPT ![p] = [@ EXCEPT !.known = k, !.pc = s]]
    PROVE  call'[p].channel = call[p].channel /\ call'[p].known = k
<1>1. call[p] \in Call /\ call'[p] = [call[p] EXCEPT !.known = k, !.pc = s]
  BY DEF TypeOK
<1>2. QED
  BY <1>1 DEF Call

LEMMA CallStarts ==
    ASSUME TypeOK, NEW p \in Calls, StartSending(p)
    PROVE  /\ call' \in [Calls -> Call] /\ Others(p) /\ call'[p].op = call[p].op
           /\ call'[p].pc = "deliver" /\ call'[p].message = call[p].message
           /\ call'[p].text = call[p].text
<1> DEFINE new == [call[p] EXCEPT !.now = SendingAt(p), !.pc = "deliver"]
<1>1. call[p] \in Call /\ SendingAt(p) \in Nat
  BY DEF TypeOK, SendingAt
<1>2. new \in Call
  BY <1>1, NowUpdate DEF Steps
<1>3. /\ new.op = call[p].op /\ new.pc = "deliver" /\ new.message = call[p].message
      /\ new.text = call[p].text
  BY <1>1 DEF Call
<1>4. call' = [call EXCEPT ![p] = new]
  BY DEF StartSending
<1> HIDE DEF new
<1>5. QED
  BY <1>2, <1>3, <1>4, CallBecomes

-----------------------------------------------------------------------------
(* The inductive invariant: what a call may be doing at each of its steps, *)
(* and what the thread says of what the provider took.                     *)

Carrying == {"target", "create", "store", "start", "deliver", "record", "fail"}

CallInv(p) ==
    /\ call[p].pc \in {"draft", "start"} => call[p].op = "send"
    /\ call[p].pc = "remind" => call[p].op = "remind"
    /\ call[p].pc = "fail" => call[p].op # "confirm"
    /\ call[p].op = "remind" /\ call[p].pc \in Carrying \cup {"remind"} => call[p].text = "reminder"
    /\ call[p].text = "reminder" => Asked
    /\ call[p].op = "confirm" \/ call[p].pc \notin Carrying => call[p].message = NoMessage
    /\ call[p].op # "confirm" /\ call[p].pc \in Carrying =>
          /\ call[p].message \in DOMAIN thread
          /\ thread[call[p].message].kind # "confirmation"
          /\ call[p].pc = "record" => taken[call[p].message] > 0

ConfirmedIsSent == \A m \in DOMAIN thread :
                      thread[m].kind = "confirmation" => thread[m].status = "SENT"
RemindedIsAsked == \A m \in DOMAIN thread : thread[m].kind = "reminder" => Asked
RowsInv         == SentIsTaken /\ ConfirmedIsSent /\ RemindedIsAsked

IInv == TypeOK /\ (\A p \in Calls : CallInv(p)) /\ RowsInv /\ AskedFirst

(* The parts of TypeOK that a step treats apart. *)
DoubtsType == doubts \in Seq(Nat) /\ Len(doubts) = Len(thread)
RowsType == thread \in Seq(Message) /\ taken \in Seq(Nat) /\ Len(taken) = Len(thread)
RestType ==
    /\ status \in {"READY_TO_SEND", "AWAITING_REPLY", "ANSWERED"}
    /\ channel \in Channels
    /\ reminder \in [count : Nat, last : Nat \cup {Never}]
    /\ target \in [Channels -> BOOLEAN]
    /\ clock \in Nat
    /\ reminded \in Seq(Nat)
    /\ created \in [Channels -> Nat]
    /\ contested \subseteq Channels

(* Messages are never taken out of the thread, and never taken back. *)
Grown ==
    /\ DOMAIN thread \subseteq DOMAIN thread'
    /\ \A m \in DOMAIN thread :
          /\ thread[m].kind = "request" => thread'[m].kind = "request"
          /\ thread[m].kind # "confirmation" => thread'[m].kind # "confirmation"
          /\ taken'[m] >= taken[m]

LEMMA SameDomain ==
    ASSUME RowsType
    PROVE  /\ DOMAIN taken = DOMAIN thread /\ DOMAIN thread = 1 .. Len(thread)
           /\ Len(thread) \in Nat /\ NoMessage \notin DOMAIN thread
           /\ \A m \in DOMAIN thread : thread[m] \in Message /\ taken[m] \in Nat
BY DEF RowsType, NoMessage

LEMMA AskedStays ==
    ASSUME RowsType, RowsType', Grown, Asked
    PROVE  Asked'
<1>1. PICK m \in DOMAIN thread : thread[m].kind = "request" /\ taken[m] > 0
  BY DEF Asked
<1>2. m \in DOMAIN thread' /\ thread'[m].kind = "request" /\ taken'[m] >= taken[m]
  BY <1>1, Zenon DEF Grown
<1>3. taken[m] \in Nat /\ taken'[m] \in Nat
  BY <1>1, <1>2, SameDomain DEF RowsType
<1>4. QED
  BY <1>1, <1>2, <1>3 DEF Asked

LEMMA SameKeepsRows ==
    ASSUME IInv, UNCHANGED <<thread, taken>>
    PROVE  RowsType' /\ Grown /\ RowsInv' /\ Asked' = Asked
<1>1. RowsType
  BY DEF IInv, TypeOK, RowsType
<1>2. \A m \in DOMAIN thread : taken[m] \in Nat
  BY <1>1, SameDomain
<1>3. RowsType' /\ Grown /\ Asked' = Asked
  BY <1>1, <1>2 DEF RowsType, Grown, Asked
<1>4. RowsInv'
  BY <1>3 DEF IInv, RowsInv, SentIsTaken, ConfirmedIsSent, RemindedIsAsked
<1>5. QED
  BY <1>3, <1>4

LEMMA RewriteKeepsRows ==
    ASSUME IInv, NEW m \in DOMAIN thread, NEW s \in Statuses,
           thread[m].kind # "confirmation", s = "SENT" => taken[m] > 0,
           thread' \in Seq(Message), Len(thread') = Len(thread), UNCHANGED taken,
           \A n \in DOMAIN thread : n # m => thread'[n] = thread[n],
           thread'[m].status = s, thread'[m].kind \in {thread[m].kind, "request"}
    PROVE  RowsType' /\ Grown /\ RowsInv' /\ DOMAIN thread' = DOMAIN thread
<1>1. RowsType
  BY DEF IInv, TypeOK, RowsType
<1>2. RowsType' /\ DOMAIN thread' = DOMAIN thread
  BY <1>1 DEF RowsType
<1>3. Grown
  <2>1. ASSUME NEW n \in DOMAIN thread
        PROVE  /\ thread[n].kind = "request" => thread'[n].kind = "request"
               /\ thread[n].kind # "confirmation" => thread'[n].kind # "confirmation"
    BY <2>1
  <2>2. \A n \in DOMAIN thread : taken'[n] >= taken[n]
    BY <1>1, SameDomain
  <2>3. QED
    BY <1>2, <2>1, <2>2 DEF Grown
<1>4. SentIsTaken'
  BY <1>2 DEF IInv, RowsInv, SentIsTaken
<1>5. ConfirmedIsSent'
  BY <1>2 DEF IInv, RowsInv, ConfirmedIsSent
<1>6. RemindedIsAsked'
  BY <1>1, <1>2, <1>3, AskedStays DEF IInv, RowsInv, RemindedIsAsked
<1>7. QED
  BY <1>2, <1>3, <1>4, <1>5, <1>6 DEF RowsInv

LEMMA MarkKeepsRows ==
    ASSUME IInv, NEW m \in DOMAIN thread, NEW s \in Statuses,
           thread[m].kind # "confirmation", s = "SENT" => taken[m] > 0,
           thread' = [thread EXCEPT ![m].status = s], UNCHANGED taken
    PROVE  /\ RowsType' /\ Grown /\ RowsInv' /\ DOMAIN thread' = DOMAIN thread
           /\ Len(thread') = Len(thread)
           /\ \A n \in DOMAIN thread : thread'[n].status = IF n = m THEN s ELSE thread[n].status
<1>1. thread \in Seq(Message)
  BY DEF IInv, TypeOK
<1>2. /\ thread' \in Seq(Message) /\ Len(thread') = Len(thread)
      /\ \A n \in DOMAIN thread :
            /\ thread'[n].kind = thread[n].kind
            /\ thread'[n].status = IF n = m THEN s ELSE thread[n].status
  BY <1>1, MarkedThread
<1>3. \A n \in DOMAIN thread : n # m => thread'[n] = thread[n]
  BY <1>1
<1>4. QED
  BY <1>2, <1>3, RewriteKeepsRows

LEMMA RedraftKeepsRows ==
    ASSUME IInv, NEW m \in DOMAIN thread, thread[m].kind # "confirmation", UNCHANGED taken,
           thread' = [thread EXCEPT ![m] = [kind |-> "request", status |-> "DRAFT"]]
    PROVE  /\ RowsType' /\ Grown /\ RowsInv' /\ DOMAIN thread' = DOMAIN thread
           /\ Len(thread') = Len(thread) /\ thread'[m].status = "DRAFT"
           /\ thread'[m].kind # "confirmation"
           /\ \A n \in DOMAIN thread : n # m => thread'[n] = thread[n]
<1> DEFINE draft == [kind |-> "request", status |-> "DRAFT"]
<1>1. /\ draft \in Message /\ draft.status = "DRAFT" /\ draft.kind = "request"
      /\ "DRAFT" \in Statuses
  BY DEF Message, Retryable, Kinds, Statuses
<1>2. thread \in Seq(Message) /\ m \in 1 .. Len(thread) /\ thread' = [thread EXCEPT ![m] = draft]
  BY DEF IInv, TypeOK
<1> HIDE DEF draft
<1>3. /\ thread' \in Seq(Message) /\ Len(thread') = Len(thread)
      /\ \A n \in 1 .. Len(thread) : thread'[n] = IF n = m THEN draft ELSE thread[n]
  BY <1>1, <1>2, ExceptSeq
<1>4. DOMAIN thread = 1 .. Len(thread)
  BY <1>2
<1>5. QED
  BY <1>1, <1>3, <1>4, RewriteKeepsRows

LEMMA AppendKeepsRows ==
    ASSUME IInv, NEW k \in Kinds, NEW s \in Statuses, NEW n \in Nat,
           k = "reminder" => Asked, k = "confirmation" => s = "SENT", s = "SENT" => n > 0,
           thread' = Append(thread, [kind |-> k, status |-> s]), taken' = Append(taken, n)
    PROVE  /\ RowsType' /\ Grown /\ RowsInv' /\ Len(thread) + 1 \in DOMAIN thread'
           /\ thread'[Len(thread) + 1].kind = k /\ Len(thread') = Len(thread) + 1
<1>1. RowsType
  BY DEF IInv, TypeOK, RowsType
<1> DEFINE new == Len(thread) + 1
           row == [kind |-> k, status |-> s]
<1>0. row \in Message /\ row.kind = k /\ row.status = s
  BY DEF Message, Statuses, Kinds
<1> HIDE DEF new, row
<1>2. /\ thread' \in Seq(Message) /\ Len(thread') = Len(thread) + 1
      /\ DOMAIN thread' = DOMAIN thread \cup {new} /\ new \notin DOMAIN thread
      /\ \A i \in DOMAIN thread : thread'[i] = thread[i]
      /\ thread'[new] = row
  <2>1. thread \in Seq(Message) /\ thread' = Append(thread, row)
    BY <1>1 DEF RowsType, row
  <2>2. QED
    BY <1>0, <2>1, LongerThread DEF new
<1>3. /\ taken' \in Seq(Nat) /\ Len(taken') = Len(taken) + 1
      /\ \A i \in DOMAIN taken : taken'[i] = taken[i]
      /\ taken'[new] = n
  <2>1. taken \in Seq(Nat) /\ taken' = Append(taken, n) /\ Len(taken) = Len(thread)
    BY <1>1 DEF RowsType
  <2>2. QED
    BY <2>1, LongerCounts DEF new
<1>4. RowsType'
  BY <1>1, <1>2, <1>3 DEF RowsType
<1>5. thread'[new].kind = k /\ thread'[new].status = s
  BY <1>0, <1>2
<1>6. \A i \in DOMAIN thread : taken'[i] = taken[i] /\ taken[i] \in Nat
  BY <1>1, <1>3, SameDomain
<1>7. Grown
  <2>1. ASSUME NEW i \in DOMAIN thread
        PROVE  taken'[i] >= taken[i]
    <3>1. taken'[i] = taken[i] /\ taken[i] \in Nat
      BY <1>6
    <3>2. taken[i] >= taken[i]
      BY <3>1
    <3>3. QED
      BY <3>1, <3>2, Zenon
  <2>2. QED
    BY <1>2, <2>1 DEF Grown
<1>8. SentIsTaken'
  BY <1>2, <1>3, <1>5, <1>6 DEF IInv, RowsInv, SentIsTaken
<1>9. ConfirmedIsSent'
  BY <1>2, <1>5 DEF IInv, RowsInv, ConfirmedIsSent
<1>10. RemindedIsAsked'
  BY <1>1, <1>2, <1>4, <1>5, <1>7, AskedStays DEF IInv, RowsInv, RemindedIsAsked
<1>11. QED
  BY <1>2, <1>4, <1>5, <1>7, <1>8, <1>9, <1>10 DEF RowsInv, new

LEMMA TakeKeepsRows ==
    ASSUME IInv, NEW m \in DOMAIN thread, UNCHANGED thread,
           taken' = [taken EXCEPT ![m] = @ + 1]
    PROVE  RowsType' /\ Grown /\ RowsInv' /\ taken'[m] > 0
<1>1. RowsType
  BY DEF IInv, TypeOK, RowsType
<1>2. /\ taken' \in Seq(Nat) /\ Len(taken') = Len(taken) /\ taken'[m] > 0
      /\ \A n \in DOMAIN taken : taken'[n] >= taken[n]
  BY <1>1, SameDomain, TakenOnceMore DEF RowsType
<1>3. RowsType'
  BY <1>1, <1>2 DEF RowsType
<1>4. Grown
  BY <1>1, <1>2, SameDomain DEF Grown
<1>5. \A n \in DOMAIN thread : taken[n] \in Nat /\ taken'[n] \in Nat /\ taken'[n] >= taken[n]
  BY <1>1, <1>2, <1>3, SameDomain
<1>6. SentIsTaken'
  BY <1>5 DEF IInv, RowsInv, SentIsTaken
<1>7. ConfirmedIsSent'
  BY DEF IInv, RowsInv, ConfirmedIsSent
<1>8. RemindedIsAsked'
  BY <1>1, <1>3, <1>4, AskedStays DEF IInv, RowsInv, RemindedIsAsked
<1>9. QED
  BY <1>2, <1>3, <1>4, <1>6, <1>7, <1>8 DEF RowsInv

LEMMA CallsKept ==
    ASSUME IInv, NEW p \in Calls, RowsType', Grown, Others(p), CallInv(p)',
           call' \in [Calls -> Call], call'[p].message \in {NoMessage} \cup DOMAIN thread'
    PROVE  /\ \A q \in Calls : CallInv(q)'
           /\ \A q \in Calls : call'[q].message \in {NoMessage} \cup DOMAIN thread'
<1>1. RowsType
  BY DEF IInv, TypeOK, RowsType
<1>2. Asked => Asked'
  BY <1>1, AskedStays
<1>3. ASSUME NEW q \in Calls, q # p
      PROVE  CallInv(q)'
  <2>1. call'[q] = call[q] /\ CallInv(q)
    BY <1>3 DEF Others, IInv
  <2>2. ASSUME call[q].op # "confirm", call[q].pc \in Carrying
        PROVE  /\ call[q].message \in DOMAIN thread'
               /\ thread'[call[q].message].kind # "confirmation"
               /\ call[q].pc = "record" => taken'[call[q].message] > 0
    <3>1. /\ call[q].message \in DOMAIN thread
          /\ thread[call[q].message].kind # "confirmation"
          /\ call[q].pc = "record" => taken[call[q].message] > 0
      BY <2>1, <2>2 DEF CallInv
    <3>2. /\ call[q].message \in DOMAIN thread'
          /\ thread'[call[q].message].kind # "confirmation"
          /\ taken'[call[q].message] >= taken[call[q].message]
      BY <3>1 DEF Grown
    <3>3. taken[call[q].message] \in Nat /\ taken'[call[q].message] \in Nat
      BY <1>1, <3>1, <3>2, SameDomain DEF RowsType
    <3>4. QED
      BY <3>1, <3>2, <3>3
  <2>3. QED
    BY <1>2, <2>1, <2>2 DEF CallInv
<1>4. ASSUME NEW q \in Calls, q # p
      PROVE  call'[q].message \in {NoMessage} \cup DOMAIN thread'
  BY <1>4 DEF Others, IInv, TypeOK, Grown
<1>5. QED
  BY <1>3, <1>4

LEMMA Kept ==
    ASSUME IInv, NEW p \in Calls, RowsType', Grown, RowsInv', RestType', AskedFirst',
           Others(p), CallInv(p)', call' \in [Calls -> Call], DoubtsType',
           call'[p].message \in {NoMessage} \cup DOMAIN thread',
           abandoned' \subseteq DOMAIN thread'
    PROVE  IInv'
<1>1. /\ \A q \in Calls : CallInv(q)'
      /\ \A q \in Calls : call'[q].message \in {NoMessage} \cup DOMAIN thread'
  BY CallsKept
<1>2. TypeOK'
  BY <1>1 DEF TypeOK, RowsType, RestType, DoubtsType
<1>3. QED
  BY <1>1, <1>2 DEF IInv
(* What a step makes of its own call, when it leaves the thread alone. *)
LEMMA KeptQuietly ==
    ASSUME IInv, NEW p \in Calls, UNCHANGED <<thread, taken, status, reminded>>, RestType',
           Others(p), CallInv(p)', call' \in [Calls -> Call], DoubtsType',
           call'[p].message \in {NoMessage} \cup DOMAIN thread,
           abandoned' \subseteq DOMAIN thread
    PROVE  IInv'
<1>1. RowsType' /\ Grown /\ RowsInv' /\ Asked' = Asked
  BY SameKeepsRows
<1>2. AskedFirst'
  BY <1>1 DEF IInv, AskedFirst
<1>3. QED
  BY <1>1, <1>2, Kept

LEMMA OverCarriesNothing ==
    ASSUME NEW p \in Calls, call'[p].pc = "done", call'[p].message = NoMessage,
           call'[p].text = "request"
    PROVE  CallInv(p)'
BY DEF CallInv, Carrying

LEMMA StillCarries ==
    ASSUME IInv, NEW p \in Calls, RowsType', Grown, call[p].pc \in Carrying,
           call'[p].pc \in Carrying, call'[p].op = call[p].op,
           call'[p].message = call[p].message, call'[p].text = call[p].text,
           call'[p].pc = "start" => call[p].op = "send",
           call'[p].pc = "fail" => call[p].op # "confirm",
           call'[p].pc = "record" /\ call[p].op # "confirm" => taken'[call[p].message] > 0
    PROVE  CallInv(p)'
<1>1. RowsType /\ CallInv(p)
  BY DEF IInv, TypeOK, RowsType
<1>2. Asked => Asked'
  BY <1>1, AskedStays
<1>3. call[p].op # "confirm" =>
         /\ call[p].message \in DOMAIN thread
         /\ thread[call[p].message].kind # "confirmation"
  BY <1>1 DEF CallInv
<1>4. call[p].op # "confirm" =>
         /\ call[p].message \in DOMAIN thread'
         /\ thread'[call[p].message].kind # "confirmation"
  BY <1>3 DEF Grown
<1>5. /\ call[p].op = "remind" => call[p].text = "reminder"
      /\ call[p].text = "reminder" => Asked
      /\ call[p].op = "confirm" => call[p].message = NoMessage
  BY <1>1 DEF CallInv
<1>6. QED
  BY <1>2, <1>4, <1>5 DEF CallInv, Carrying

LEMMA GivesUp ==
    ASSUME IInv, NEW p \in Calls, RowsType', Grown, call[p].pc \in Carrying, GiveUp(p)
    PROVE  /\ CallInv(p)' /\ Others(p) /\ call' \in [Calls -> Call]
           /\ call'[p].message \in {NoMessage} \cup DOMAIN thread
           /\ call'[p].pc \in {"done", "fail"}
<1>1. TypeOK
  BY DEF IInv
<1>2. CASE call[p].op = "confirm"
  <2>1. /\ call' \in [Calls -> Call] /\ Others(p)
        /\ call'[p].pc = "done" /\ call'[p].message = NoMessage /\ call'[p].text = "request"
    BY <1>1, <1>2, CallFinishes DEF GiveUp
  <2>2. QED
    BY <2>1, OverCarriesNothing
<1>3. CASE call[p].op # "confirm"
  <2>1. /\ call' \in [Calls -> Call] /\ Others(p)
        /\ call'[p].pc = "fail" /\ call'[p].op = call[p].op
        /\ call'[p].message = call[p].message /\ call'[p].text = call[p].text
    BY <1>1, <1>3, CallMoves DEF GiveUp, Steps
  <2>2. CallInv(p)'
    BY <1>3, <2>1, StillCarries DEF Carrying
  <2>3. QED
    BY <1>1, <2>1, <2>2 DEF TypeOK
<1>4. QED
  BY <1>2, <1>3

LEMMA DoubtsTyped ==
    ASSUME IInv,
           \/ /\ Len(thread') = Len(thread)
              /\ UNCHANGED doubts \/ \E m \in DOMAIN thread : Doubted(m)
           \/ Len(thread') = Len(thread) + 1 /\ doubts' = Append(doubts, 0)
    PROVE  DoubtsType'
<1>1. doubts \in Seq(Nat) /\ Len(doubts) = Len(thread) /\ DOMAIN thread = 1 .. Len(doubts)
  BY DEF IInv, TypeOK
<1>2. CASE Len(thread') = Len(thread) /\ UNCHANGED doubts
  BY <1>1, <1>2 DEF DoubtsType
<1>3. ASSUME NEW m \in DOMAIN thread, Len(thread') = Len(thread), Doubted(m)
      PROVE  DoubtsType'
  <2>1. m \in DOMAIN doubts /\ doubts' = [doubts EXCEPT ![m] = doubts[m] + 1]
    BY <1>1, <1>3 DEF Doubted
  <2>2. QED
    BY <1>1, <1>3, <2>1, TakenOnceMore DEF DoubtsType
<1>4. CASE Len(thread') = Len(thread) + 1 /\ doubts' = Append(doubts, 0)
  BY <1>1, <1>4, LongerCounts DEF DoubtsType
<1>5. QED
  BY <1>2, <1>3, <1>4

LEMMA ReadyCarries ==
    ASSUME NEW p \in Calls
    PROVE  Ready(p) \in Steps \cap {"start", "deliver"} /\ (Ready(p) = "start" => call[p].op = "send")
BY DEF Ready, Steps

-----------------------------------------------------------------------------
(* One lemma for every action. *)

LEMMA StepSend ==
    ASSUME IInv, NEW p \in Calls, NEW c \in Channels, Send(p, c)
    PROVE  IInv'
<1>1. /\ call' \in [Calls -> Call] /\ Others(p) /\ call'[p].op = "send"
      /\ \/ /\ call'[p].pc = "draft" /\ call'[p].message = call[p].message
            /\ call'[p].text = call[p].text /\ UNCHANGED doubts
         \/ /\ call'[p].pc = "target" /\ call'[p].message \in Sendable
            /\ call'[p].text = thread[call'[p].message].kind
            /\ PickedUp(call'[p].message)
  BY CallSends DEF IInv
<1>2. /\ UNCHANGED <<thread, taken, status, reminded>> /\ RestType'
      /\ abandoned' \subseteq DOMAIN thread
  BY DEF Send, Arrive, rows, sent, trouble, IInv, TypeOK, RestType
<1>3. call'[p].message \in {NoMessage} \cup DOMAIN thread
  BY <1>1 DEF Sendable, IInv, TypeOK
<1>4. call'[p].pc = "target" => /\ call'[p].message \in DOMAIN thread
                               /\ thread[call'[p].message].kind # "confirmation"
  BY <1>1 DEF Sendable, Retryable, IInv, RowsInv, ConfirmedIsSent
<1>5. CallInv(p) /\ call[p].pc = "idle" /\ Asked' = Asked
  BY <1>2, SameKeepsRows DEF IInv, Send, Arrive
<1>6. call[p].message = NoMessage /\ (call'[p].text = "reminder" => Asked)
  BY <1>1, <1>4, <1>5 DEF CallInv, Carrying, IInv, RowsInv, RemindedIsAsked
<1>7. CallInv(p)'
  BY <1>1, <1>2, <1>4, <1>5, <1>6 DEF CallInv, Carrying
<1>8. DoubtsType'
  BY <1>1, <1>2, DoubtsTyped DEF PickedUp, Sendable
<1>9. QED
  BY <1>1, <1>2, <1>3, <1>7, <1>8, KeptQuietly

LEMMA StepRemind ==
    ASSUME IInv, NEW p \in Calls, Remind(p)
    PROVE  IInv'
<1>1. /\ call' \in [Calls -> Call] /\ Others(p) /\ call'[p].op = "remind"
      /\ call'[p].pc = "remind" /\ call'[p].message = call[p].message
      /\ call'[p].text = "reminder"
  BY CallReminds DEF IInv
<1>2. /\ UNCHANGED <<thread, taken, status, reminded>> /\ RestType'
      /\ abandoned' \subseteq DOMAIN thread
  BY DEF Remind, Arrive, rows, sent, trouble, IInv, TypeOK, RestType
<1>3. call'[p].message \in {NoMessage} \cup DOMAIN thread
  BY <1>1 DEF IInv, TypeOK
<1>4. Asked'
  BY <1>2, SameKeepsRows DEF Remind, MayRemind, IInv, AskedFirst
<1>5. CallInv(p)'
  BY <1>1, <1>4 DEF CallInv, Carrying, IInv, Remind, Arrive
<1>6. DoubtsType'
  BY <1>2, DoubtsTyped DEF Remind, trouble
<1>7. QED
  BY <1>1, <1>2, <1>3, <1>5, <1>6, KeptQuietly

LEMMA StepConfirm ==
    ASSUME IInv, NEW p \in Calls, Confirm(p)
    PROVE  IInv'
<1>1. /\ call' \in [Calls -> Call] /\ Others(p) /\ call'[p].op = "confirm"
      /\ call'[p].pc = "target" /\ call'[p].message = call[p].message
      /\ call'[p].text = "confirmation"
  BY CallConfirms DEF IInv
<1>2. /\ UNCHANGED <<thread, taken, status, reminded>> /\ RestType'
      /\ abandoned' \subseteq DOMAIN thread
  BY DEF Confirm, Arrive, rows, sent, trouble, IInv, TypeOK, RestType
<1>3. call'[p].message \in {NoMessage} \cup DOMAIN thread
  BY <1>1 DEF IInv, TypeOK
<1>4. CallInv(p)'
  BY <1>1 DEF CallInv, Carrying, IInv, Confirm, Arrive
<1>5. DoubtsType'
  BY <1>2, DoubtsTyped DEF Confirm, trouble
<1>6. QED
  BY <1>1, <1>2, <1>3, <1>4, <1>5, KeptQuietly

LEMMA StepDraft ==
    ASSUME IInv, NEW p \in Calls, Draft(p)
    PROVE  IInv'
<1>1. /\ TypeOK /\ call[p].op = "send" /\ DOMAIN thread \subseteq Nat
      /\ call[p].text = "reminder" => Asked
  <2>1. TypeOK /\ CallInv(p)
    BY DEF IInv
  <2>2. call[p].op = "send"
    BY <2>1 DEF Draft, CallInv
  <2>3. DOMAIN thread = 1 .. Len(thread)
    BY <2>1 DEF TypeOK
  <2>4. QED
    BY <2>1, <2>2, <2>3 DEF CallInv
<1>2. /\ UNCHANGED <<status, reminded, abandoned>> /\ RestType'
      /\ abandoned' \subseteq DOMAIN thread
  BY DEF Draft, IInv, TypeOK, RestType
<1>3. ASSUME NEW m \in Outbound, PickedUp(m), UNCHANGED taken,
             thread' = [thread EXCEPT ![m] = [kind |-> "request", status |-> "DRAFT"]],
             call' = [call EXCEPT ![p] = [@ EXCEPT !.message = m, !.pc = "target"]]
      PROVE  IInv'
  <2>1. m \in DOMAIN thread /\ thread[m].kind # "confirmation" /\ m \in Nat
    BY <1>1 DEF Outbound, Sendable, Retryable, IInv, RowsInv, ConfirmedIsSent
  <2>2. /\ RowsType' /\ Grown /\ RowsInv' /\ DOMAIN thread' = DOMAIN thread
        /\ Len(thread') = Len(thread)
    BY <1>3, <2>1, RedraftKeepsRows
  <2>3. /\ call' \in [Calls -> Call] /\ Others(p) /\ call'[p].op = "send"
        /\ call'[p].pc = "target" /\ call'[p].message = m /\ call'[p].text = call[p].text
    BY <1>1, <1>3, <2>1, CallTakesMessage
  <2>4. CallInv(p)'
    <3>1. Asked => Asked'
      BY <1>1, <2>2, AskedStays DEF TypeOK, RowsType
    <3>2. QED
      BY <1>1, <2>1, <2>2, <2>3, <3>1 DEF CallInv, Carrying, Grown
  <2>5. AskedFirst'
    BY <1>1, <1>2, <2>2, AskedStays DEF IInv, AskedFirst, TypeOK, RowsType
  <2>6. DoubtsType'
    BY <1>3, <2>1, <2>2, DoubtsTyped DEF PickedUp
  <2>7. QED
    BY <1>2, <2>1, <2>2, <2>3, <2>4, <2>5, <2>6, Kept
<1>4. ASSUME Append1("request", "DRAFT"),
             call' = [call EXCEPT ![p] = [@ EXCEPT !.message = Len(thread) + 1,
                                                   !.pc = "target"]]
      PROVE  IInv'
  <2>1. /\ RowsType' /\ Grown /\ RowsInv' /\ Len(thread) + 1 \in DOMAIN thread'
        /\ thread'[Len(thread) + 1].kind = "request" /\ Len(thread') = Len(thread) + 1
    BY <1>4, AppendKeepsRows DEF Append1, Statuses, Retryable, Kinds
  <2>2. Len(thread) + 1 \in Nat
    BY <1>1 DEF TypeOK
  <2>3. /\ call' \in [Calls -> Call] /\ Others(p) /\ call'[p].op = "send"
        /\ call'[p].pc = "target" /\ call'[p].message = Len(thread) + 1
        /\ call'[p].text = call[p].text
    BY <1>1, <1>4, <2>2, CallTakesMessage
  <2>4. CallInv(p)'
    <3>1. Asked => Asked'
      BY <1>1, <2>1, AskedStays DEF TypeOK, RowsType
    <3>2. QED
      BY <1>1, <2>1, <2>3, <3>1 DEF CallInv, Carrying
  <2>5. AskedFirst'
    BY <1>1, <1>2, <2>1, AskedStays DEF IInv, AskedFirst, TypeOK, RowsType
  <2>6. DoubtsType'
    BY <1>4, <2>1, DoubtsTyped DEF Append1
  <2>7. QED
    BY <1>2, <2>1, <2>3, <2>4, <2>5, <2>6, Kept DEF Grown
<1>5. QED
  BY <1>3, <1>4 DEF Draft
LEMMA StillAskedFirst ==
    ASSUME IInv, RowsType', Grown, UNCHANGED reminded,
           status' = "AWAITING_REPLY" => status = "AWAITING_REPLY"
    PROVE  AskedFirst'
BY AskedStays DEF IInv, AskedFirst, TypeOK, RowsType

LEMMA StepCreateReminder ==
    ASSUME IInv, NEW p \in Calls, CreateReminder(p)
    PROVE  IInv'
<1>1. TypeOK /\ call[p].op = "remind" /\ call[p].text = "reminder" /\ Asked
  <2>1. TypeOK /\ CallInv(p)
    BY DEF IInv
  <2>2. QED
    BY <2>1 DEF CreateReminder, CallInv
<1>2. /\ UNCHANGED <<status, reminded, abandoned>> /\ RestType'
      /\ abandoned' \subseteq DOMAIN thread
  BY DEF CreateReminder, IInv, TypeOK, RestType
<1>3. ASSUME NEW s \in {"SENDING", "FAILED"}, Append1("reminder", s)
      PROVE  /\ RowsType' /\ Grown /\ RowsInv' /\ Len(thread) + 1 \in DOMAIN thread'
             /\ thread'[Len(thread) + 1].kind = "reminder" /\ Asked' /\ AskedFirst'
             /\ DoubtsType'
  <2>1. s \in Statuses /\ s # "SENT" /\ "reminder" \in Kinds
    BY DEF Statuses, Retryable, Kinds
  <2>2. /\ thread' = Append(thread, [kind |-> "reminder", status |-> s])
        /\ taken' = Append(taken, 0)
    BY <1>3 DEF Append1
  <2>3. /\ RowsType' /\ Grown /\ RowsInv' /\ Len(thread) + 1 \in DOMAIN thread'
        /\ thread'[Len(thread) + 1].kind = "reminder" /\ Len(thread') = Len(thread) + 1
    BY <1>1, <2>1, <2>2, AppendKeepsRows
  <2>4. Asked' /\ AskedFirst'
    BY <1>1, <1>2, <2>3, AskedStays, StillAskedFirst DEF TypeOK, RowsType
  <2>5. DoubtsType'
    BY <1>3, <2>3, DoubtsTyped DEF Append1
  <2>6. QED
    BY <2>3, <2>4, <2>5
<1>4. ASSUME Append1("reminder", "SENDING"),
             call' = [call EXCEPT ![p] = [@ EXCEPT !.message = Len(thread) + 1,
                                                   !.pc = "target"]]
      PROVE  IInv'
  <2>1. Len(thread) + 1 \in Nat
    BY <1>1 DEF TypeOK
  <2>2. /\ call' \in [Calls -> Call] /\ Others(p) /\ call'[p].op = "remind"
        /\ call'[p].pc = "target" /\ call'[p].message = Len(thread) + 1
        /\ call'[p].text = "reminder"
    BY <1>1, <1>4, <2>1, CallTakesMessage
  <2>3. CallInv(p)'
    BY <1>3, <1>4, <2>2 DEF CallInv, Carrying
  <2>4. abandoned' \subseteq DOMAIN thread'
    BY <1>2, <1>3, <1>4 DEF Grown
  <2>5. QED
    BY <1>2, <1>3, <1>4, <2>2, <2>3, <2>4, Kept
<1>5. ASSUME Append1("reminder", "FAILED"), Finish(p)
      PROVE  IInv'
  <2>1. /\ call' \in [Calls -> Call] /\ Others(p)
        /\ call'[p].pc = "done" /\ call'[p].message = NoMessage /\ call'[p].text = "request"
    BY <1>1, <1>5, CallFinishes
  <2>2. CallInv(p)'
    BY <2>1, OverCarriesNothing
  <2>3. abandoned' \subseteq DOMAIN thread'
    BY <1>2, <1>3, <1>5 DEF Grown
  <2>4. QED
    BY <1>2, <1>3, <1>5, <2>1, <2>2, <2>3, Kept
<1>6. QED
  BY <1>4, <1>5 DEF CreateReminder

LEMMA StepFindTarget ==
    ASSUME IInv, NEW p \in Calls, FindTarget(p)
    PROVE  IInv'
<1>1. TypeOK /\ call[p].pc \in Carrying
  BY DEF IInv, FindTarget, Carrying
<1>2. /\ UNCHANGED <<thread, taken, status, reminded>> /\ RestType'
      /\ abandoned' \subseteq DOMAIN thread /\ UNCHANGED doubts
  <2>1. contested' \subseteq Channels
    BY DEF FindTarget, IInv, TypeOK
  <2>2. QED
    BY <2>1 DEF FindTarget, rows, sent, trouble, IInv, TypeOK, RestType
<1>8. DoubtsType'
  BY <1>2, DoubtsTyped
<1>3. RowsType' /\ Grown
  BY <1>2, SameKeepsRows
<1>4. CASE GiveUp(p)
  BY <1>1, <1>2, <1>3, <1>4, <1>8, GivesUp, KeptQuietly
<1>5. CASE Goto(p, Ready(p))
  <2>1. /\ call' \in [Calls -> Call] /\ Others(p)
        /\ call'[p].pc = Ready(p) /\ call'[p].op = call[p].op
        /\ call'[p].message = call[p].message /\ call'[p].text = call[p].text
    BY <1>1, <1>5, ReadyCarries, CallMoves
  <2>2. CallInv(p)'
    BY <1>1, <1>3, <2>1, ReadyCarries, StillCarries DEF Carrying
  <2>3. QED
    BY <1>1, <1>2, <1>8, <2>1, <2>2, KeptQuietly DEF TypeOK
<1>6. CASE call' = [call EXCEPT ![p] = [@ EXCEPT !.known = target, !.pc = "create"]]
  <2>1. /\ call' \in [Calls -> Call] /\ Others(p) /\ call'[p].op = call[p].op
        /\ call'[p].pc = "create" /\ call'[p].message = call[p].message
        /\ call'[p].text = call[p].text
    <3>1. target \in [Channels -> BOOLEAN] /\ "create" \in Steps
      BY <1>1 DEF TypeOK, Steps
    <3>2. QED
      BY <1>1, <1>6, <3>1, CallKnows
  <2>2. CallInv(p)'
    BY <1>1, <1>3, <2>1, StillCarries DEF Carrying
  <2>3. QED
    BY <1>1, <1>2, <1>8, <2>1, <2>2, KeptQuietly DEF TypeOK
<1>7. QED
  BY <1>4, <1>5, <1>6 DEF FindTarget

LEMMA StepCreateTarget ==
    ASSUME IInv, NEW p \in Calls, CreateTarget(p)
    PROVE  IInv'
<1>1. TypeOK /\ call[p].pc \in Carrying
  BY DEF IInv, CreateTarget, Carrying
<1>2. /\ UNCHANGED <<thread, taken, status, reminded>>
      /\ abandoned' \subseteq DOMAIN thread /\ UNCHANGED doubts
  BY DEF CreateTarget, rows, trouble, IInv, TypeOK
<1>3. created' \in [Channels -> Nat]
  <2>1. call[p].channel \in Channels
    BY <1>1 DEF TypeOK, Call
  <2>2. created[call[p].channel] + 1 \in Nat /\ created \in [Channels -> Nat]
    BY <1>1, <2>1 DEF TypeOK
  <2>3. QED
    BY <2>2 DEF CreateTarget
<1>4. RestType'
  BY <1>3 DEF CreateTarget, rows, trouble, IInv, TypeOK, RestType
<1>5. RowsType' /\ Grown
  BY <1>2, SameKeepsRows
<1>6. /\ call' \in [Calls -> Call] /\ Others(p)
      /\ call'[p].pc = "store" /\ call'[p].op = call[p].op
      /\ call'[p].message = call[p].message /\ call'[p].text = call[p].text
  BY <1>1, CallMoves DEF CreateTarget, Steps
<1>7. CallInv(p)'
  BY <1>1, <1>5, <1>6, StillCarries DEF Carrying
<1>8. DoubtsType'
  BY <1>2, DoubtsTyped
<1>9. QED
  BY <1>1, <1>2, <1>4, <1>6, <1>7, <1>8, KeptQuietly DEF TypeOK

LEMMA StepStoreTarget ==
    ASSUME IInv, NEW p \in Calls, StoreTarget(p)
    PROVE  IInv'
<1>1. TypeOK /\ call[p].pc \in Carrying
  BY DEF IInv, StoreTarget, Carrying
<1>2. /\ UNCHANGED <<thread, taken, status, reminded>>
      /\ abandoned' \subseteq DOMAIN thread /\ UNCHANGED doubts
  BY DEF StoreTarget, sent, trouble, IInv, TypeOK
<1>3. target' \in [Channels -> BOOLEAN]
  BY <1>1 DEF StoreTarget, Stored, TypeOK, Call
<1>4. RestType'
  BY <1>3 DEF StoreTarget, sent, trouble, IInv, TypeOK, RestType
<1>5. RowsType' /\ Grown
  BY <1>2, SameKeepsRows
<1>6. /\ call' \in [Calls -> Call] /\ Others(p) /\ call'[p].op = call[p].op
      /\ call'[p].pc = Ready(p) /\ call'[p].message = call[p].message
      /\ call'[p].text = call[p].text
  <2>1. NoTargets \in [Channels -> BOOLEAN] /\ Ready(p) \in Steps
    BY ReadyCarries DEF NoTargets
  <2>2. call' = [call EXCEPT ![p] = [@ EXCEPT !.known = NoTargets, !.pc = Ready(p)]]
    BY DEF StoreTarget
  <2> HIDE DEF NoTargets
  <2>3. QED
    BY <1>1, <2>1, <2>2, CallKnows
<1>7. CallInv(p)'
  BY <1>1, <1>5, <1>6, ReadyCarries, StillCarries DEF Carrying
<1>8. DoubtsType'
  BY <1>2, DoubtsTyped
<1>9. QED
  BY <1>1, <1>2, <1>4, <1>6, <1>7, <1>8, KeptQuietly DEF TypeOK
LEMMA StepStartSending ==
    ASSUME IInv, NEW p \in Calls, StartSending(p)
    PROVE  IInv'
<1>1. TypeOK /\ CallInv(p) /\ call[p].pc \in Carrying /\ call[p].op = "send"
  BY DEF IInv, StartSending, Carrying, CallInv
<1>2. /\ UNCHANGED <<status, reminded>> /\ RestType'
      /\ abandoned' \subseteq DOMAIN thread /\ UNCHANGED doubts
  BY <1>1 DEF StartSending, sent, trouble, TypeOK, RestType, Call
<1>3. call[p].message \in DOMAIN thread /\ thread[call[p].message].kind # "confirmation"
  BY <1>1 DEF CallInv
<1>4. RowsType' /\ Grown /\ RowsInv' /\ DOMAIN thread' = DOMAIN thread
      /\ Len(thread') = Len(thread)
  <2>1. "SENDING" \in Statuses /\ UNCHANGED taken
    BY DEF Statuses, Retryable, StartSending, sent, trouble
  <2>2. thread' = [thread EXCEPT ![call[p].message].status = "SENDING"]
    BY DEF StartSending
  <2>3. QED
    BY <1>3, <2>1, <2>2, MarkKeepsRows
<1>5. /\ call' \in [Calls -> Call] /\ Others(p)
      /\ call'[p].pc = "deliver" /\ call'[p].op = call[p].op
      /\ call'[p].message = call[p].message /\ call'[p].text = call[p].text
  BY <1>1, CallStarts
<1>6. CallInv(p)'
  BY <1>1, <1>4, <1>5, StillCarries DEF Carrying
<1>7. AskedFirst'
  BY <1>2, <1>4, StillAskedFirst
<1>8. DoubtsType'
  BY <1>2, <1>4, DoubtsTyped
<1>9. QED
  BY <1>1, <1>2, <1>3, <1>4, <1>5, <1>6, <1>7, <1>8, Kept

LEMMA StepMarkSendFailure ==
    ASSUME IInv, NEW p \in Calls, MarkSendFailure(p)
    PROVE  IInv'
<1>1. TypeOK /\ CallInv(p) /\ call[p].pc \in Carrying /\ call[p].op # "confirm"
  BY DEF IInv, MarkSendFailure, Carrying, CallInv
<1>2. /\ UNCHANGED reminded /\ RestType' /\ status' = "READY_TO_SEND"
      /\ abandoned' \subseteq DOMAIN thread /\ UNCHANGED doubts
  BY <1>1 DEF MarkSendFailure, sent, trouble, TypeOK, RestType
<1>3. call[p].message \in DOMAIN thread /\ thread[call[p].message].kind # "confirmation"
  BY <1>1 DEF CallInv
<1>4. RowsType' /\ Grown /\ RowsInv' /\ DOMAIN thread' = DOMAIN thread
      /\ Len(thread') = Len(thread)
  <2>1. "FAILED" \in Statuses /\ UNCHANGED taken
    BY DEF Statuses, Retryable, MarkSendFailure, sent, trouble
  <2>2. thread' = [thread EXCEPT ![call[p].message].status = "FAILED"]
    BY DEF MarkSendFailure, FailedMessage
  <2>3. QED
    BY <1>3, <2>1, <2>2, MarkKeepsRows
<1>5. /\ call' \in [Calls -> Call] /\ Others(p)
      /\ call'[p].pc = "done" /\ call'[p].message = NoMessage /\ call'[p].text = "request"
  BY <1>1, CallFinishes DEF MarkSendFailure
<1>6. CallInv(p)'
  BY <1>5, OverCarriesNothing
<1>7. AskedFirst'
  BY <1>2, <1>4, StillAskedFirst
<1>8. DoubtsType'
  BY <1>2, <1>4, DoubtsTyped
<1>9. QED
  BY <1>2, <1>4, <1>5, <1>6, <1>7, <1>8, Kept

LEMMA RecordedRows ==
    ASSUME IInv, NEW p \in Calls, call[p].pc = "record", call[p].op # "confirm",
           thread' = [thread EXCEPT ![call[p].message].status = "SENT"], UNCHANGED taken
    PROVE  /\ RowsType' /\ Grown /\ RowsInv' /\ DOMAIN thread' = DOMAIN thread
           /\ Asked' /\ Len(thread') = Len(thread)
<1>1. TypeOK /\ CallInv(p) /\ call[p].pc \in Carrying
  BY DEF IInv, Carrying
<1>2. /\ call[p].message \in DOMAIN thread /\ thread[call[p].message].kind # "confirmation"
      /\ taken[call[p].message] > 0
  BY <1>1 DEF CallInv
<1>3. "SENT" \in Statuses
  BY DEF Statuses
<1>4. /\ RowsType' /\ Grown /\ RowsInv' /\ DOMAIN thread' = DOMAIN thread
      /\ Len(thread') = Len(thread)
  BY <1>2, <1>3, MarkKeepsRows
<1>5. Asked
  <2>1. thread[call[p].message].kind \in {"request", "reminder"}
    <3>1. thread[call[p].message] \in Message
      BY <1>1, <1>2 DEF TypeOK
    <3>2. QED
      BY <1>2, <3>1 DEF Message, Kinds
  <2>2. QED
    BY <1>2, <2>1 DEF Asked, IInv, RowsInv, RemindedIsAsked
<1>6. QED
  BY <1>1, <1>4, <1>5, AskedStays DEF TypeOK, RowsType

LEMMA StepRecordSent ==
    ASSUME IInv, NEW p \in Calls, RecordSent(p)
    PROVE  IInv'
<1>1. TypeOK
  BY DEF IInv
<1>2. RestType' /\ abandoned' \subseteq DOMAIN thread
  BY <1>1 DEF RecordSent, sent, trouble, TypeOK, RestType, Call
<1>3. /\ RowsType' /\ Grown /\ RowsInv' /\ DOMAIN thread' = DOMAIN thread
      /\ Asked' /\ Len(thread') = Len(thread)
  BY RecordedRows DEF RecordSent, sent, trouble
<1>4. /\ call' \in [Calls -> Call] /\ Others(p)
      /\ call'[p].pc = "done" /\ call'[p].message = NoMessage /\ call'[p].text = "request"
  BY <1>1, CallFinishes DEF RecordSent
<1>5. CallInv(p)'
  BY <1>4, OverCarriesNothing
<1>6. AskedFirst'
  BY <1>3 DEF AskedFirst
<1>7. DoubtsType'
  BY <1>3, DoubtsTyped DEF RecordSent, trouble
<1>8. QED
  BY <1>2, <1>3, <1>4, <1>5, <1>6, <1>7, Kept

LEMMA StepRecordReminder ==
    ASSUME IInv, NEW p \in Calls, RecordReminder(p)
    PROVE  IInv'
<1>1. TypeOK
  BY DEF IInv
<1>2. reminder' \in [count : Nat, last : Nat \cup {Never}]
  <2>1. call[p].now \in Nat /\ reminder.count + 1 \in Nat
    BY <1>1 DEF TypeOK, Call
  <2>2. QED
    BY <2>1 DEF RecordReminder, Remember
<1>3. RestType' /\ abandoned' \subseteq DOMAIN thread
  BY <1>1, <1>2 DEF RecordReminder, sent, trouble, TypeOK, RestType
<1>4. /\ RowsType' /\ Grown /\ RowsInv' /\ DOMAIN thread' = DOMAIN thread
      /\ Asked' /\ Len(thread') = Len(thread)
  BY RecordedRows DEF RecordReminder, sent, trouble
<1>5. /\ call' \in [Calls -> Call] /\ Others(p)
      /\ call'[p].pc = "done" /\ call'[p].message = NoMessage /\ call'[p].text = "request"
  BY <1>1, CallFinishes DEF RecordReminder
<1>6. CallInv(p)'
  BY <1>5, OverCarriesNothing
<1>7. AskedFirst'
  BY <1>4 DEF AskedFirst
<1>8. DoubtsType'
  BY <1>4, DoubtsTyped DEF RecordReminder, trouble
<1>9. QED
  BY <1>3, <1>4, <1>5, <1>6, <1>7, <1>8, Kept

LEMMA StepRecordConfirmation ==
    ASSUME IInv, NEW p \in Calls, RecordConfirmation(p)
    PROVE  IInv'
<1>1. TypeOK
  BY DEF IInv
<1>2. /\ UNCHANGED <<status, reminded>> /\ RestType'
      /\ abandoned' \subseteq DOMAIN thread
  BY <1>1 DEF RecordConfirmation, TypeOK, RestType
<1>3. RowsType' /\ Grown /\ RowsInv' /\ Len(thread') = Len(thread) + 1
  <2>1. "confirmation" \in Kinds /\ "SENT" \in Statuses /\ 1 \in Nat /\ 1 > 0
    BY DEF Kinds, Statuses
  <2>2. /\ thread' = Append(thread, [kind |-> "confirmation", status |-> "SENT"])
        /\ taken' = Append(taken, 1)
    BY DEF RecordConfirmation
  <2>3. QED
    BY <2>1, <2>2, AppendKeepsRows
<1>4. /\ call' \in [Calls -> Call] /\ Others(p)
      /\ call'[p].pc = "done" /\ call'[p].message = NoMessage /\ call'[p].text = "request"
  BY <1>1, CallFinishes DEF RecordConfirmation
<1>5. CallInv(p)'
  BY <1>4, OverCarriesNothing
<1>6. AskedFirst'
  BY <1>2, <1>3, StillAskedFirst
<1>7. DoubtsType'
  BY <1>3, DoubtsTyped DEF RecordConfirmation
<1>8. QED
  BY <1>2, <1>3, <1>4, <1>5, <1>6, <1>7, Kept DEF Grown

LEMMA TrackLost ==
    ASSUME IInv, NEW p \in Calls, call[p].pc \in Carrying, LoseTrack(p), UNCHANGED thread
    PROVE  DoubtsType'
<1>1. call[p].op # "confirm" => call[p].message \in DOMAIN thread
  BY DEF IInv, CallInv
<1>2. UNCHANGED doubts \/ \E m \in DOMAIN thread : Doubted(m)
  BY <1>1 DEF LoseTrack
<1>3. QED
  BY <1>2, DoubtsTyped

LEMMA StepRecordFails ==
    ASSUME IInv, NEW p \in Calls, RecordFails(p)
    PROVE  IInv'
<1>1. TypeOK /\ call[p].pc \in Carrying
  BY DEF IInv, RecordFails, Carrying
<1>2. /\ UNCHANGED <<thread, taken, status, reminded>> /\ RestType'
      /\ abandoned' \subseteq DOMAIN thread
  BY DEF RecordFails, rows, sent, trouble, IInv, TypeOK, RestType
<1>3. RowsType' /\ Grown
  BY <1>2, SameKeepsRows
<1>4. DoubtsType'
  BY <1>1, <1>2, TrackLost DEF RecordFails
<1>5. QED
  BY <1>1, <1>2, <1>3, <1>4, GivesUp, KeptQuietly DEF RecordFails

LEMMA StepDie ==
    ASSUME IInv, NEW p \in Calls, Die(p)
    PROVE  IInv'
<1>1. TypeOK
  BY DEF IInv
<1>2. UNCHANGED <<thread, taken, status, reminded>> /\ RestType'
  <2>1. call[p].channel \in Channels
    BY <1>1 DEF TypeOK, Call
  <2>2. contested' \subseteq Channels
    BY <1>1, <2>1 DEF Die, TypeOK
  <2>3. QED
    BY <1>1, <2>2 DEF Die, rows, sent, TypeOK, RestType
<1>3. abandoned' \subseteq DOMAIN thread
  BY <1>1 DEF Die, TypeOK
<1>4. /\ call' \in [Calls -> Call] /\ Others(p)
      /\ call'[p].pc = "done" /\ call'[p].message = NoMessage /\ call'[p].text = "request"
  BY <1>1, CallFinishes DEF Die
<1>5. CallInv(p)'
  BY <1>4, OverCarriesNothing
<1>6. DoubtsType'
  BY <1>2, TrackLost, DoubtsTyped DEF Die, Carrying
<1>7. QED
  BY <1>2, <1>3, <1>4, <1>5, <1>6, KeptQuietly

LEMMA StepDeliver ==
    ASSUME IInv, NEW p \in Calls, Deliver(p)
    PROVE  IInv'
<1>1. TypeOK /\ CallInv(p) /\ call[p].pc \in Carrying
  BY DEF IInv, Deliver, Carrying
<1>2. UNCHANGED <<thread, status>> /\ abandoned' \subseteq DOMAIN thread
  BY <1>1 DEF Deliver, rows, TypeOK
<1>3. ASSUME Take(p)
      PROVE  /\ RestType' /\ RowsType' /\ Grown /\ RowsInv' /\ AskedFirst'
             /\ call[p].op # "confirm" => taken'[call[p].message] > 0
  <2>1. reminded' \in Seq(Nat) /\ UNCHANGED created
    BY <1>1, <1>3 DEF Take, TypeOK, Call
  <2>2. RestType'
    BY <1>1, <1>3, <2>1 DEF Deliver, rows, TypeOK, RestType
  <2>3. /\ RowsType' /\ Grown /\ RowsInv'
        /\ call[p].op # "confirm" => taken'[call[p].message] > 0
    <3>1. CASE call[p].op = "confirm"
      BY <1>2, <1>3, <3>1, SameKeepsRows DEF Take
    <3>2. CASE call[p].op # "confirm"
      <4>1. call[p].message \in DOMAIN thread
        BY <1>1, <3>2 DEF CallInv
      <4>2. taken' = [taken EXCEPT ![call[p].message] = @ + 1]
        BY <1>3, <3>2 DEF Take
      <4>3. QED
        BY <1>2, <4>1, <4>2, TakeKeepsRows
    <3>3. QED
      BY <3>1, <3>2
  <2>4. Asked => Asked'
    BY <1>1, <2>3, AskedStays DEF TypeOK, RowsType
  <2>5. AskedFirst'
    <3>1. CASE call[p].text = "reminder"
      BY <1>1, <2>4, <3>1 DEF CallInv, AskedFirst
    <3>2. CASE call[p].text # "reminder"
      BY <1>2, <1>3, <2>4, <3>2 DEF Take, IInv, AskedFirst
    <3>3. QED
      BY <3>1, <3>2
  <2>6. QED
    BY <2>2, <2>3, <2>5
<1>4. ASSUME Take(p), Goto(p, "record"), UNCHANGED doubts
      PROVE  IInv'
  <2>0. DoubtsType'
    BY <1>2, <1>4, DoubtsTyped
  <2>1. /\ call' \in [Calls -> Call] /\ Others(p)
        /\ call'[p].pc = "record" /\ call'[p].op = call[p].op
        /\ call'[p].message = call[p].message /\ call'[p].text = call[p].text
    BY <1>1, <1>4, CallMoves DEF Steps
  <2>2. CallInv(p)'
    BY <1>1, <1>3, <1>4, <2>0, <2>1, StillCarries DEF Carrying
  <2>3. QED
    BY <1>1, <1>2, <1>3, <1>4, <2>0, <2>1, <2>2, Kept DEF TypeOK
<1>5. ASSUME Take(p), GiveUp(p), LoseTrack(p)
      PROVE  IInv'
  <2>1. RestType' /\ RowsType' /\ Grown /\ RowsInv' /\ AskedFirst'
    BY <1>3, <1>5
  <2>2. DoubtsType'
    BY <1>1, <1>2, <1>5, TrackLost
  <2>3. QED
    BY <1>1, <1>2, <1>5, <2>1, <2>2, GivesUp, Kept
<1>6. ASSUME Refuse(p), UNCHANGED <<sent, doubts>>
      PROVE  IInv'
  <2>1. UNCHANGED <<thread, taken, status, reminded>> /\ RestType'
    BY <1>1, <1>2, <1>6 DEF Deliver, rows, sent, TypeOK, RestType
  <2>2. RowsType' /\ Grown
    BY <2>1, SameKeepsRows
  <2>3. DoubtsType'
    BY <1>2, <1>6, DoubtsTyped
  <2>4. QED
    BY <1>1, <1>2, <1>6, <2>1, <2>2, <2>3, GivesUp, KeptQuietly DEF Refuse
<1>7. QED
  BY <1>4, <1>5, <1>6 DEF Deliver
LEMMA StepOutside ==
    ASSUME IInv, Answer \/ Tick \/ UNCHANGED vars
    PROVE  IInv'
<1>1. /\ UNCHANGED <<thread, taken, reminded, call, abandoned, doubts>> /\ RestType'
      /\ status' = "AWAITING_REPLY" => status = "AWAITING_REPLY"
  BY DEF Answer, Tick, vars, rows, sent, trouble, IInv, TypeOK, RestType
<1>2. RowsType' /\ Grown /\ RowsInv' /\ Asked' = Asked
  BY <1>1, SameKeepsRows
<1>3. AskedFirst'
  BY <1>1, <1>2, StillAskedFirst
<1>4. TypeOK'
  BY <1>1, <1>2 DEF IInv, TypeOK, RestType, RowsType
<1>5. \A p \in Calls : CallInv(p)'
  BY <1>1, <1>2 DEF IInv, CallInv
<1>6. QED
  BY <1>2, <1>3, <1>4, <1>5 DEF IInv

LEMMA StepIInv == IInv /\ [Next]_vars => IInv'
<1> SUFFICES ASSUME IInv, [Next]_vars PROVE IInv'
  OBVIOUS
<1>1. ASSUME NEW p \in Calls, Step(p)
      PROVE  IInv'
  BY <1>1, StepDraft, StepCreateReminder, StepFindTarget, StepCreateTarget, StepStoreTarget,
     StepStartSending, StepDeliver, StepRecordSent, StepRecordReminder,
     StepRecordConfirmation, StepRecordFails, StepMarkSendFailure DEF Step
<1>2. ASSUME NEW p \in Calls, NEW c \in Channels, Send(p, c)
      PROVE  IInv'
  BY <1>2, StepSend
<1>3. ASSUME NEW p \in Calls, Remind(p) \/ Confirm(p) \/ Die(p)
      PROVE  IInv'
  BY <1>3, StepRemind, StepConfirm, StepDie
<1>4. QED
  BY <1>1, <1>2, <1>3, StepOutside DEF Next, Begin

LEMMA InitIInv == Init => IInv
<1> SUFFICES ASSUME Init PROVE IInv
  OBVIOUS
<1> DEFINE first == [kind |-> "request", status |-> "DRAFT"]
<1>1. first \in Message /\ first.kind = "request" /\ first.status = "DRAFT"
  BY DEF Message, Retryable, Kinds
<1> HIDE DEF first
<1>2. thread = << first >> /\ taken = << 0 >> /\ doubts = << 0 >>
  BY DEF Init, first
<1>3. RowsType /\ DoubtsType /\ DOMAIN thread = {1} /\ thread[1] = first
  BY <1>1, <1>2 DEF RowsType, DoubtsType
<1>4. IdleCall \in Call /\ IdleCall.pc = "idle" /\ IdleCall.message = NoMessage
      /\ IdleCall.text = "request" /\ IdleCall.op = "send"
  BY DEF IdleCall, Call, Steps, NoTargets, NoMessage, Kinds
<1>5. /\ call \in [Calls -> Call]
      /\ \A p \in Calls : call[p].pc = "idle" /\ call[p].message = NoMessage
                            /\ call[p].text = "request" /\ call[p].op = "send"
  BY <1>4 DEF Init
<1>6. RestType /\ abandoned \subseteq DOMAIN thread
  BY DEF Init, RestType, NoTargets, Never
<1>7. TypeOK
  BY <1>3, <1>5, <1>6 DEF TypeOK, RowsType, RestType, DoubtsType
<1>8. \A p \in Calls : CallInv(p)
  BY <1>5 DEF CallInv, Carrying
<1>9. RowsInv
  BY <1>1, <1>3 DEF RowsInv, SentIsTaken, ConfirmedIsSent, RemindedIsAsked
<1>10. AskedFirst
  BY DEF Init, AskedFirst
<1>11. QED
  BY <1>7, <1>8, <1>9, <1>10 DEF IInv

(* Type correctness, for every number of calls, whatever channels there    *)
(* are: in particular every call's message, and every abandoned one, is a  *)
(* row of the thread, which only grows.                                    *)
THEOREM TypeCorrect == Spec => []TypeOK
<1>1. IInv => TypeOK
  BY DEF IInv
<1>2. QED
  BY <1>1, InitIInv, StepIInv, PTL DEF Spec
-----------------------------------------------------------------------------
(* The count.  A reminder that was taken and is still to be recorded has   *)
(* its place in it already.                                                *)

Pending == {p \in Calls : call[p].pc = "record" /\ call[p].op = "remind"}
WasTaken(time) == \E i \in DOMAIN reminded : reminded[i] = time

CountInv ==
    /\ reminder.count + Cardinality(Pending) <= Len(reminded)
    /\ \A p \in Pending : WasTaken(call[p].now)
    /\ reminder.last # Never => WasTaken(reminder.last)

MoreReminded ==
    /\ Len(reminded) <= Len(reminded')
    /\ \A i \in DOMAIN reminded : i \in DOMAIN reminded' /\ reminded'[i] = reminded[i]

LEMMA PendingIsFinite ==
    ASSUME NEW S, S \subseteq Calls
    PROVE  IsFiniteSet(S) /\ Cardinality(S) \in Nat
<1>1. IsFiniteSet(Calls)
  BY FS_Interval DEF Calls
<1>2. QED
  BY <1>1, FS_Subset, FS_CardinalityType

LEMMA CountKept ==
    ASSUME TypeOK, TypeOK', CountInv, NEW p \in Calls, Others(p), UNCHANGED reminder,
           MoreReminded, call'[p].pc # "record" \/ call'[p].op # "remind"
    PROVE  CountInv'
<1>1. Pending' \subseteq Pending /\ \A q \in Pending' : call'[q].now = call[q].now
  BY DEF Pending, Others
<1>2. Pending \subseteq Calls
  BY DEF Pending
<1>3. /\ Cardinality(Pending') <= Cardinality(Pending)
      /\ Cardinality(Pending) \in Nat /\ Cardinality(Pending') \in Nat
  BY <1>1, <1>2, PendingIsFinite, FS_Subset
<1>4. reminder'.count + Cardinality(Pending') <= Len(reminded')
  <2>1. /\ reminder.count \in Nat /\ reminder'.count = reminder.count
        /\ Len(reminded) \in Nat /\ Len(reminded') \in Nat
    BY DEF TypeOK
  <2>2. QED
    BY <1>3, <2>1 DEF CountInv, MoreReminded
<1>5. \A q \in Pending' : WasTaken(call[q].now)'
  <2> TAKE q \in Pending'
  <2>1. WasTaken(call[q].now)
    BY <1>1 DEF CountInv
  <2>2. call'[q].now = call[q].now
    BY <1>1
  <2>3. PICK i \in DOMAIN reminded : reminded[i] = call[q].now
    BY <2>1 DEF WasTaken
  <2>4. QED
    BY <2>2, <2>3 DEF WasTaken, MoreReminded
<1>6. reminder'.last # Never => WasTaken(reminder.last)'
  <2>1. SUFFICES ASSUME reminder.last # Never PROVE WasTaken(reminder.last)'
    OBVIOUS
  <2>2. PICK i \in DOMAIN reminded : reminded[i] = reminder.last
    BY <2>1 DEF CountInv, WasTaken
  <2>3. QED
    BY <2>2 DEF WasTaken, MoreReminded
<1>7. QED
  BY <1>4, <1>5, <1>6 DEF CountInv

LEMMA SameReminded == ASSUME UNCHANGED reminded, TypeOK PROVE MoreReminded
BY DEF MoreReminded, TypeOK

LEMMA CountDeliver ==
    ASSUME IInv, TypeOK', CountInv, NEW p \in Calls, Deliver(p)
    PROVE  CountInv'
<1>1. TypeOK /\ CallInv(p) /\ call[p].pc = "deliver" /\ call[p] \in Call
  BY DEF IInv, Deliver, TypeOK
<1>2. UNCHANGED reminder
  BY DEF Deliver, rows
<1>3. MoreReminded
  <2>1. CASE reminded' = reminded
    BY <1>1, <2>1, SameReminded
  <2>2. CASE reminded' = Append(reminded, call[p].now)
    <3>1. reminded \in Seq(Nat) /\ call[p].now \in Nat
      BY <1>1 DEF TypeOK, Call
    <3>2. /\ Len(reminded') = Len(reminded) + 1 /\ Len(reminded) \in Nat
          /\ DOMAIN reminded' = DOMAIN reminded \cup {Len(reminded) + 1}
          /\ \A i \in DOMAIN reminded : reminded'[i] = reminded[i]
      BY <2>2, <3>1, LongerCounts
    <3>3. Len(reminded) <= Len(reminded')
      BY <3>2
    <3>4. QED
      BY <3>2, <3>3 DEF MoreReminded
  <2>3. QED
    BY <2>1, <2>2 DEF Deliver, Take, sent
<1>4. CASE GiveUp(p)
  <2>1. Others(p) /\ call'[p].pc \in {"done", "fail"}
    BY <1>1, <1>4, CallFinishes, CallMoves DEF GiveUp, Steps
  <2>2. QED
    BY <1>1, <1>2, <1>3, <2>1, CountKept
<1>5. ASSUME Take(p), Goto(p, "record")
      PROVE  CountInv'
  <2>1. /\ Others(p) /\ call'[p].pc = "record"
        /\ call'[p].op = call[p].op /\ call'[p].now = call[p].now
    BY <1>1, <1>5, CallMoves DEF Steps
  <2>2. CASE call[p].op # "remind"
    BY <1>1, <1>2, <1>3, <2>1, <2>2, CountKept
  <2>3. CASE call[p].op = "remind"
    <3>0. call[p].text = "reminder"
      BY <1>1, <2>3 DEF CallInv, Carrying
    <3>1. /\ reminded' \in Seq(Nat) /\ Len(reminded') = Len(reminded) + 1
          /\ Len(reminded) + 1 \in DOMAIN reminded'
          /\ reminded'[Len(reminded) + 1] = call[p].now
      BY <1>1, <1>5, <3>0, LongerCounts DEF Take, TypeOK, Call
    <3>2. Pending' = Pending \cup {p} /\ p \notin Pending /\ Pending \subseteq Calls
      BY <1>1, <2>1, <2>3 DEF Pending, Others
    <3>3. Cardinality(Pending') = Cardinality(Pending) + 1 /\ Cardinality(Pending) \in Nat
      BY <3>2, PendingIsFinite, FS_AddElement
    <3>4. reminder'.count + Cardinality(Pending') <= Len(reminded')
      <4>1. reminder.count \in Nat /\ reminder'.count = reminder.count /\ Len(reminded) \in Nat
        BY <1>1, <1>2 DEF TypeOK
      <4>2. QED
        BY <3>1, <3>3, <4>1 DEF CountInv
    <3>5. \A q \in Pending' : WasTaken(call[q].now)'
      <4> TAKE q \in Pending'
      <4>1. CASE q = p
        BY <2>1, <3>1, <4>1 DEF WasTaken
      <4>2. CASE q # p
        <5>1. q \in Pending /\ call'[q].now = call[q].now
          BY <2>1, <3>2, <4>2 DEF Pending, Others
        <5>2. PICK i \in DOMAIN reminded : reminded[i] = call[q].now
          BY <5>1 DEF CountInv, WasTaken
        <5>3. QED
          BY <1>3, <5>1, <5>2 DEF WasTaken, MoreReminded
      <4>3. QED
        BY <4>1, <4>2
    <3>6. reminder'.last # Never => WasTaken(reminder.last)'
      <4>1. SUFFICES ASSUME reminder.last # Never PROVE WasTaken(reminder.last)'
        BY <1>2
      <4>2. PICK i \in DOMAIN reminded : reminded[i] = reminder.last
        BY <4>1 DEF CountInv, WasTaken
      <4>3. QED
        BY <1>2, <1>3, <4>2 DEF WasTaken, MoreReminded
    <3>7. QED
      BY <3>4, <3>5, <3>6 DEF CountInv
  <2>4. QED
    BY <2>2, <2>3
<1>6. QED
  BY <1>4, <1>5 DEF Deliver, Refuse

LEMMA CountRecordReminder ==
    ASSUME IInv, TypeOK', CountInv, NEW p \in Calls, RecordReminder(p)
    PROVE  CountInv'
<1>1. TypeOK /\ p \in Pending /\ UNCHANGED reminded
  BY DEF IInv, RecordReminder, Pending, sent, trouble
<1>2. Others(p) /\ call'[p].pc = "done"
  BY <1>1, CallFinishes DEF RecordReminder
<1>3. Pending' = Pending \ {p} /\ \A q \in Pending' : call'[q].now = call[q].now
  BY <1>2 DEF Pending, Others
<1>4. Cardinality(Pending') = Cardinality(Pending) - 1 /\ Cardinality(Pending) \in Nat
  <2>1. Pending \subseteq Calls
    BY DEF Pending
  <2>2. QED
    BY <1>1, <1>3, <2>1, PendingIsFinite, FS_RemoveElement
<1>5. reminder'.count = reminder.count + 1 /\ reminder'.last = call[p].now
  BY DEF RecordReminder, Remember
<1>6. reminder'.count + Cardinality(Pending') <= Len(reminded')
  <2>1. reminder.count \in Nat /\ Len(reminded) \in Nat
    BY <1>1 DEF TypeOK
  <2>2. QED
    BY <1>1, <1>4, <1>5, <2>1 DEF CountInv
<1>7. \A q \in Pending' : WasTaken(call[q].now)'
  BY <1>1, <1>3 DEF CountInv, WasTaken
<1>8. WasTaken(reminder.last)'
  BY <1>1, <1>5 DEF CountInv, WasTaken
<1>9. QED
  BY <1>6, <1>7, <1>8 DEF CountInv

LEMMA CountElsewhere ==
    ASSUME IInv, TypeOK', CountInv, NEW p \in Calls,
           \/ \E c \in Channels : Send(p, c)
           \/ Remind(p) \/ Confirm(p) \/ Draft(p) \/ CreateReminder(p) \/ FindTarget(p)
           \/ CreateTarget(p) \/ StoreTarget(p) \/ StartSending(p) \/ RecordSent(p)
           \/ RecordConfirmation(p) \/ RecordFails(p) \/ MarkSendFailure(p) \/ Die(p)
    PROVE  CountInv'
<1>1. TypeOK /\ call[p] \in Call
  BY DEF IInv, TypeOK
<1>2. UNCHANGED <<reminder, reminded>>
  BY DEF Send, Remind, Confirm, Draft, CreateReminder, FindTarget, CreateTarget, StoreTarget,
     StartSending, RecordSent, RecordConfirmation, RecordFails, MarkSendFailure, Die, rows,
     sent, trouble
<1>3. Others(p) /\ call'[p].pc # "record"
  <2>1. CASE \/ \E c \in Channels : Send(p, c)
             \/ Remind(p) \/ Confirm(p)
    BY <1>1, <2>1, CallSends, CallReminds, CallConfirms
  <2>2. ASSUME NEW m, call' = [call EXCEPT ![p] = [@ EXCEPT !.message = m, !.pc = "target"]]
        PROVE  Others(p) /\ call'[p].pc # "record"
    BY <1>1, <2>2 DEF TypeOK, Call, Others
  <2>3. ASSUME NEW k, NEW s \in Steps \ {"record"},
               call' = [call EXCEPT ![p] = [@ EXCEPT !.known = k, !.pc = s]]
        PROVE  Others(p) /\ call'[p].pc # "record"
    BY <1>1, <2>3 DEF TypeOK, Call, Others
  <2>4. ASSUME NEW s \in Steps \ {"record"}, Goto(p, s)
        PROVE  Others(p) /\ call'[p].pc # "record"
    BY <1>1, <2>4, CallMoves
  <2>5. ASSUME Finish(p)
        PROVE  Others(p) /\ call'[p].pc # "record"
    BY <1>1, <2>5, CallFinishes
  <2>6. ASSUME GiveUp(p)
        PROVE  Others(p) /\ call'[p].pc # "record"
    BY <2>4, <2>5, <2>6 DEF GiveUp, Steps
  <2>7. Ready(p) \in Steps \ {"record"}
    BY DEF Ready, Steps
  <2>8. CASE Draft(p) \/ CreateReminder(p)
    BY <2>2, <2>5, <2>8 DEF Draft, CreateReminder
  <2>9. CASE FindTarget(p)
    BY <2>3, <2>4, <2>6, <2>7, <2>9 DEF FindTarget, Steps
  <2>10. CASE CreateTarget(p) \/ StartSending(p)
    BY <1>1, <2>4, <2>10, CallStarts DEF CreateTarget, Steps
  <2>11. CASE StoreTarget(p)
    BY <2>3, <2>7, <2>11 DEF StoreTarget
  <2>12. CASE RecordSent(p) \/ RecordConfirmation(p) \/ MarkSendFailure(p) \/ Die(p)
    BY <2>5, <2>12 DEF RecordSent, RecordConfirmation, MarkSendFailure, Die
  <2>13. CASE RecordFails(p)
    BY <2>6, <2>13 DEF RecordFails
  <2>14. QED
    BY <2>1, <2>8, <2>9, <2>10, <2>11, <2>12, <2>13
<1>4. QED
  BY <1>1, <1>2, <1>3, SameReminded, CountKept

LEMMA CountOutside ==
    ASSUME CountInv, Answer \/ Tick \/ UNCHANGED vars
    PROVE  CountInv'
<1>1. UNCHANGED <<reminder, reminded, call>>
  BY DEF Answer, Tick, vars, rows, sent, trouble
<1>2. Pending' = Pending
  BY <1>1 DEF Pending
<1>3. QED
  BY <1>1, <1>2 DEF CountInv, WasTaken

LEMMA StepCount == IInv /\ CountInv /\ [Next]_vars => CountInv'
<1> SUFFICES ASSUME IInv, CountInv, [Next]_vars PROVE CountInv'
  OBVIOUS
<1>1. TypeOK'
  BY StepIInv DEF IInv
<1>2. ASSUME NEW p \in Calls, Step(p)
      PROVE  CountInv'
  BY <1>1, <1>2, CountDeliver, CountRecordReminder, CountElsewhere DEF Step
<1>3. ASSUME NEW p \in Calls, (\E c \in Channels : Send(p, c)) \/ Remind(p) \/ Confirm(p)
                              \/ Die(p)
      PROVE  CountInv'
  BY <1>1, <1>3, CountElsewhere
<1>4. QED
  BY <1>2, <1>3, CountOutside DEF Next, Begin

LEMMA InitCount == Init => CountInv
<1> SUFFICES ASSUME Init PROVE CountInv
  OBVIOUS
<1>1. Pending = {}
  BY DEF Init, Pending, IdleCall
<1>2. Cardinality(Pending) = 0
  BY <1>1, FS_EmptySet
<1>3. reminder.count = 0 /\ reminder.last = Never /\ Len(reminded) = 0
  BY DEF Init
<1>4. QED
  BY <1>1, <1>2, <1>3 DEF CountInv

(* What the tables say the provider took, it took, whatever overlaps, dies *)
(* or is lost: no message is SENT that was not taken, no request awaits a  *)
(* reply and no supplier is reminded of a request it never got, and no     *)
(* reminder is counted, or dated, that was not taken.                      *)
THEOREM RecordedWasTaken == Spec => []RecordedIsTaken
<1>1. IInv /\ CountInv => RecordedIsTaken
  <2> SUFFICES ASSUME IInv, CountInv PROVE RecordedIsTaken
    OBVIOUS
  <2>1. reminder.count \in Nat /\ Len(reminded) \in Nat
    BY DEF IInv, TypeOK
  <2>2. Cardinality(Pending) \in Nat
    BY PendingIsFinite DEF Pending
  <2>3. CountedIsTaken
    BY <2>1, <2>2 DEF CountInv, WasTaken, CountedIsTaken
  <2>4. QED
    BY <2>3 DEF IInv, RowsInv, RecordedIsTaken
<1>2. QED
  BY <1>1, InitIInv, StepIInv, InitCount, StepCount, PTL DEF Spec
-----------------------------------------------------------------------------
(* Taken once.  A message has one taking in hand: the one the provider     *)
(* made, that of a call that may still make it, or, while it may be sent   *)
(* again and no call carries it, that of the next; each time the service   *)
(* loses track of it, it has one more.                                     *)

Open(m)  == {p \in Calls : call[p].message = m /\ call[p].pc # "record"}
Spare(m) == IF thread[m].status \in Retryable /\ ~Carried(m) THEN 1 ELSE 0
Once(m)  == taken[m] + Cardinality(Open(m)) + Spare(m) <= 1 + doubts[m]
OnceInv  == \A m \in DOMAIN thread : Once(m)

Weight(p, m) == IF call[p].message = m /\ call[p].pc # "record" THEN 1 ELSE 0

LEMMA OpenMoves ==
    ASSUME NEW p \in Calls, Others(p), NEW m
    PROVE  /\ Cardinality(Open(m))' = Cardinality(Open(m)) - Weight(p, m) + Weight(p, m)'
           /\ Cardinality(Open(m)) \in Nat /\ Cardinality(Open(m))' \in Nat
           /\ Weight(p, m) \in {0, 1} /\ Weight(p, m)' \in {0, 1}
<1> DEFINE rest == Open(m) \ {p}
<1>1. Open(m) \subseteq Calls /\ Open(m)' \subseteq Calls /\ rest \subseteq Calls
  BY DEF Open
<1>2. /\ Cardinality(Open(m)) \in Nat /\ Cardinality(Open(m)') \in Nat
      /\ IsFiniteSet(rest) /\ Cardinality(rest) \in Nat
  BY <1>1, PendingIsFinite
<1>3. rest = Open(m)' \ {p} /\ p \notin rest
  BY DEF Open, Others
<1>4. Cardinality(rest \cup {p}) = Cardinality(rest) + 1
  BY <1>2, <1>3, FS_AddElement
<1>5. Cardinality(Open(m)) = Cardinality(rest) + Weight(p, m)
  <2>1. CASE p \in Open(m)
    <3>1. Open(m) = rest \cup {p} /\ Weight(p, m) = 1
      BY <2>1 DEF Open, Weight
    <3>2. QED
      BY <1>4, <3>1
  <2>2. CASE p \notin Open(m)
    <3>1. Open(m) = rest /\ Weight(p, m) = 0
      BY <2>2 DEF Open, Weight
    <3>2. QED
      BY <1>2, <3>1
  <2>3. QED
    BY <2>1, <2>2
<1>6. Cardinality(Open(m)') = Cardinality(rest) + Weight(p, m)'
  <2>1. CASE p \in Open(m)'
    <3>1. Open(m)' = rest \cup {p} /\ Weight(p, m)' = 1
      BY <1>3, <2>1 DEF Open, Weight
    <3>2. QED
      BY <1>4, <3>1
  <2>2. CASE p \notin Open(m)'
    <3>1. Open(m)' = rest /\ Weight(p, m)' = 0
      BY <1>3, <2>2 DEF Open, Weight
    <3>2. QED
      BY <1>2, <3>1
  <2>3. QED
    BY <2>1, <2>2
<1>7. Weight(p, m) \in {0, 1} /\ Weight(p, m)' \in {0, 1}
  BY DEF Weight
<1>8. QED
  BY <1>2, <1>5, <1>6, <1>7

LEMMA Counts ==
    ASSUME TypeOK, NEW m \in DOMAIN thread
    PROVE  taken[m] \in Nat /\ doubts[m] \in Nat /\ Spare(m) \in {0, 1} /\ m # NoMessage
<1>1. m \in 1 .. Len(taken) /\ m \in 1 .. Len(doubts)
  BY DEF TypeOK
<1>2. QED
  BY <1>1 DEF TypeOK, Spare, NoMessage

(* A message the step has nothing to do with. *)
LEMMA OnceAside ==
    ASSUME TypeOK, TypeOK', OnceInv, NEW p \in Calls, Others(p),
           NEW m \in DOMAIN thread, m \in DOMAIN thread',
           call[p].message # m, call'[p].message # m,
           thread'[m].status = thread[m].status, taken'[m] = taken[m], doubts'[m] = doubts[m]
    PROVE  Once(m)'
<1>1. Weight(p, m) = 0 /\ Weight(p, m)' = 0
  BY DEF Weight
<1>2. Carried(m)' = Carried(m)
  BY DEF Carried, Others
<1>3. Spare(m)' = Spare(m)
  BY <1>2 DEF Spare
<1>4. Cardinality(Open(m))' = Cardinality(Open(m))
  BY <1>1, OpenMoves
<1>5. QED
  BY <1>3, <1>4 DEF OnceInv, Once

(* A message the call carries before and after the step. *)
LEMMA OnceHeld ==
    ASSUME TypeOK, TypeOK', OnceInv, NEW p \in Calls, Others(p),
           NEW m \in DOMAIN thread, m \in DOMAIN thread',
           call[p].message = m, call'[p].message = m,
           taken'[m] + Weight(p, m)' + doubts[m] <= taken[m] + Weight(p, m) + doubts'[m]
    PROVE  Once(m)'
<1>1. Spare(m) = 0 /\ Spare(m)' = 0
  BY DEF Spare, Carried
<1>2. /\ taken[m] \in Nat /\ doubts[m] \in Nat
      /\ taken'[m] \in Nat /\ doubts'[m] \in Nat
  <2>1. taken'[m] \in Nat /\ doubts'[m] \in Nat
    <3>1. m \in 1 .. Len(taken') /\ m \in 1 .. Len(doubts')
      BY DEF TypeOK
    <3>2. taken' \in Seq(Nat) /\ doubts' \in Seq(Nat)
      BY DEF TypeOK
    <3>3. QED
      BY <3>1, <3>2
  <2>2. QED
    BY <2>1, Counts
<1>3. taken[m] + Cardinality(Open(m)) <= 1 + doubts[m]
  BY <1>1, <1>2, OpenMoves DEF OnceInv, Once
<1>4. taken'[m] + Cardinality(Open(m))' <= 1 + doubts'[m]
  BY <1>2, <1>3, OpenMoves
<1>5. QED
  BY <1>1, <1>2, <1>4, OpenMoves DEF Once

(* A message the call lets go. *)
LEMMA OnceLeft ==
    ASSUME TypeOK, TypeOK', OnceInv, NEW p \in Calls, Others(p),
           NEW m \in DOMAIN thread, m \in DOMAIN thread',
           call[p].message = m, call'[p].message # m, taken'[m] = taken[m],
           \/ Weight(p, m) = 1 /\ doubts'[m] = doubts[m]
           \/ doubts'[m] = doubts[m] + 1
           \/ thread'[m].status = "SENT" /\ doubts'[m] = doubts[m]
    PROVE  Once(m)'
<1>1. Spare(m) = 0 /\ Spare(m)' \in {0, 1} /\ (thread'[m].status = "SENT" => Spare(m)' = 0)
  BY DEF Spare, Carried, Retryable
<1>2. taken[m] \in Nat /\ doubts[m] \in Nat
  BY Counts
<1>3. taken[m] + Cardinality(Open(m)) <= 1 + doubts[m]
  BY <1>1, <1>2, OpenMoves DEF OnceInv, Once
<1>4. Weight(p, m)' = 0
  BY DEF Weight
<1>5. taken'[m] + Cardinality(Open(m))' + Spare(m)' <= 1 + doubts'[m]
  BY <1>1, <1>2, <1>3, <1>4, OpenMoves
<1>6. QED
  BY <1>5 DEF Once

(* A message the call takes on: in doubt when another call carries it.     *)
LEMMA OncePicked ==
    ASSUME TypeOK, TypeOK', OnceInv, NEW p \in Calls, Others(p),
           NEW m \in DOMAIN thread, m \in DOMAIN thread',
           call[p].message # m, call'[p].message = m, taken'[m] = taken[m],
           thread[m].status \in Retryable,
           doubts'[m] = IF Carried(m) THEN doubts[m] + 1 ELSE doubts[m]
    PROVE  Once(m)'
<1>1. Spare(m)' = 0 /\ Spare(m) = IF Carried(m) THEN 0 ELSE 1
  BY DEF Spare, Carried
<1>2. taken[m] \in Nat /\ doubts[m] \in Nat
  BY Counts
<1>3. taken[m] + Cardinality(Open(m)) + Spare(m) <= 1 + doubts[m]
  BY DEF OnceInv, Once
<1>4. Weight(p, m) = 0
  BY DEF Weight
<1>5. taken'[m] + Cardinality(Open(m))' + Spare(m)' <= 1 + doubts'[m]
  BY <1>1, <1>2, <1>3, <1>4, OpenMoves
<1>6. QED
  BY <1>5 DEF Once

LEMMA PickedUpDoubts ==
    ASSUME TypeOK, NEW m \in DOMAIN thread, PickedUp(m)
    PROVE  /\ doubts'[m] = IF Carried(m) THEN doubts[m] + 1 ELSE doubts[m]
           /\ \A n \in DOMAIN thread \ {m} : doubts'[n] = doubts[n]
<1>1. DOMAIN doubts = DOMAIN thread
  BY DEF TypeOK
<1>2. QED
  BY <1>1 DEF PickedUp, Doubted

(* A step that is about the message of its call, or about none. *)
LEMMA OnceOne ==
    ASSUME IInv, TypeOK', OnceInv, NEW p \in Calls, Others(p),
           NEW m, call[p].message = m, call'[p].message \in {NoMessage, m},
           DOMAIN thread' = DOMAIN thread,
           \A n \in DOMAIN thread \ {m} :
              /\ thread'[n].status = thread[n].status
              /\ taken'[n] = taken[n] /\ doubts'[n] = doubts[n],
           m \in DOMAIN thread => Once(m)'
    PROVE  OnceInv'
<1>1. TypeOK
  BY DEF IInv
<1>2. SUFFICES ASSUME NEW n \in DOMAIN thread PROVE Once(n)'
  BY DEF OnceInv
<1>3. CASE n = m
  BY <1>3
<1>4. CASE n # m
  <2>1. call[p].message # n /\ call'[p].message # n
    BY <1>1, <1>4, Counts
  <2>2. /\ thread'[n].status = thread[n].status
        /\ taken'[n] = taken[n] /\ doubts'[n] = doubts[n] /\ n \in DOMAIN thread'
    BY <1>4
  <2>3. QED
    BY <1>1, <2>1, <2>2, OnceAside
<1>5. QED
  BY <1>3, <1>4

(* A step that neither takes a message on, nor lets one go.  *)
LEMMA OnceStays ==
    ASSUME IInv, TypeOK', OnceInv, NEW p \in Calls, Others(p),
           call'[p].message = call[p].message,
           call'[p].pc # "record" \/ call[p].message = NoMessage,
           call[p].pc # "record",
           UNCHANGED <<taken, doubts>>, DOMAIN thread' = DOMAIN thread,
           \A n \in DOMAIN thread \ {call[p].message} : thread'[n].status = thread[n].status
    PROVE  OnceInv'
<1>1. TypeOK
  BY DEF IInv
<1>0. PICK m : m = call[p].message
  OBVIOUS
<1>2. ASSUME m \in DOMAIN thread
      PROVE  Once(m)'
  <2>1. m # NoMessage /\ taken[m] \in Nat /\ doubts[m] \in Nat
    BY <1>1, <1>2, Counts
  <2>2. Weight(p, m)' = 1 /\ Weight(p, m) = 1
    BY <1>0, <2>1 DEF Weight
  <2>3. QED
    BY <1>0, <1>1, <1>2, <2>1, <2>2, OnceHeld
<1>3. QED
  BY <1>0, <1>2, OnceOne

LEMMA OnceSend ==
    ASSUME IInv, TypeOK', OnceInv, NEW p \in Calls, NEW c \in Channels, Send(p, c)
    PROVE  OnceInv'
<1>1. /\ TypeOK /\ call[p].pc = "idle" /\ call[p].message = NoMessage
      /\ UNCHANGED <<thread, taken>>
  BY DEF IInv, CallInv, Carrying, Send, Arrive, rows, sent
<1>2. /\ Others(p)
      /\ \/ /\ call'[p].pc = "draft" /\ call'[p].message = call[p].message
            /\ UNCHANGED doubts
         \/ /\ call'[p].pc = "target" /\ call'[p].message \in Sendable
            /\ PickedUp(call'[p].message)
  BY <1>1, CallSends
<1>3. CASE call'[p].pc = "draft" /\ call'[p].message = call[p].message /\ UNCHANGED doubts
  BY <1>1, <1>2, <1>3, OnceStays
<1>4. CASE /\ call'[p].pc = "target" /\ call'[p].message \in Sendable
           /\ PickedUp(call'[p].message)
  <2>0. PICK m : m = call'[p].message
    OBVIOUS
  <2>1. m \in DOMAIN thread /\ thread[m].status \in Retryable
    BY <1>4, <2>0 DEF Sendable
  <2>2. /\ doubts'[m] = IF Carried(m) THEN doubts[m] + 1 ELSE doubts[m]
        /\ \A n \in DOMAIN thread \ {m} : doubts'[n] = doubts[n]
    BY <1>1, <1>4, <2>0, <2>1, PickedUpDoubts
  <2>3. Once(m)'
    <3>1. call[p].message # m /\ call'[p].message = m /\ taken'[m] = taken[m] /\ m \in DOMAIN thread'
      BY <1>1, <2>0, <2>1, Counts
    <3>2. QED
      BY <1>1, <1>2, <2>1, <2>2, <3>1, OncePicked
  <2>4. ASSUME NEW n \in DOMAIN thread \ {m} PROVE Once(n)'
    <3>1. call[p].message # n /\ call'[p].message # n
      BY <1>1, <2>0, <2>4, Counts
    <3>2. /\ n \in DOMAIN thread' /\ thread'[n].status = thread[n].status
          /\ taken'[n] = taken[n] /\ doubts'[n] = doubts[n]
      BY <1>1, <2>2
    <3>3. QED
      BY <1>1, <1>2, <3>1, <3>2, OnceAside
  <2>5. QED
    BY <1>1, <2>3, <2>4 DEF OnceInv
<1>5. QED
  BY <1>2, <1>3, <1>4

LEMMA RowsAlongside ==
    ASSUME TypeOK
    PROVE  /\ Len(thread) \in Nat /\ Len(taken) = Len(thread) /\ Len(doubts) = Len(thread)
           /\ thread \in Seq(Message) /\ taken \in Seq(Nat) /\ doubts \in Seq(Nat)
BY DEF TypeOK

LEMMA OnceNew ==
    ASSUME NEW new, taken'[new] \in {0, 1}, doubts'[new] = 0,
           Cardinality(Open(new))' \in {0, 1}, Spare(new)' \in {0, 1},
           taken'[new] = 0 \/ Cardinality(Open(new))' = 0,
           taken'[new] = 0 \/ Spare(new)' = 0,
           Cardinality(Open(new))' = 0 \/ Spare(new)' = 0
    PROVE  Once(new)'
BY DEF Once

(* A row is appended, for the call to carry or for none. *)
LEMMA OnceLonger ==
    ASSUME IInv, TypeOK', OnceInv, NEW p \in Calls, Others(p),
           call[p].message = NoMessage, NEW row \in Message, NEW n \in {0, 1},
           thread' = Append(thread, row), taken' = Append(taken, n), doubts' = Append(doubts, 0),
           call'[p].message \in {NoMessage, Len(thread) + 1},
           n = 1 => row.status = "SENT" /\ call'[p].message = NoMessage
    PROVE  OnceInv'
<1>0. PICK new : new = Len(thread) + 1
  OBVIOUS
<1>1. /\ TypeOK /\ Len(thread) \in Nat /\ Len(taken) = Len(thread) /\ Len(doubts) = Len(thread)
      /\ thread \in Seq(Message) /\ taken \in Seq(Nat) /\ doubts \in Seq(Nat)
  BY RowsAlongside DEF IInv
<1>2. /\ DOMAIN thread' = DOMAIN thread \cup {new} /\ new \notin DOMAIN thread
      /\ \A m \in DOMAIN thread : thread'[m] = thread[m]
      /\ thread'[new] = row
  BY <1>0, <1>1, LongerThread
<1>3. /\ \A m \in DOMAIN taken : taken'[m] = taken[m]
      /\ taken'[new] = n
  <2>1. n \in Nat
    OBVIOUS
  <2>2. QED
    BY <1>0, <1>1, <2>1, LongerCounts
<1>4. /\ \A m \in DOMAIN doubts : doubts'[m] = doubts[m]
      /\ doubts'[new] = 0
  BY <1>0, <1>1, LongerCounts
<1>5. DOMAIN taken = DOMAIN thread /\ DOMAIN doubts = DOMAIN thread
  BY <1>1
<1>6. ASSUME NEW m \in DOMAIN thread PROVE Once(m)'
  <2>1. call'[p].message # m /\ call[p].message # m
    BY <1>0, <1>1, <1>2, <1>6, Counts
  <2>2. QED
    BY <1>1, <1>2, <1>3, <1>4, <1>5, <1>6, <2>1, OnceAside
<1>11. new # NoMessage
  BY <1>0, <1>1 DEF NoMessage
<1>7. \A q \in Calls : call[q].message # new
  BY <1>0, <1>1, <1>2, <1>11 DEF TypeOK
<1>8. Weight(p, new) = 0
  BY <1>7 DEF Weight
<1>9. Cardinality(Open(new)) = 0
  <2>1. Open(new) = {}
    BY <1>7 DEF Open
  <2>2. QED
    BY <2>1, FS_EmptySet
<1>10. Cardinality(Open(new))' = Weight(p, new)'
  <2>1. /\ Cardinality(Open(new))' = Cardinality(Open(new)) - Weight(p, new) + Weight(p, new)'
        /\ Weight(p, new)' \in {0, 1}
    BY OpenMoves
  <2>2. QED
    BY <1>8, <1>9, <2>1
<1>12. CASE call'[p].message = new
  <2>1. n = 0 /\ Weight(p, new)' \in {0, 1} /\ Spare(new)' = 0
    BY <1>11, <1>12 DEF Weight, Spare, Carried
  <2>2. /\ taken'[new] \in {0, 1} /\ doubts'[new] = 0
        /\ Cardinality(Open(new))' \in {0, 1} /\ Spare(new)' \in {0, 1}
        /\ taken'[new] = 0 /\ Spare(new)' = 0
    BY <1>3, <1>4, <1>10, <2>1
  <2>3. Once(new)'
    BY ONLY <2>2, OnceNew
  <2>4. QED
    BY <1>2, <1>6, <2>3 DEF OnceInv
<1>13. CASE call'[p].message = NoMessage
  <2>1. Weight(p, new)' = 0 /\ Spare(new)' \in {0, 1} /\ (n = 1 => Spare(new)' = 0)
    BY <1>2, <1>11, <1>13 DEF Weight, Spare, Retryable
  <2>2. /\ taken'[new] \in {0, 1} /\ doubts'[new] = 0
        /\ Cardinality(Open(new))' \in {0, 1} /\ Spare(new)' \in {0, 1}
        /\ Cardinality(Open(new))' = 0 /\ (taken'[new] = 0 \/ Spare(new)' = 0)
    BY <1>3, <1>4, <1>10, <2>1
  <2>3. Once(new)'
    BY ONLY <2>2, OnceNew
  <2>4. QED
    BY <1>2, <1>6, <2>3 DEF OnceInv
<1>14. QED
  BY <1>0, <1>12, <1>13

LEMMA OnceDraft ==
    ASSUME IInv, TypeOK', OnceInv, NEW p \in Calls, Draft(p)
    PROVE  OnceInv'
<1>1. TypeOK /\ call[p].message = NoMessage /\ DOMAIN thread \subseteq Nat
  <2>1. TypeOK /\ CallInv(p)
    BY DEF IInv
  <2>2. DOMAIN thread = 1 .. Len(thread)
    BY <2>1 DEF TypeOK
  <2>3. call[p].pc = "draft"
    BY DEF Draft
  <2>4. call[p].message = NoMessage
    BY <2>1, <2>3 DEF CallInv, Carrying
  <2>5. QED
    BY <2>1, <2>2, <2>4
<1>2. ASSUME NEW m \in Outbound, PickedUp(m), UNCHANGED taken,
             thread' = [thread EXCEPT ![m] = [kind |-> "request", status |-> "DRAFT"]],
             call' = [call EXCEPT ![p] = [@ EXCEPT !.message = m, !.pc = "target"]]
      PROVE  OnceInv'
  <2>1. m \in DOMAIN thread /\ thread[m].status \in Retryable /\ m \in Nat
    BY <1>1 DEF Outbound, Sendable
  <2>2. Others(p) /\ call'[p].message = m /\ call'[p].pc = "target"
    BY <1>1, <1>2, <2>1, CallTakesMessage
  <2>3. /\ doubts'[m] = IF Carried(m) THEN doubts[m] + 1 ELSE doubts[m]
        /\ \A n \in DOMAIN thread \ {m} : doubts'[n] = doubts[n]
    BY <1>1, <1>2, <2>1, PickedUpDoubts
  <2>4. DOMAIN thread' = DOMAIN thread /\ \A n \in DOMAIN thread \ {m} : thread'[n] = thread[n]
    BY <1>2
  <2>5. Once(m)'
    <3>1. call[p].message # m /\ call'[p].message = m /\ taken'[m] = taken[m] /\ m \in DOMAIN thread'
      BY <1>1, <1>2, <2>1, <2>2, <2>4, Counts
    <3>2. QED
      BY <1>1, <2>1, <2>2, <2>3, <3>1, OncePicked
  <2>6. ASSUME NEW n \in DOMAIN thread \ {m} PROVE Once(n)'
    <3>1. call[p].message # n /\ call'[p].message # n
      BY <1>1, <2>2, <2>6, Counts
    <3>2. /\ n \in DOMAIN thread' /\ thread'[n].status = thread[n].status
          /\ taken'[n] = taken[n] /\ doubts'[n] = doubts[n]
      BY <1>2, <2>3, <2>4
    <3>3. QED
      BY <1>1, <2>2, <3>1, <3>2, OnceAside
  <2>7. QED
    BY <2>4, <2>5, <2>6 DEF OnceInv
<1>3. ASSUME Append1("request", "DRAFT"),
             call' = [call EXCEPT ![p] = [@ EXCEPT !.message = Len(thread) + 1, !.pc = "target"]]
      PROVE  OnceInv'
  <2>1. Len(thread) + 1 \in Nat
    BY <1>1 DEF TypeOK
  <2>2. Others(p) /\ call'[p].message = Len(thread) + 1
    BY <1>1, <1>3, <2>1, CallTakesMessage
  <2>3. [kind |-> "request", status |-> "DRAFT"] \in Message
    BY DEF Message, Kinds, Retryable
  <2>4. QED
    BY <1>1, <1>3, <2>2, <2>3, OnceLonger DEF Append1
<1>4. QED
  BY <1>2, <1>3 DEF Draft

LEMMA OnceCreateReminder ==
    ASSUME IInv, TypeOK', OnceInv, NEW p \in Calls, CreateReminder(p)
    PROVE  OnceInv'
<1>1. TypeOK /\ call[p].message = NoMessage /\ Len(thread) + 1 \in Nat
  <2>1. TypeOK /\ CallInv(p)
    BY DEF IInv
  <2>2. call[p].pc = "remind"
    BY DEF CreateReminder
  <2>3. call[p].message = NoMessage
    BY <2>1, <2>2 DEF CallInv, Carrying
  <2>4. Len(thread) + 1 \in Nat
    BY <2>1 DEF TypeOK
  <2>5. QED
    BY <2>1, <2>3, <2>4
<1>2. \A s \in {"SENDING", "FAILED"} : [kind |-> "reminder", status |-> s] \in Message
  BY DEF Message, Kinds, Retryable
<1>3. CASE /\ Append1("reminder", "SENDING")
           /\ call' = [call EXCEPT ![p] = [@ EXCEPT !.message = Len(thread) + 1, !.pc = "target"]]
  <2>1. Others(p) /\ call'[p].message = Len(thread) + 1
    BY <1>1, <1>3, CallTakesMessage
  <2>2. QED
    BY <1>1, <1>2, <1>3, <2>1, OnceLonger DEF Append1
<1>4. CASE Append1("reminder", "FAILED") /\ Finish(p)
  <2>1. Others(p) /\ call'[p].message = NoMessage
    BY <1>1, <1>4, CallFinishes
  <2>2. QED
    BY <1>1, <1>2, <1>4, <2>1, OnceLonger DEF Append1
<1>5. QED
  BY <1>3, <1>4 DEF CreateReminder

LEMMA OnceRecordConfirmation ==
    ASSUME IInv, TypeOK', OnceInv, NEW p \in Calls, RecordConfirmation(p)
    PROVE  OnceInv'
<1>1. TypeOK /\ call[p].message = NoMessage
  BY DEF IInv, RecordConfirmation, CallInv
<1>2. Others(p) /\ call'[p].message = NoMessage
  BY <1>1, CallFinishes DEF RecordConfirmation
<1>3. /\ [kind |-> "confirmation", status |-> "SENT"] \in Message
      /\ [kind |-> "confirmation", status |-> "SENT"].status = "SENT"
  BY DEF Message, Kinds
<1>4. QED
  BY <1>1, <1>2, <1>3, OnceLonger DEF RecordConfirmation

LEMMA GiveUpKeeps ==
    ASSUME IInv, NEW p \in Calls, call[p].pc \in Carrying, GiveUp(p)
    PROVE  /\ Others(p) /\ call'[p].message = call[p].message /\ call'[p].pc # "record"
           /\ call[p].op = "confirm" => call[p].message = NoMessage
           /\ call[p].op # "confirm" => call[p].message \in DOMAIN thread
<1>1. TypeOK /\ CallInv(p)
  BY DEF IInv
<1>2. CASE call[p].op = "confirm"
  BY <1>1, <1>2, CallFinishes DEF GiveUp, CallInv
<1>3. CASE call[p].op # "confirm"
  BY <1>1, <1>3, CallMoves DEF GiveUp, CallInv, Steps
<1>4. QED
  BY <1>2, <1>3

LEMMA CallCreates ==
    ASSUME TypeOK, NEW p \in Calls,
           call' = [call EXCEPT ![p] = [@ EXCEPT !.known = target, !.pc = "create"]]
    PROVE  /\ call' \in [Calls -> Call] /\ Others(p) /\ call'[p].op = call[p].op
           /\ call'[p].pc = "create" /\ call'[p].message = call[p].message
           /\ call'[p].text = call[p].text
<1>1. target \in [Channels -> BOOLEAN] /\ "create" \in Steps
  BY DEF TypeOK, Steps
<1>2. QED
  BY <1>1, CallKnows

LEMMA OnceOnTheWay ==
    ASSUME IInv, TypeOK', OnceInv, NEW p \in Calls,
           Remind(p) \/ Confirm(p) \/ FindTarget(p) \/ CreateTarget(p) \/ StoreTarget(p)
    PROVE  OnceInv'
<1>1. TypeOK /\ CallInv(p)
  BY DEF IInv
<1>2. UNCHANGED <<thread, taken, doubts>>
  BY DEF Remind, Confirm, FindTarget, CreateTarget, StoreTarget, rows, sent, trouble
<1>3. /\ Others(p) /\ call'[p].message = call[p].message
      /\ call'[p].pc # "record" /\ call[p].pc # "record"
  <2>1. CASE Remind(p)
    BY <1>1, <2>1, CallReminds DEF Remind, Arrive
  <2>2. CASE Confirm(p)
    BY <1>1, <2>2, CallConfirms DEF Confirm, Arrive
  <2>3. CASE CreateTarget(p)
    BY <1>1, <2>3, CallMoves DEF CreateTarget, Steps
  <2>4. Ready(p) \in Steps /\ Ready(p) # "record"
    BY DEF Ready, Steps
  <2>5. CASE StoreTarget(p)
    <3>1. NoTargets \in [Channels -> BOOLEAN]
      BY DEF NoTargets
    <3>2. /\ call[p].pc = "store"
          /\ call' = [call EXCEPT ![p] = [@ EXCEPT !.known = NoTargets, !.pc = Ready(p)]]
      BY <2>5 DEF StoreTarget
    <3>3. call' = [call EXCEPT ![p] = [@ EXCEPT !.known = NoTargets, !.pc = Ready(p)]]
      BY <3>2
    <3> HIDE DEF NoTargets
    <3>4. /\ Others(p) /\ call'[p].pc = Ready(p) /\ call'[p].message = call[p].message
      BY <1>1, <2>4, <3>1, <3>3, CallKnows
    <3>5. QED
      BY <2>4, <3>2, <3>4
  <2>6. CASE FindTarget(p)
    <3>1. call[p].pc = "target" /\ call[p].pc \in Carrying
      BY <2>6 DEF FindTarget, Carrying
    <3>2. CASE GiveUp(p)
      BY <3>1, <3>2, GiveUpKeeps
    <3>3. CASE Goto(p, Ready(p))
      BY <1>1, <2>4, <3>1, <3>3, CallMoves
    <3>4. CASE call' = [call EXCEPT ![p] = [@ EXCEPT !.known = target, !.pc = "create"]]
      <4>1. /\ Others(p) /\ call'[p].pc = "create" /\ call'[p].message = call[p].message
        BY <1>1, <3>4, CallCreates
      <4>2. QED
        BY <3>1, <4>1
    <3>5. QED
      BY <2>6, <3>2, <3>3, <3>4 DEF FindTarget
  <2>7. QED
    BY <2>1, <2>2, <2>3, <2>5, <2>6
<1>4. QED
  BY <1>2, <1>3, OnceStays

LEMMA OnceStartSending ==
    ASSUME IInv, TypeOK', OnceInv, NEW p \in Calls, StartSending(p)
    PROVE  OnceInv'
<1>1. TypeOK
  BY DEF IInv
<1>2. /\ Others(p) /\ call'[p].message = call[p].message
      /\ call'[p].pc # "record" /\ call[p].pc # "record"
  BY <1>1, CallStarts DEF StartSending
<1>3. /\ UNCHANGED <<taken, doubts>> /\ DOMAIN thread' = DOMAIN thread
      /\ \A n \in DOMAIN thread \ {call[p].message} : thread'[n].status = thread[n].status
  BY DEF StartSending, sent, trouble
<1>4. QED
  BY <1>2, <1>3, OnceStays

LEMMA DoubtedOne ==
    ASSUME TypeOK, NEW m \in DOMAIN thread, Doubted(m)
    PROVE  doubts'[m] = doubts[m] + 1 /\ \A n \in DOMAIN thread \ {m} : doubts'[n] = doubts[n]
<1>1. DOMAIN doubts = DOMAIN thread
  BY DEF TypeOK
<1>2. QED
  BY <1>1 DEF Doubted

LEMMA OnceDeliver ==
    ASSUME IInv, TypeOK', OnceInv, NEW p \in Calls, Deliver(p)
    PROVE  OnceInv'
<1>1. TypeOK /\ CallInv(p) /\ call[p].pc = "deliver" /\ call[p].pc \in Carrying
  BY DEF IInv, Deliver, Carrying
<1>2. UNCHANGED thread
  BY DEF Deliver, rows
<1>3. /\ Others(p) /\ call'[p].message = call[p].message
      /\ call'[p].pc # "record" \/ (Goto(p, "record") /\ Take(p) /\ UNCHANGED doubts)
  BY <1>1, GiveUpKeeps, CallMoves DEF Deliver, Refuse, Steps
<1>4. CASE call[p].op = "confirm"
  <2>1. call[p].message = NoMessage
    BY <1>1, <1>4 DEF CallInv
  <2>2. UNCHANGED <<taken, doubts>>
    BY <1>4 DEF Deliver, Take, LoseTrack, sent
  <2>3. QED
    BY <1>1, <1>2, <1>3, <2>1, <2>2, OnceStays
<1>5. CASE call[p].op # "confirm"
  <2>0. PICK m : m = call[p].message
    OBVIOUS
  <2>1. m \in DOMAIN thread /\ taken[m] \in Nat /\ doubts[m] \in Nat
    BY <1>1, <2>0, <1>5, Counts DEF CallInv
  <2>2. Weight(p, m) = 1 /\ Weight(p, m)' = IF call'[p].pc = "record" THEN 0 ELSE 1
    BY <1>1, <2>0, <1>3 DEF Weight
  <2>3. DOMAIN taken = DOMAIN thread
    BY <1>1 DEF TypeOK
  <2>4. Take(p) => /\ taken'[m] = taken[m] + 1
                   /\ \A n \in DOMAIN thread \ {m} : taken'[n] = taken[n]
    BY <1>5, <2>0, <2>1, <2>3 DEF Take
  <2>5. CASE Take(p) /\ Goto(p, "record") /\ UNCHANGED doubts
    <3>1. call'[p].pc = "record"
      BY <1>1, <2>0, <2>5, CallMoves DEF Steps
    <3>2. taken'[m] + Weight(p, m)' + doubts[m] <= taken[m] + Weight(p, m) + doubts'[m]
      BY <2>1, <2>2, <2>4, <2>5, <3>1
    <3>3. Once(m)'
      BY <1>1, <2>0, <1>2, <1>3, <2>1, <3>2, OnceHeld
    <3>4. QED
      BY <1>2, <1>3, <2>0, <2>4, <2>5, <3>3, OnceOne
  <2>6. CASE Take(p) /\ GiveUp(p) /\ LoseTrack(p)
    <3>1. call'[p].pc # "record"
      BY <1>1, <2>0, <2>6, GiveUpKeeps
    <3>2. /\ doubts'[m] = doubts[m] + 1
          /\ \A n \in DOMAIN thread \ {m} : doubts'[n] = doubts[n]
      BY <1>1, <2>0, <1>5, <2>1, <2>6, DoubtedOne DEF LoseTrack
    <3>3. taken'[m] + Weight(p, m)' + doubts[m] <= taken[m] + Weight(p, m) + doubts'[m]
      BY <2>1, <2>2, <2>4, <2>6, <3>1, <3>2
    <3>4. Once(m)'
      BY <1>1, <2>0, <1>2, <1>3, <2>1, <3>3, OnceHeld
    <3>5. QED
      BY <1>2, <1>3, <2>0, <2>4, <2>6, <3>2, <3>4, OnceOne
  <2>7. CASE Refuse(p) /\ UNCHANGED <<sent, doubts>>
    <3>1. UNCHANGED <<taken, doubts>> /\ call'[p].pc # "record"
      BY <1>1, <2>0, <2>7, GiveUpKeeps DEF Refuse, sent
    <3>2. QED
      BY <1>1, <1>2, <1>3, <3>1, OnceStays
  <2>8. QED
    BY <2>5, <2>6, <2>7 DEF Deliver
<1>6. QED
  BY <1>4, <1>5

LEMMA OnceRecorded ==
    ASSUME IInv, TypeOK', OnceInv, NEW p \in Calls, RecordSent(p) \/ RecordReminder(p)
    PROVE  OnceInv'
<1>1. /\ TypeOK /\ CallInv(p) /\ call[p].pc = "record" /\ call[p].op # "confirm"
      /\ Finish(p) /\ UNCHANGED <<taken, doubts>>
      /\ thread' = [thread EXCEPT ![call[p].message].status = "SENT"]
  BY DEF IInv, RecordSent, RecordReminder, sent, trouble
<1>0. PICK m : m = call[p].message
  OBVIOUS
<1>2. m \in DOMAIN thread /\ m # NoMessage
  BY <1>0, <1>1, Counts DEF CallInv, Carrying
<1>3. Others(p) /\ call'[p].message = NoMessage
  BY <1>0, <1>1, CallFinishes
<1>4. /\ DOMAIN thread' = DOMAIN thread /\ thread'[m].status = "SENT"
      /\ \A n \in DOMAIN thread \ {m} : thread'[n].status = thread[n].status
  <2>1. thread \in Seq(Message) /\ "SENT" \in Statuses
    BY <1>0, <1>1 DEF TypeOK, Statuses
  <2>2. QED
    BY <1>0, <1>1, <1>2, <2>1, MarkedThread
<1>5. Once(m)'
  BY <1>0, <1>1, <1>2, <1>3, <1>4, OnceLeft
<1>6. QED
  BY <1>0, <1>1, <1>3, <1>4, <1>5, OnceOne

LEMMA OnceMarkSendFailure ==
    ASSUME IInv, TypeOK', OnceInv, NEW p \in Calls, MarkSendFailure(p)
    PROVE  OnceInv'
<1>1. /\ TypeOK /\ CallInv(p) /\ call[p].pc = "fail" /\ call[p].op # "confirm"
      /\ Finish(p) /\ UNCHANGED <<taken, doubts>>
      /\ thread' = [thread EXCEPT ![call[p].message].status = "FAILED"]
  BY DEF IInv, MarkSendFailure, FailedMessage, sent, trouble, CallInv
<1>0. PICK m : m = call[p].message
  OBVIOUS
<1>2. m \in DOMAIN thread /\ m # NoMessage
  BY <1>0, <1>1, Counts DEF CallInv, Carrying
<1>3. Others(p) /\ call'[p].message = NoMessage /\ Weight(p, m) = 1
  BY <1>0, <1>1, CallFinishes DEF Weight
<1>4. /\ DOMAIN thread' = DOMAIN thread
      /\ \A n \in DOMAIN thread \ {m} : thread'[n].status = thread[n].status
  <2>1. thread \in Seq(Message) /\ "FAILED" \in Statuses
    BY <1>0, <1>1 DEF TypeOK, Statuses, Retryable
  <2>2. QED
    BY <1>0, <1>1, <1>2, <2>1, MarkedThread
<1>5. Once(m)'
  BY <1>0, <1>1, <1>2, <1>3, <1>4, OnceLeft
<1>6. QED
  BY <1>0, <1>1, <1>3, <1>4, <1>5, OnceOne

LEMMA OnceRecordFails ==
    ASSUME IInv, TypeOK', OnceInv, NEW p \in Calls, RecordFails(p)
    PROVE  OnceInv'
<1>1. /\ TypeOK /\ call[p].pc = "record" /\ call[p].pc \in Carrying
      /\ GiveUp(p) /\ LoseTrack(p) /\ UNCHANGED <<thread, taken>>
  BY DEF IInv, RecordFails, Carrying, rows, sent
<1>0. PICK m : m = call[p].message
  OBVIOUS
<1>2. /\ Others(p) /\ call'[p].message = m /\ call'[p].pc # "record"
      /\ call[p].op = "confirm" => m = NoMessage
      /\ call[p].op # "confirm" => m \in DOMAIN thread
  BY <1>0, <1>1, GiveUpKeeps
<1>3. CASE call[p].op = "confirm"
  <2>1. NoMessage \notin DOMAIN thread /\ UNCHANGED doubts
    BY <1>0, <1>1, <1>3, Counts DEF LoseTrack
  <2>2. QED
    BY <1>0, <1>1, <1>2, <1>3, <2>1, OnceOne
<1>4. CASE call[p].op # "confirm"
  <2>1. /\ m \in DOMAIN thread /\ taken[m] \in Nat /\ doubts[m] \in Nat
        /\ doubts'[m] = doubts[m] + 1
        /\ \A n \in DOMAIN thread \ {m} : doubts'[n] = doubts[n]
    BY <1>0, <1>1, <1>2, <1>4, Counts, DoubtedOne DEF LoseTrack
  <2>2. Weight(p, m) = 0 /\ Weight(p, m)' = 1
    BY <1>0, <1>1, <1>2 DEF Weight
  <2>3. taken'[m] + Weight(p, m)' + doubts[m] <= taken[m] + Weight(p, m) + doubts'[m]
    BY <1>0, <1>1, <2>1, <2>2
  <2>4. Once(m)'
    BY <1>0, <1>1, <1>2, <2>1, <2>3, OnceHeld
  <2>5. QED
    BY <1>0, <1>1, <1>2, <2>1, <2>4, OnceOne
<1>5. QED
  BY <1>3, <1>4

LEMMA OnceDie ==
    ASSUME IInv, TypeOK', OnceInv, NEW p \in Calls, Die(p)
    PROVE  OnceInv'
<1>1. TypeOK /\ CallInv(p) /\ Finish(p) /\ UNCHANGED <<thread, taken>>
  BY DEF IInv, Die, rows, sent
<1>0. PICK m : m = call[p].message
  OBVIOUS
<1>2. Others(p) /\ call'[p].message = NoMessage
  BY <1>0, <1>1, CallFinishes
<1>3. m = NoMessage \/ m \in DOMAIN thread
  BY <1>0, <1>1 DEF TypeOK
<1>4. CASE m = NoMessage
  <2>1. NoMessage \notin DOMAIN thread
    BY <1>0, <1>1, Counts
  <2>2. UNCHANGED doubts
    <3>1. call[p].pc = "record" => call[p].op = "confirm"
      BY <1>0, <1>1, <1>4, <2>1 DEF CallInv, Carrying
    <3>2. QED
      BY <3>1 DEF Die, LoseTrack
  <2>3. QED
    BY <1>0, <1>1, <1>2, <1>4, <2>1, <2>2, OnceOne
<1>5. CASE m \in DOMAIN thread
  <2>1. m # NoMessage /\ call[p].op # "confirm"
    BY <1>0, <1>1, <1>5, Counts DEF CallInv
  <2>2. /\ \/ Weight(p, m) = 1 /\ doubts'[m] = doubts[m]
           \/ doubts'[m] = doubts[m] + 1
        /\ \A n \in DOMAIN thread \ {m} : doubts'[n] = doubts[n]
    <3>1. CASE call[p].pc = "record"
      BY <1>0, <1>1, <1>5, <2>1, <3>1, DoubtedOne DEF Die, LoseTrack
    <3>2. CASE call[p].pc # "record"
      BY <1>0, <3>2 DEF Die, Weight
    <3>3. QED
      BY <3>1, <3>2
  <2>3. Once(m)'
    BY <1>0, <1>1, <1>2, <1>5, <2>1, <2>2, OnceLeft
  <2>4. QED
    BY <1>0, <1>1, <1>2, <2>2, <2>3, OnceOne
<1>6. QED
  BY <1>3, <1>4, <1>5

LEMMA StepOnce == IInv /\ OnceInv /\ [Next]_vars => OnceInv'
<1> SUFFICES ASSUME IInv, OnceInv, [Next]_vars PROVE OnceInv'
  OBVIOUS
<1>1. TypeOK'
  BY StepIInv DEF IInv
<1>2. ASSUME NEW p \in Calls, Step(p)
      PROVE  OnceInv'
  BY <1>1, <1>2, OnceDraft, OnceCreateReminder, OnceOnTheWay, OnceStartSending, OnceDeliver,
     OnceRecorded, OnceRecordConfirmation, OnceRecordFails, OnceMarkSendFailure DEF Step
<1>3. ASSUME NEW p \in Calls, Begin(p) \/ Die(p)
      PROVE  OnceInv'
  BY <1>1, <1>3, OnceSend, OnceOnTheWay, OnceDie DEF Begin
<1>4. CASE Answer \/ Tick \/ UNCHANGED vars
  <2>1. UNCHANGED <<thread, taken, call, doubts>>
    BY <1>4 DEF Answer, Tick, vars, rows, sent, trouble
  <2>2. \A m : Open(m)' = Open(m) /\ Spare(m)' = Spare(m)
    BY <2>1 DEF Open, Spare, Carried
  <2>3. QED
    BY <2>1, <2>2 DEF OnceInv, Once
<1>5. QED
  BY <1>2, <1>3, <1>4 DEF Next

LEMMA InitOnce == Init => OnceInv
<1> SUFFICES ASSUME Init PROVE OnceInv
  OBVIOUS
<1>1. /\ DOMAIN thread = {1} /\ taken[1] = 0 /\ doubts[1] = 0
      /\ \A p \in Calls : call[p].message = NoMessage
  BY DEF Init, IdleCall
<1>2. Open(1) = {} /\ Spare(1) \in {0, 1}
  BY <1>1 DEF Open, Spare, NoMessage
<1>3. Cardinality(Open(1)) = 0
  BY <1>2, FS_EmptySet
<1>4. QED
  BY <1>1, <1>2, <1>3 DEF OnceInv, Once
-----------------------------------------------------------------------------
(* One target.  On a channel nobody contests, a call that sets a target up *)
(* is alone, found none, and knows the others as the table has them.       *)

Storing(p, c) == call[p].pc = "store" /\ call[p].channel = c

SetUpAlone ==
    \A p, q \in Calls : p # q /\ Settling(p) /\ Settling(q) => call[p].channel \in contested
KnowsTargets ==
    \A p \in Calls : Settling(p) =>
        \A d \in Channels \ contested : call[p].known[d] = target[d]
CreatedTargets ==
    \A c \in Channels \ contested :
        created[c] = IF target[c] \/ \E p \in Calls : Storing(p, c) THEN 1 ELSE 0
FoundNone ==
    \A p \in Calls : Settling(p) /\ call[p].channel \notin contested => ~target[call[p].channel]

TargetInv == SetUpAlone /\ KnowsTargets /\ CreatedTargets /\ FoundNone

(* A step of a call that sets no target up. *)
LEMMA TargetQuiet ==
    ASSUME TargetInv, NEW p \in Calls, Others(p), ~Settling(p), ~Settling(p)',
           UNCHANGED <<target, created, contested>>
    PROVE  TargetInv'
<1>1. \A q \in Calls : Settling(q)' => Settling(q) /\ call'[q] = call[q]
  BY DEF Settling, Others
<1>2. \A q \in Calls, c \in Channels : Storing(q, c)' <=> Storing(q, c)
  BY DEF Settling, Storing, Others
<1>3. SetUpAlone'
  BY <1>1 DEF TargetInv, SetUpAlone
<1>4. KnowsTargets'
  BY <1>1 DEF TargetInv, KnowsTargets
<1>5. CreatedTargets'
  BY <1>2 DEF TargetInv, CreatedTargets
<1>6. FoundNone'
  BY <1>1 DEF TargetInv, FoundNone
<1>7. QED
  BY <1>3, <1>4, <1>5, <1>6 DEF TargetInv

LEMMA TargetFound ==
    ASSUME TypeOK, TargetInv, NEW p \in Calls, call[p].pc = "target",
           ~target[call[p].channel],
           call' = [call EXCEPT ![p] = [@ EXCEPT !.known = target, !.pc = "create"]],
           contested' = contested \cup
              {c \in Channels : \E q \in Calls : Settling(q) /\ c \in {call[p].channel, call[q].channel}},
           UNCHANGED <<target, created>>
    PROVE  TargetInv'
<1>1. /\ Others(p) /\ call'[p].pc = "create"
      /\ call'[p].channel = call[p].channel /\ call'[p].known = target
  BY CallCreates, CallLooksUp
<1>2. ~Settling(p) /\ \A q \in Calls \ {p} : call'[q] = call[q] /\ (Settling(q)' <=> Settling(q))
  BY <1>1 DEF Settling, Others
<1>3. \A q \in Calls : call[q].channel \in Channels /\ call'[q].channel = call[q].channel
  BY <1>1, <1>2 DEF TypeOK, Call
<1>4. /\ contested \subseteq contested'
      /\ \A q \in Calls : Settling(q) => {call[p].channel, call[q].channel} \subseteq contested'
  BY <1>3
<1>5. SetUpAlone'
  <2> SUFFICES ASSUME NEW q \in Calls, NEW r \in Calls, q # r, Settling(q)', Settling(r)'
               PROVE  call'[q].channel \in contested'
    BY DEF SetUpAlone
  <2>1. CASE q = p
    BY <1>2, <1>3, <1>4, <2>1
  <2>2. CASE q # p
    BY <1>2, <1>3, <1>4, <2>2
  <2>3. QED
    BY <2>1, <2>2
<1>6. KnowsTargets'
  BY <1>1, <1>2, <1>4 DEF TargetInv, KnowsTargets
<1>7. CreatedTargets'
  <2>1. \A q \in Calls, c \in Channels : Storing(q, c)' <=> Storing(q, c)
    BY <1>1, <1>2 DEF Storing
  <2>2. QED
    BY <1>4, <2>1 DEF TargetInv, CreatedTargets
<1>8. FoundNone'
  BY <1>1, <1>2, <1>3, <1>4 DEF TargetInv, FoundNone
<1>9. QED
  BY <1>5, <1>6, <1>7, <1>8 DEF TargetInv

LEMMA TargetCreated ==
    ASSUME TypeOK, TargetInv, NEW p \in Calls, CreateTarget(p)
    PROVE  TargetInv'
<1>1. /\ call[p].pc = "create" /\ UNCHANGED <<target, contested>>
      /\ created' = [created EXCEPT ![call[p].channel] = created[call[p].channel] + 1]
  BY DEF CreateTarget, rows, trouble
<1>2. /\ Others(p) /\ call'[p].pc = "store"
      /\ call'[p].channel = call[p].channel /\ call'[p].known = call[p].known
  BY CallMoves DEF CreateTarget, Steps
<1>3. \A q \in Calls : /\ Settling(q)' <=> Settling(q)
                       /\ call'[q].channel = call[q].channel /\ call'[q].known = call[q].known
  BY <1>1, <1>2 DEF Settling, Others
<1>4. SetUpAlone' /\ KnowsTargets' /\ FoundNone'
  BY <1>1, <1>3 DEF TargetInv, SetUpAlone, KnowsTargets, FoundNone
<1>5. CreatedTargets'
  <2> SUFFICES ASSUME NEW c \in Channels \ contested
               PROVE  created'[c] = IF target[c] \/ \E q \in Calls : Storing(q, c)' THEN 1 ELSE 0
    BY <1>1 DEF CreatedTargets
  <2>1. created[c] = IF target[c] \/ \E q \in Calls : Storing(q, c) THEN 1 ELSE 0
    BY DEF TargetInv, CreatedTargets
  <2>2. created \in [Channels -> Nat]
    BY DEF TypeOK
  <2>3. CASE call[p].channel = c
    <3>1. Settling(p) /\ \A q \in Calls \ {p} : ~Settling(q)
      BY <1>1, <2>3 DEF TargetInv, SetUpAlone, Settling
    <3>2. ~target[c]
      BY <2>3, <3>1 DEF TargetInv, FoundNone
    <3>3. \A q \in Calls : ~Storing(q, c)
      BY <1>1, <3>1 DEF Storing, Settling
    <3>4. created[c] = 0
      BY <2>1, <3>2, <3>3
    <3>5. Storing(p, c)'
      BY <1>2, <2>3 DEF Storing
    <3>6. created'[c] = 1
      BY <1>1, <2>2, <2>3, <3>4
    <3>7. QED
      BY <3>5, <3>6
  <2>4. CASE call[p].channel # c
    <3>1. created'[c] = created[c]
      BY <1>1, <2>2, <2>4
    <3>2. \A q \in Calls : Storing(q, c)' <=> Storing(q, c)
      BY <1>2, <2>4 DEF Storing, Others
    <3>3. QED
      BY <2>1, <3>1, <3>2
  <2>5. QED
    BY <2>3, <2>4
<1>6. QED
  BY <1>4, <1>5 DEF TargetInv

LEMMA TargetStored ==
    ASSUME TypeOK, TargetInv, NEW p \in Calls, StoreTarget(p)
    PROVE  TargetInv'
<1> DEFINE mine == call[p].channel
<1>1. /\ call[p].pc = "store" /\ UNCHANGED <<created, contested>> /\ target' = Stored(p)
      /\ call' = [call EXCEPT ![p] = [@ EXCEPT !.known = NoTargets, !.pc = Ready(p)]]
  BY DEF StoreTarget, sent, trouble
<1>2. Others(p) /\ ~Settling(p)' /\ call'[p].pc # "store" /\ Settling(p)
  <2>1. NoTargets \in [Channels -> BOOLEAN] /\ Ready(p) \in Steps
    BY ReadyCarries DEF NoTargets
  <2>2. call' = [call EXCEPT ![p] = [@ EXCEPT !.known = NoTargets, !.pc = Ready(p)]]
    BY <1>1
  <2> HIDE DEF NoTargets
  <2>3. /\ call' \in [Calls -> Call] /\ Others(p) /\ call'[p].op = call[p].op
        /\ call'[p].pc = Ready(p) /\ call'[p].message = call[p].message
        /\ call'[p].text = call[p].text
    BY <2>1, <2>2, CallKnows
  <2>4. QED
    BY <1>1, <2>3, ReadyCarries DEF Settling
<1>3. mine \in Channels /\ call[p].known \in [Channels -> BOOLEAN]
  BY DEF TypeOK, Call
<1>4. target'[mine] = TRUE /\ \A d \in Channels \ {mine} : target'[d] = call[p].known[d]
  BY <1>1, <1>3 DEF Stored
<1>5. \A d \in Channels \ (contested \cup {mine}) : target'[d] = target[d]
  BY <1>2, <1>4 DEF TargetInv, KnowsTargets
<1>6. \A q \in Calls : Settling(q)' => q # p /\ Settling(q) /\ call'[q] = call[q]
  BY <1>2 DEF Settling, Others
<1>7. \A q \in Calls : Settling(q)' => mine \in contested /\ call'[q].channel \in contested
  BY <1>2, <1>6 DEF TargetInv, SetUpAlone
<1>8. SetUpAlone' /\ FoundNone'
  BY <1>1, <1>7 DEF SetUpAlone, FoundNone
<1>9. KnowsTargets'
  BY <1>1, <1>5, <1>6, <1>7 DEF TargetInv, KnowsTargets
<1>10. CreatedTargets'
  <2> SUFFICES ASSUME NEW c \in Channels \ contested
               PROVE  created[c] = IF target'[c] \/ \E q \in Calls : Storing(q, c)' THEN 1 ELSE 0
    BY <1>1 DEF CreatedTargets
  <2>1. created[c] = IF target[c] \/ \E q \in Calls : Storing(q, c) THEN 1 ELSE 0
    BY DEF TargetInv, CreatedTargets
  <2>2. CASE c = mine
    <3>1. Storing(p, c)
      BY <1>1, <2>2 DEF Storing
    <3>2. QED
      BY <1>4, <2>1, <2>2, <3>1
  <2>3. CASE c # mine
    <3>1. target'[c] = target[c]
      BY <1>5, <2>3
    <3>2. \A q \in Calls : Storing(q, c)' <=> Storing(q, c)
      BY <1>2, <2>3 DEF Storing, Others
    <3>3. QED
      BY <2>1, <3>1, <3>2
  <2>4. QED
    BY <2>2, <2>3
<1>11. QED
  BY <1>8, <1>9, <1>10 DEF TargetInv

LEMMA TargetDies ==
    ASSUME TypeOK, TargetInv, NEW p \in Calls, Die(p)
    PROVE  TargetInv'
<1>1. /\ Others(p) /\ call'[p].pc = "done" /\ ~Settling(p)'
  BY CallFinishes DEF Die, Settling
<1>2. /\ UNCHANGED <<target, created>> /\ contested \subseteq contested'
      /\ call[p].pc = "store" => call[p].channel \in contested'
  BY DEF Die, rows, sent
<1>3. \A q \in Calls : Settling(q)' => Settling(q) /\ call'[q] = call[q]
  BY <1>1 DEF Settling, Others
<1>4. SetUpAlone'
  BY <1>2, <1>3 DEF TargetInv, SetUpAlone
<1>5. KnowsTargets'
  BY <1>2, <1>3 DEF TargetInv, KnowsTargets
<1>6. CreatedTargets'
  <2> SUFFICES ASSUME NEW c \in Channels \ contested'
               PROVE  created[c] = IF target[c] \/ \E q \in Calls : Storing(q, c)' THEN 1 ELSE 0
    BY <1>2 DEF CreatedTargets
  <2>1. created[c] = IF target[c] \/ \E q \in Calls : Storing(q, c) THEN 1 ELSE 0
    BY <1>2 DEF TargetInv, CreatedTargets
  <2>2. \A q \in Calls : Storing(q, c)' <=> Storing(q, c)
    BY <1>1, <1>2 DEF Storing, Others
  <2>3. QED
    BY <2>1, <2>2
<1>7. FoundNone'
  BY <1>2, <1>3 DEF TargetInv, FoundNone
<1>8. QED
  BY <1>4, <1>5, <1>6, <1>7 DEF TargetInv

LEMMA QuietSteps ==
    ASSUME TypeOK, NEW p \in Calls,
           \/ Draft(p) \/ CreateReminder(p) \/ StartSending(p) \/ Deliver(p)
           \/ RecordSent(p) \/ RecordReminder(p) \/ RecordConfirmation(p) \/ RecordFails(p)
           \/ MarkSendFailure(p) \/ Begin(p)
    PROVE  /\ Others(p) /\ ~Settling(p) /\ ~Settling(p)'
           /\ UNCHANGED <<target, created, contested>>
<1>1. ~Settling(p)
  BY DEF Draft, CreateReminder, StartSending, Deliver, RecordSent, RecordReminder,
         RecordConfirmation, RecordFails, MarkSendFailure, Begin, Remind, Confirm, Send, Arrive,
         Settling
<1>2. UNCHANGED <<target, created, contested>>
  <2>1. CASE Begin(p)
    BY <2>1 DEF Begin, Remind, Confirm, Send, rows, sent, trouble
  <2>2. CASE Deliver(p)
    BY <2>2 DEF Deliver, Take, rows, sent
  <2>3. CASE Draft(p) \/ CreateReminder(p) \/ RecordConfirmation(p) \/ RecordFails(p)
    BY <2>3 DEF Draft, CreateReminder, RecordConfirmation, RecordFails, rows, sent
  <2>4. CASE StartSending(p) \/ RecordSent(p) \/ RecordReminder(p) \/ MarkSendFailure(p)
    BY <2>4 DEF StartSending, RecordSent, RecordReminder, MarkSendFailure, sent, trouble
  <2>5. QED
    BY <2>1, <2>2, <2>3, <2>4
<1>3. Others(p) /\ call'[p].pc \notin {"create", "store"}
  <2>1. CASE Finish(p)
    BY <2>1, CallFinishes
  <2>2. ASSUME NEW s \in {"record", "fail"}, Goto(p, s)
        PROVE  Others(p) /\ call'[p].pc \notin {"create", "store"}
    BY <2>2, CallMoves DEF Steps
  <2>3. CASE Deliver(p) \/ RecordFails(p)
    BY <2>1, <2>2, <2>3 DEF Deliver, RecordFails, Refuse, GiveUp
  <2>4. CASE RecordSent(p) \/ RecordReminder(p) \/ RecordConfirmation(p) \/ MarkSendFailure(p)
    BY <2>1, <2>4 DEF RecordSent, RecordReminder, RecordConfirmation, MarkSendFailure
  <2>5. ASSUME NEW m \in Nat, call' = [call EXCEPT ![p] = [@ EXCEPT !.message = m, !.pc = "target"]]
        PROVE  Others(p) /\ call'[p].pc \notin {"create", "store"}
    <3>1. /\ call' \in [Calls -> Call] /\ Others(p) /\ call'[p].op = call[p].op
          /\ call'[p].pc = "target" /\ call'[p].message = m /\ call'[p].text = call[p].text
      BY <2>5, CallTakesMessage
    <3>2. QED
      BY <3>1
  <2>6. DOMAIN thread \subseteq Nat /\ Len(thread) + 1 \in Nat
    <3>1. thread \in Seq(Message)
      BY DEF TypeOK
    <3>2. QED
      BY <3>1
  <2>7. CASE Draft(p)
    BY <2>5, <2>6, <2>7 DEF Draft, Outbound, Sendable
  <2>8. CASE CreateReminder(p)
    BY <2>1, <2>5, <2>6, <2>8 DEF CreateReminder
  <2>9. CASE StartSending(p)
    BY <2>9, CallStarts
  <2>10. CASE Remind(p)
    BY <2>10, CallReminds
  <2>11. CASE Confirm(p)
    BY <2>11, CallConfirms
  <2>12. ASSUME NEW c \in Channels, Send(p, c)
         PROVE  Others(p) /\ call'[p].pc \notin {"create", "store"}
    BY <2>12, CallSends
  <2>13. CASE Begin(p)
    BY <2>10, <2>11, <2>12, <2>13 DEF Begin
  <2>14. QED
    BY <2>3, <2>4, <2>7, <2>8, <2>9, <2>13
<1>4. QED
  BY <1>1, <1>2, <1>3 DEF Settling

LEMMA TargetFind ==
    ASSUME IInv, TargetInv, NEW p \in Calls, FindTarget(p)
    PROVE  TargetInv'
<1>1. TypeOK /\ call[p].pc = "target" /\ call[p].pc \in Carrying /\ UNCHANGED <<target, created>>
  BY DEF IInv, FindTarget, Carrying, rows, sent
<1>2. ~Settling(p)
  BY <1>1 DEF Settling
<1>3. CASE (GiveUp(p) \/ Goto(p, Ready(p))) /\ UNCHANGED contested
  <2>1. Others(p) /\ call'[p].pc \in {"done", "fail", "start", "deliver"}
    <3>1. CASE GiveUp(p)
      BY <1>1, <3>1, CallMoves, CallFinishes DEF GiveUp, Steps
    <3>2. CASE Goto(p, Ready(p))
      BY <1>1, <3>2, CallMoves, ReadyCarries
    <3>3. QED
      BY <1>3, <3>1, <3>2
  <2>2. ~Settling(p)'
    BY <2>1 DEF Settling
  <2>3. QED
    BY <1>1, <1>2, <1>3, <2>1, <2>2, TargetQuiet
<1>4. CASE /\ ~target[call[p].channel]
           /\ call' = [call EXCEPT ![p] = [@ EXCEPT !.known = target, !.pc = "create"]]
           /\ contested' = contested \cup
                {c \in Channels : \E q \in Calls : Settling(q) /\ c \in {call[p].channel, call[q].channel}}
  BY <1>1, <1>4, TargetFound
<1>5. QED
  BY <1>3, <1>4 DEF FindTarget

LEMMA StepTarget == IInv /\ TargetInv /\ [Next]_vars => TargetInv'
<1> SUFFICES ASSUME IInv, TargetInv, [Next]_vars PROVE TargetInv'
  OBVIOUS
<1>1. TypeOK
  BY DEF IInv
<1>2. ASSUME NEW p \in Calls, Begin(p) \/ Step(p) \/ Die(p)
      PROVE  TargetInv'
  <2>1. CASE FindTarget(p) \/ CreateTarget(p) \/ StoreTarget(p) \/ Die(p)
    BY <1>1, <2>1, TargetFind, TargetCreated, TargetStored, TargetDies
  <2>2. CASE \/ Draft(p) \/ CreateReminder(p) \/ StartSending(p) \/ Deliver(p)
             \/ RecordSent(p) \/ RecordReminder(p) \/ RecordConfirmation(p) \/ RecordFails(p)
             \/ MarkSendFailure(p) \/ Begin(p)
    BY <1>1, <2>2, QuietSteps, TargetQuiet
  <2>3. QED
    BY <1>2, <2>1, <2>2 DEF Step
<1>3. CASE Answer \/ Tick \/ UNCHANGED vars
  <2>1. UNCHANGED <<target, created, contested, call>>
    BY <1>3 DEF Answer, Tick, vars, rows, sent, trouble
  <2>2. QED
    BY <2>1 DEF TargetInv, SetUpAlone, KnowsTargets, CreatedTargets, FoundNone, Settling, Storing
<1>4. QED
  BY <1>2, <1>3 DEF Next

LEMMA InitTarget == Init => TargetInv
<1> SUFFICES ASSUME Init PROVE TargetInv
  OBVIOUS
<1>1. \A p \in Calls : call[p].pc = "idle"
  BY DEF Init, IdleCall
<1>2. \A p \in Calls, c \in Channels : ~Settling(p) /\ ~Storing(p, c)
  BY <1>1 DEF Settling, Storing
<1>3. \A c \in Channels : target[c] = FALSE /\ created[c] = 0
  BY DEF Init, NoTargets
<1>4. QED
  BY <1>2, <1>3 DEF TargetInv, SetUpAlone, KnowsTargets, CreatedTargets, FoundNone
-----------------------------------------------------------------------------
(* However calls overlap, fail and die: a message goes out once, and once  *)
(* more only for each time the service lost track of it, and a channel     *)
(* that nobody contests gets one target.                                   *)
THEOREM NothingIsDoneTwice == Spec => []NothingTwice
<1>1. IInv /\ OnceInv /\ TargetInv => NothingTwice
  <2> SUFFICES ASSUME IInv, OnceInv, TargetInv PROVE NothingTwice
    OBVIOUS
  <2>1. TypeOK
    BY DEF IInv
  <2>2. SentOnce
    <3> SUFFICES ASSUME NEW m \in DOMAIN taken PROVE taken[m] <= 1 + doubts[m]
      BY DEF SentOnce
    <3>1. m \in DOMAIN thread
      BY <2>1 DEF TypeOK
    <3>2. taken[m] \in Nat /\ doubts[m] \in Nat /\ Spare(m) \in {0, 1}
      BY <2>1, <3>1, Counts
    <3>3. Cardinality(Open(m)) \in Nat
      BY PendingIsFinite DEF Open
    <3>4. taken[m] + Cardinality(Open(m)) + Spare(m) <= 1 + doubts[m]
      BY <3>1 DEF OnceInv, Once
    <3>5. QED
      BY <3>2, <3>3, <3>4
  <2>3. OneTarget
    <3> SUFFICES ASSUME NEW c \in Channels \ contested
                 PROVE  /\ created[c] <= 1
                        /\ (\A p \in Calls : ~(Settling(p) /\ call[p].channel = c)) =>
                              (target[c] <=> created[c] = 1)
      BY DEF OneTarget
    <3>1. created[c] = IF target[c] \/ \E p \in Calls : Storing(p, c) THEN 1 ELSE 0
      BY DEF TargetInv, CreatedTargets
    <3>2. (\A p \in Calls : ~(Settling(p) /\ call[p].channel = c)) =>
             \A p \in Calls : ~Storing(p, c)
      BY DEF Settling, Storing
    <3>3. target[c] \in BOOLEAN
      BY <2>1 DEF TypeOK
    <3>4. QED
      BY <3>1, <3>2, <3>3
  <2>4. QED
    BY <2>2, <2>3 DEF NothingTwice
<1>2. QED
  BY <1>1, InitIInv, StepIInv, InitOnce, StepOnce, InitTarget, StepTarget, PTL DEF Spec
=============================================================================
