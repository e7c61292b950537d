----------------------------- MODULE PostOffice -----------------------------
(***************************************************************************)
(* The network, the post office, and reliable sending over them            *)
(* (machine/network.cc, network/post.cc, network/reliable.cc), in the use  *)
(* of network/nettest.cc.  In TestWait machine 0 sends a message reliably, *)
(* the other machine waits for it, acknowledges it and halts; in MailTest  *)
(* both send a message, get and acknowledge the other's, and halt with its *)
(* acknowledgement.                                                        *)
(*                                                                         *)
(* Machines are processes that send each other datagrams.  A packet may be *)
(* lost when it is sent, and a machine fails when it sends to one that has *)
(* halted.  On a machine run main, the postal worker and, on the sender, a *)
(* thread per attempt that puts "Resend" in the sender's own mailbox.  A   *)
(* thread at P is one that waits for the value of the semaphore.           *)
(***************************************************************************)
EXTENDS Integers, Sequences, FiniteSets, SequencesExt

CONSTANTS
    MAXREEMISSIONS,
    MaxLoss          \* bound on the packets that are lost

ASSUME PostOfficeAssumption == MAXREEMISSIONS \in Nat \ {0} /\ MaxLoss \in Nat

VARIABLES
    test,     \* what the machines were started with: "TestWait" or "MailTest"
    up,       \* machines: "up", "halted" or "aborted"
    wire,     \* packets on their way to each machine
    inHdr,    \* the packet the network device holds: a sequence of at most one
    available, sent,  \* semaphores messageAvailable and messageSent
    sendLock, \* the lock is held
    sendInt,  \* interrupts to come that say a packet was sent
    carried,  \* mail the postal worker holds
    boxes,    \* mailboxes of each machine
    pc,       \* where each thread is
    left,     \* copies of "Resend" that the thread of each attempt has to send
    reem,     \* attempts that ended
    posted, taken,  \* history: messages sent to a machine, and those its main took
    expired,  \* history: delays that ended
    losses

networkVars == <<wire, inHdr, sendInt, losses>>
officeVars  == <<available, sent, sendLock, carried, boxes>>
senderVars  == <<left, reem>>
history     == <<posted, taken, expired>>
poVars == <<test, up, pc, networkVars, officeVars, senderVars, history>>

-----------------------------------------------------------------------------
Machine == {0, 1}
Box     == {0, 1}
Attempt == 1..MAXREEMISSIONS

(* A thread is main, or the one of an attempt; main runs on both machines. *)
Main(m)    == <<m, 0>>
Timer(k)   == <<0, k>>
Thread     == {Main(0), Main(1)} \cup {Timer(k) : k \in Attempt}
MachineOf(th) == th[1]

(* What nettest.cc and reliable.cc send: the machine and the box it is for,  *)
(* and the box to answer to.                                                 *)
Data   == [text |-> "data",   to |-> 1, box |-> 1, from |-> 0, reply |-> 0]
Ack(p) == [text |-> "ack",    to |-> p.from, box |-> p.reply, from |-> p.to, reply |-> p.reply]
Resend == [text |-> "Resend", to |-> 0, box |-> 0, from |-> 0, reply |-> 0]
Hello(m) == [text |-> "data", to |-> 1 - m, box |-> 0, from |-> m, reply |-> 1]

PostOfficeInit ==
    /\ test \in {"TestWait", "MailTest"}
    /\ up = [m \in Machine |-> "up"]
    /\ wire = [m \in Machine |-> <<>>]
    /\ inHdr = [m \in Machine |-> <<>>]
    /\ available = [m \in Machine |-> 0]
    /\ sent = [m \in Machine |-> 0]
    /\ sendLock = [m \in Machine |-> FALSE]
    /\ sendInt = [m \in Machine |-> 0]
    /\ carried = [m \in Machine |-> <<>>]
    /\ boxes = [m \in Machine |-> [b \in Box |-> <<>>]]
    /\ pc = [th \in Thread |-> IF th = Main(1) /\ test = "TestWait" THEN "receive"
                               ELSE IF th \in {Main(0), Main(1)} THEN "send" ELSE "none"]
    /\ left = [k \in Attempt |-> MAXREEMISSIONS]
    /\ reem = 0
    /\ posted = [m \in Machine |-> <<>>]
    /\ taken = [m \in Machine |-> <<>>]
    /\ expired = 0
    /\ losses = 0

Runs(th, at) == up[MachineOf(th)] = "up" /\ pc[th] = at

-----------------------------------------------------------------------------
(* Network, and the sockets under it *)

PollSocket(m)     == wire[m] # <<>>
ReadFromSocket(m) == /\ inHdr' = [inHdr EXCEPT ![m] = <<Head(wire[m])>>]
                     /\ wire' = [wire EXCEPT ![m] = Tail(@)]

(* There is a socket of that name while the machine runs; otherwise sendto   *)
(* fails, and with it the machine m that sends.                              *)
SendToSocket(m, p) ==
    IF up[p.to] = "up"
    THEN /\ wire' = [wire EXCEPT ![p.to] = Append(@, p)]
         /\ posted' = [posted EXCEPT ![p.to] = Append(@, p)]
         /\ UNCHANGED up
    ELSE up' = [up EXCEPT ![m] = "aborted"] /\ UNCHANGED <<wire, posted>>

(* The interrupt handlers of the post office. *)
IncomingPacket(m) == available' = [available EXCEPT ![m] = @ + 1]
PacketSent(m)     == sent' = [sent EXCEPT ![m] = @ + 1]

(* Mistake: a packet that has not been fetched yet is overwritten. *)
CheckPktAvailAlways(m) ==
    /\ up[m] = "up" /\ PollSocket(m)
    /\ ReadFromSocket(m) /\ IncomingPacket(m)
    /\ UNCHANGED <<up, sent, sendLock, sendInt, carried, boxes, pc, senderVars, history, losses>>

(* The network polls the socket, unless it holds a packet. *)
CheckPktAvail(m) ==
    /\ up[m] = "up" /\ inHdr[m] = <<>> /\ PollSocket(m)
    /\ ReadFromSocket(m) /\ IncomingPacket(m)
    /\ UNCHANGED <<up, sent, sendLock, sendInt, carried, boxes, pc, senderVars, history, losses>>

SendDone(m) ==
    /\ up[m] = "up" /\ sendInt[m] > 0
    /\ sendInt' = [sendInt EXCEPT ![m] = @ - 1]
    /\ PacketSent(m)
    /\ UNCHANGED <<up, wire, inHdr, available, sendLock, carried, boxes, pc, senderVars, history,
                   losses>>

(* Network::Send, from machine m: a packet is lost, or given to the socket. *)
NetworkSend(m, p) ==
    /\ sendInt' = [sendInt EXCEPT ![m] = @ + 1]
    /\ \/ /\ losses < MaxLoss /\ losses' = losses + 1
          /\ UNCHANGED <<up, wire, posted>>
       \/ SendToSocket(m, p) /\ UNCHANGED losses

(* Network::Receive empties the buffer of the device. *)
NetworkReceive(m) ==
    /\ carried' = [carried EXCEPT ![m] = inHdr[m]]
    /\ inHdr' = [inHdr EXCEPT ![m] = <<>>]

-----------------------------------------------------------------------------
(* PostOffice *)

(* MailBox::Put and MailBox::Get, over a synchronised list. *)
Put(m, mail) == boxes' = [boxes EXCEPT ![m][mail.box] = Append(@, mail)]
Get(m, b)    == /\ boxes[m][b] # <<>>
                /\ boxes' = [boxes EXCEPT ![m][b] = Tail(@)]

(* PostalDelivery: the packet is taken from the network ... *)
Collect(m) ==
    /\ up[m] = "up" /\ available[m] > 0 /\ carried[m] = <<>>
    /\ available' = [available EXCEPT ![m] = @ - 1]
    /\ NetworkReceive(m)
    /\ UNCHANGED <<up, wire, sent, sendLock, sendInt, boxes, pc, senderVars, history, losses>>

(* ... and the mail put into its box. *)
PostalDelivery(m) ==
    /\ up[m] = "up" /\ carried[m] # <<>>
    /\ Put(m, Head(carried[m]))
    /\ carried' = [carried EXCEPT ![m] = <<>>]
    /\ UNCHANGED <<up, networkVars, available, sent, sendLock, pc, senderVars, history>>

(* PostOffice::Send holds the lock ... *)
SendStart(th, p, at) ==
    /\ Runs(th, at) /\ ~sendLock[MachineOf(th)]
    /\ sendLock' = [sendLock EXCEPT ![MachineOf(th)] = TRUE]
    /\ NetworkSend(MachineOf(th), p)
    /\ pc' = [pc EXCEPT ![th] = "sending"]
    /\ UNCHANGED <<inHdr, available, sent, carried, boxes, left, reem, taken, expired>>

(* ... until the interrupt says that the packet was sent. *)
SendEnd(th) ==
    /\ Runs(th, "sending") /\ sent[MachineOf(th)] > 0
    /\ sent' = [sent EXCEPT ![MachineOf(th)] = @ - 1]
    /\ sendLock' = [sendLock EXCEPT ![MachineOf(th)] = FALSE]

(* PostOffice::Receive, by main. *)
Receive(m, b) ==
    /\ Runs(Main(m), "receive")
    /\ Get(m, b)
    /\ taken' = [taken EXCEPT ![m] = Append(@, Head(boxes[m][b]))]
    /\ UNCHANGED <<up, networkVars, available, sent, sendLock, carried, left, posted, expired>>

(* Halt cleans up, and with the post office goes the socket. *)
Halt(m) ==
    /\ Runs(Main(m), "halt")
    /\ up' = [up EXCEPT ![m] = "halted"]
    /\ wire' = [wire EXCEPT ![m] = <<>>]
    /\ UNCHANGED <<inHdr, sendInt, losses, officeVars, pc, senderVars, history>>

-----------------------------------------------------------------------------
(* Mistake: no thread is forked to end the wait. *)
ForkNone ==
    /\ SendEnd(Main(0))
    /\ pc' = [pc EXCEPT ![Main(0)] = "receive"]
    /\ UNCHANGED <<up, networkVars, available, carried, boxes, senderVars, history>>

(* ReliableSend, on machine 0.  An attempt sends the message and forks the   *)
(* thread that will give up waiting for the answer.                          *)
Fork ==
    /\ SendEnd(Main(0))
    /\ pc' = [pc EXCEPT ![Main(0)] = "receive", ![Timer(reem + 1)] = "delay"]
    /\ UNCHANGED <<up, networkVars, available, carried, boxes, senderVars, history>>

(* Mistake: "Resend" is not told from an answer. *)
GetAnswerAny ==
    /\ Receive(0, 0)
    /\ reem' = reem + 1
    /\ pc' = [pc EXCEPT ![Main(0)] = "halt"]

(* The answer is the acknowledgement, unless it says "Resend". *)
GetAnswer ==
    /\ Receive(0, 0)
    /\ reem' = reem + 1
    /\ pc' = [pc EXCEPT ![Main(0)] =
                IF Head(boxes[0][0]).text = "Resend" /\ reem' < MAXREEMISSIONS THEN "send"
                ELSE "halt"]

(* DelayAck: the machine sleeps, then the thread sends MAXREEMISSIONS        *)
(* messages to box 0 of machine 0.                                           *)
Delay(k) ==
    /\ Runs(Timer(k), "delay")
    /\ pc' = [pc EXCEPT ![Timer(k)] = "resend"]
    /\ expired' = expired + 1
    /\ UNCHANGED <<up, networkVars, officeVars, senderVars, posted, taken>>

Resent(k) ==
    /\ SendEnd(Timer(k))
    /\ left' = [left EXCEPT ![k] = @ - 1]
    /\ pc' = [pc EXCEPT ![Timer(k)] = IF left[k] = 1 THEN "none" ELSE "resend"]
    /\ UNCHANGED <<up, networkVars, available, carried, boxes, reem, history>>

(* TestWait on machine 1: wait, answer, halt. *)
GetMessage ==
    /\ Receive(1, 1)
    /\ pc' = [pc EXCEPT ![Main(1)] = "send"]
    /\ UNCHANGED reem

Answered ==
    /\ SendEnd(Main(1))
    /\ pc' = [pc EXCEPT ![Main(1)] = "halt"]
    /\ UNCHANGED <<up, networkVars, available, carried, boxes, senderVars, history>>

(* MailTest, on either machine: send, receive from box 0, answer, and        *)
(* receive the answer from box 1.                                            *)
MailSend(m) ==
    SendStart(Main(m), IF taken[m] = <<>> THEN Hello(m) ELSE Ack(Last(taken[m])), "send")

MailSent(m) ==
    /\ SendEnd(Main(m))
    /\ pc' = [pc EXCEPT ![Main(m)] = "receive"]
    /\ UNCHANGED <<up, networkVars, available, carried, boxes, senderVars, history>>

MailGet(m) ==
    /\ Receive(m, Len(taken[m]))
    /\ pc' = [pc EXCEPT ![Main(m)] = IF taken[m] = <<>> THEN "send" ELSE "halt"]
    /\ UNCHANGED reem

-----------------------------------------------------------------------------
DeviceNext(m) == CheckPktAvail(m) \/ SendDone(m) \/ Collect(m) \/ PostalDelivery(m)

SenderNext ==
    SendStart(Main(0), Data, "send") \/ Fork \/ GetAnswer \/ Halt(0)

TimerNext(k) ==
    Delay(k) \/ SendStart(Timer(k), Resend, "resend") \/ Resent(k)

ReceiverNext ==
    \/ GetMessage
    \/ pc[Main(1)] = "send" /\ SendStart(Main(1), Ack(Last(taken[1])), "send")
    \/ Answered \/ Halt(1)

MailNext(m) == MailSend(m) \/ MailSent(m) \/ MailGet(m) \/ Halt(m)

MainNext(m) ==
    \/ test = "TestWait" /\ m = 0 /\ SenderNext
    \/ test = "TestWait" /\ m = 1 /\ ReceiverNext
    \/ test = "MailTest" /\ MailNext(m)

PostOfficeNext ==
    /\ \/ \E m \in Machine : DeviceNext(m) \/ MainNext(m)
       \/ \E k \in Attempt : TimerNext(k)
    /\ UNCHANGED test

(* Devices are polled for ever, and the ready list and the queues of locks   *)
(* are served in order.                                                      *)
Fairness ==
    /\ \A m \in Machine : /\ WF_poVars(CheckPktAvail(m) /\ UNCHANGED test)
                          /\ WF_poVars(SendDone(m) /\ UNCHANGED test)
                          /\ WF_poVars(Collect(m) /\ UNCHANGED test)
                          /\ WF_poVars(PostalDelivery(m) /\ UNCHANGED test)
                          /\ SF_poVars(MainNext(m) /\ UNCHANGED test)
    /\ \A k \in Attempt : SF_poVars(TimerNext(k) /\ UNCHANGED test)

PostOfficeSpec == PostOfficeInit /\ [][PostOfficeNext]_poVars /\ Fairness

-----------------------------------------------------------------------------
(* Correctness. *)

(* The packets of s for box b, in their order. *)
Places(s, b)  == {i \in 1..Len(s) : s[i].box = b}
Upto(s, b, i) == Cardinality({k \in Places(s, b) : k <= i})
Nth(s, b, j)  == {i \in Places(s, b) : Upto(s, b, i) = j}
TheOne(S)     == CHOOSE i \in S : TRUE
ForBox(s, b)  == [j \in 1..Cardinality(Places(s, b)) |-> s[TheOne(Nth(s, b, j))]]

(* Packets that came to the socket of a machine and are on the way to their  *)
(* box: with the postal worker, in the network device, or on the wire; and   *)
(* those that came before them.                                              *)
OnTheWay(m) == carried[m] \o inHdr[m] \o wire[m]
Arrived(m)  == SubSeq(posted[m], 1, Len(posted[m]) - Len(OnTheWay(m)))

(* On a machine that is up, every packet that came to its socket is in one   *)
(* place: the last ones are on the way, in the order in which they were      *)
(* sent, and of the ones before them those for a mailbox are the ones main   *)
(* took from it and the ones in it, in the same order.                       *)
MailInOrderOnce ==
    \A m \in Machine : up[m] = "up" =>
        /\ posted[m] = Arrived(m) \o OnTheWay(m)
        /\ \A b \in Box : ForBox(Arrived(m), b) = ForBox(taken[m], b) \o boxes[m][b]

Texts(s) == {s[i].text : i \in DOMAIN s}

(* A machine takes an answer for the acknowledgement only if the message     *)
(* arrived; when ReliableSend gives up it has made all its attempts.         *)
SuccessMeansDelivered ==
    pc[Main(0)] = "halt" => \/ "data" \in Texts(taken[1]) /\ "ack" \in Texts(taken[0])
                            \/ test = "TestWait" /\ reem = MAXREEMISSIONS

(* ReliableSend comes to an end, or the machine aborts, as long as fewer     *)
(* packets are lost than an attempt sends to its own machine: a message or   *)
(* an answer that is lost is then made up for by a "Resend".  In MailTest,   *)
(* when nothing is lost, both machines get to the end and neither halts too  *)
(* early for the other to send what it has to send.                          *)
ReliableSendEnds ==
    /\ <>(test = "TestWait" => up[0] # "up")
    /\ <>[](test = "MailTest" /\ losses = 0 => \A m \in Machine : up[m] = "halted")

(* Each attempt but the first follows a delay of its own.  The code does not *)
(* keep it: one delay sends MAXREEMISSIONS copies of "Resend".               *)
RetriesWait == reem <= expired \/ "ack" \in Texts(taken[0])
=============================================================================
