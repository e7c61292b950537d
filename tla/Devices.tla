------------------------------ MODULE Devices ------------------------------
(***************************************************************************)
(* Simulated time, interrupts and devices (machine/interrupt.cc, timer.cc, *)
(* disk.cc, console.cc) and the drivers over them (filesys/synchdisk.cc,   *)
(* userprog/synchconsole.cc).                                              *)
(*                                                                         *)
(* There is one processor.  Time goes on when a thread turns interrupts    *)
(* on again, at the end of P, V and Yield, and when no thread is ready:    *)
(* then the interrupts that are due are handled, one after another.  What  *)
(* a thread has still to do is a sequence of instructions: P or V of a     *)
(* semaphore, a request to a device, or the end of Yield.  Locks are taken *)
(* as semaphores of value 1; the module LockCond is about them.            *)
(***************************************************************************)
EXTENDS Integers, Sequences, FiniteSets, SequencesExt, FiniteSetsExt

CONSTANTS
    Thread,
    SystemTick, TimerTicks, ConsoleTime, RotationTime, SeekTime,
    SectorsPerTrack, NumTracks,
    Input,      \* what is typed, a sequence of "char" and "newline"
    Sizes,      \* sizes of the buffers given to GetString
    MaxOps,     \* bound on the operations begun
    LastBegin,  \* no operation begins after this time
    MaxTicks,   \* a machine that waits for input is followed up to this time
    MaxTimer,   \* bound on the interrupts of the timer
    MaxAvail    \* bound on readAvail, which grows at the end of the input

ASSUME DevicesAssumption ==
    /\ {SystemTick, TimerTicks, ConsoleTime, RotationTime, SectorsPerTrack, NumTracks}
         \subseteq Nat \ {0}
    /\ SeekTime \in Nat /\ Sizes \subseteq Nat
    /\ Input \in Seq({"char", "newline"})
    /\ IsFiniteSet(Thread) /\ Thread # {}

VARIABLES
    now,            \* stats->totalTicks
    pending,        \* interrupts to come, sorted
    yieldOnReturn,
    mode,           \* "run": a thread runs; "due": OneTick handles interrupts;
                    \* "idle", "idleDue": Idle does; "halted"
    current, ready, \* running thread; ready list
    sem,            \* semaphores: value and queue
    todo,           \* instructions of each thread
    disk, console,
    req,            \* history: the disk request under way
    line,           \* history: characters taken when a thread's string began
    ops, timers     \* operations begun and timer interrupts, for the bounds

interruptVars == <<now, pending, yieldOnReturn, mode>>
schedVars     == <<current, ready>>
driverVars    == <<sem, todo>>
deviceVars    == <<disk, console>>
history       == <<req, line, ops, timers>>
devVars == <<interruptVars, schedVars, driverVars, deviceVars, history>>

-----------------------------------------------------------------------------
None      == "none"
Semaphore == {"diskLock", "diskDone", "readLock", "readAvail", "writeLock", "writeDone"}
Sector    == 0..(SectorsPerTrack * NumTracks - 1)
EOF       == "eof"
NewDisk    == [active |-> FALSE, lastSector |-> 0, bufferInit |-> 0]
NewConsole == [putBusy |-> FALSE, incoming |-> EOF, polled |-> 0, taken |-> 0]
NoRequest == [at |-> 0, sector |-> 0, writing |-> FALSE, last |-> 0, init |-> 0, when |-> 0]

Interrupt(when, type) == [when |-> when, type |-> type]

(* Mistake: the list is not kept sorted. *)
InsertUnsorted(list, e) == Append(list, e)

(* List::SortedInsert: behind those of the same time. *)
SortedInsert(list, e) ==
    InsertAt(list, Cardinality({i \in DOMAIN list : list[i].when <= e.when}) + 1, e)

(* Interrupt::Schedule, of an interrupt after a delay. *)
Schedule(list, when, type) == SortedInsert(list, Interrupt(when, type))

(* The timer is set to a random delay. *)
TimeOfNextInterrupt == 1..(2 * TimerTicks)

(* A timer is there only if the machine was started with one, and the        *)
(* console only if it runs user programs.                                    *)
DevicesInit ==
    /\ now = 0
    /\ \E timer \in {<<>>} \cup {<<Interrupt(d, "timer")>> : d \in TimeOfNextInterrupt} :
          pending \in {timer, Schedule(timer, ConsoleTime, "consoleRead")}
    /\ yieldOnReturn = FALSE
    /\ mode = "run"
    /\ \E q \in SetToSeqs(Thread) : current = Head(q) /\ ready = Tail(q)
    /\ sem = [s \in Semaphore |->
                [value |-> IF s \in {"diskLock", "readLock", "writeLock"} THEN 1 ELSE 0,
                 queue |-> <<>>]]
    /\ todo = [t \in Thread |-> <<>>]
    /\ disk = NewDisk /\ console = NewConsole
    /\ req = NoRequest
    /\ line = [t \in Thread |-> 0]
    /\ ops = 0 /\ timers = 0

-----------------------------------------------------------------------------
(* The operations of the drivers, as instructions. *)
P(s) == [do |-> "P", sem |-> s]
V(s) == [do |-> "V", sem |-> s]
Tick == [do |-> "tick"]
DiskRequest(s, w) == [do |-> "disk", sector |-> s, writing |-> w]
Put  == [do |-> "put"]
(* GetChar for character i of a string of at most n, or on its own. *)
Get(i, n) == [do |-> "get", i |-> i, n |-> n]

(* Mistake: the lock is released before the disk is done. *)
ReadSectorEarly(s) == <<P("diskLock"), DiskRequest(s, FALSE), V("diskLock"), P("diskDone")>>

ReadSector(s)  == <<P("diskLock"), DiskRequest(s, FALSE), P("diskDone"), V("diskLock")>>
WriteSector(s) == <<P("diskLock"), DiskRequest(s, TRUE),  P("diskDone"), V("diskLock")>>

(* SynchPutChar and SynchPutString. *)
SynchPut       == <<P("writeLock"), Put, P("writeDone"), V("writeLock")>>

SynchGetChar   == <<P("readLock"), P("readAvail"), Get(0, 1), V("readLock")>>

SynchGetString(n) ==
    IF n <= 1 THEN <<>>
    ELSE <<P("readLock"), P("readAvail"), Get(0, n), V("readLock")>>

-----------------------------------------------------------------------------
(* Disk: how long a request takes. *)
Abs(n) == IF n < 0 THEN -n ELSE n
Track(s) == s \div SectorsPerTrack

TimeToSeek(s) == Abs(Track(s) - Track(disk.lastSector)) * SeekTime

(* Time until a sector begins under the head, once the head has moved. *)
Rotation(s) ==
    LET over == (now + TimeToSeek(s)) % RotationTime
    IN  IF over > 0 THEN RotationTime - over ELSE 0

ModuloDiff(to, from) ==
    (((to % SectorsPerTrack) - (from % SectorsPerTrack)) + SectorsPerTrack) % SectorsPerTrack

(* Mistake: the sectors passed are counted from the time of the request. *)
ComputeLatencyEarly(s, writing) ==
    LET seek == TimeToSeek(s)
    IN  seek + Rotation(s) + ModuloDiff(s, now \div RotationTime) * RotationTime + RotationTime

ComputeLatency(s, writing) ==
    LET seek  == TimeToSeek(s)
        after == now + seek + Rotation(s)
    IN  IF /\ ~writing /\ seek = 0
           /\ (after - disk.bufferInit) \div RotationTime
                > ModuloDiff(s, disk.bufferInit \div RotationTime)
        THEN RotationTime
        ELSE seek + Rotation(s) + ModuloDiff(s, after \div RotationTime) * RotationTime + RotationTime

UpdateLast(s) ==
    [disk EXCEPT !.active = TRUE, !.lastSector = s,
                 !.bufferInit = IF TimeToSeek(s) # 0 THEN now + TimeToSeek(s) + Rotation(s) ELSE @]

-----------------------------------------------------------------------------
(* Scheduler: threads wait for the processor in order. *)
ReadyToRun(ts)   == ready' = ready \o ts
FindNextToRun(r) == current' = Head(r) /\ ready' = Tail(r)

(* A thread that cannot go on leaves the processor to the next. *)
Sleep(t, r) ==
    IF r # <<>> THEN FindNextToRun(r) /\ mode' = "run"
    ELSE current' = None /\ ready' = r /\ mode' = "idle"

(* SetLevel turns interrupts on again: OneTick. *)
OneTick == now' = now + SystemTick /\ mode' = "due"

Next1(t) == todo' = [todo EXCEPT ![t] = Tail(@)]

Does(t, what) == mode = "run" /\ current = t /\ todo[t] # <<>> /\ Head(todo[t]).do = what

SemP(t) ==
    LET s == Head(todo[t]).sem IN
    /\ Does(t, "P")
    /\ \/ /\ sem[s].value > 0
          /\ sem' = [sem EXCEPT ![s].value = @ - 1]
          /\ Next1(t) /\ OneTick
          /\ UNCHANGED <<current, ready>>
       \/ /\ sem[s].value = 0
          /\ sem' = [sem EXCEPT ![s].queue = Append(@, t)]
          /\ Sleep(t, ready)
          /\ UNCHANGED <<now, todo>>
    /\ UNCHANGED <<pending, yieldOnReturn, disk, console, req, line, ops, timers>>

(* Semaphore::V, by a thread or a handler: the first of the queue, if any.   *)
Wakes(s) == IF sem[s].queue = <<>> THEN <<>> ELSE <<Head(sem[s].queue)>>
DoV(s) ==
    /\ sem' = [sem EXCEPT ![s] = [value |-> @.value + 1,
                                  queue |-> IF @.queue = <<>> THEN <<>> ELSE Tail(@.queue)]]
    /\ ReadyToRun(Wakes(s))

SemV(t) ==
    /\ Does(t, "V")
    /\ DoV(Head(todo[t]).sem)
    /\ Next1(t) /\ OneTick
    /\ UNCHANGED <<pending, yieldOnReturn, current, disk, console, req, line, ops, timers>>

(* The end of Yield, when the thread runs again. *)
AfterYield(t) ==
    /\ Does(t, "tick")
    /\ Next1(t) /\ OneTick
    /\ UNCHANGED <<pending, yieldOnReturn, current, ready, sem, disk, console, req, line, ops, timers>>

(* Disk::ReadRequest and WriteRequest. *)
Request(t) ==
    LET r == Head(todo[t])
        when == now + ComputeLatency(r.sector, r.writing)
    IN  /\ Does(t, "disk")
        /\ ~disk.active
        /\ disk' = UpdateLast(r.sector)
        /\ pending' = Schedule(pending, when, "disk")
        /\ req' = [at |-> now, sector |-> r.sector, writing |-> r.writing, when |-> when,
                   last |-> disk.lastSector, init |-> disk.bufferInit]
        /\ Next1(t)
        /\ UNCHANGED <<now, yieldOnReturn, mode, current, ready, sem, console, line, ops, timers>>

(* Console::PutChar and PutString. *)
PutChar(t) ==
    /\ Does(t, "put")
    /\ ~console.putBusy
    /\ console' = [console EXCEPT !.putBusy = TRUE]
    /\ pending' = Schedule(pending, now + ConsoleTime, "consoleWrite")
    /\ Next1(t)
    /\ UNCHANGED <<now, yieldOnReturn, mode, current, ready, sem, disk, req, line, ops, timers>>

(* Console::GetChar, but for the flag that Feof reports, and the loop of     *)
(* SynchGetString.                                                           *)
GetChar(t) ==
    LET g == Head(todo[t])
        c == console.incoming
    IN  /\ Does(t, "get")
        /\ console' = [console EXCEPT !.incoming = EOF, !.taken = IF c = EOF THEN @ ELSE @ + 1]
        /\ line' = [line EXCEPT ![t] = IF g.i = 0 THEN console.taken ELSE @]
        /\ todo' = [todo EXCEPT ![t] =
                      IF g.i < g.n - 1 /\ c = "char"
                      THEN <<P("readAvail"), Get(g.i + 1, g.n)>> \o Tail(@) ELSE Tail(@)]
        /\ UNCHANGED <<now, pending, yieldOnReturn, mode, current, ready, sem, disk, req, ops, timers>>

UsesDisk(t) == \E i \in DOMAIN todo[t] : todo[t][i] = V("diskLock")

(* The thread is done with one operation and begins the next, or ends. *)
Begins(t, op) ==
    /\ mode = "run" /\ current = t /\ todo[t] = <<>>
    /\ ops < MaxOps /\ ops' = ops + 1 /\ now <= LastBegin
    /\ todo' = [todo EXCEPT ![t] = op]
    /\ UNCHANGED <<now, pending, yieldOnReturn, mode, current, ready, sem, disk, console, req,
                   line, timers>>

HasConsole == \E i \in DOMAIN pending : pending[i].type = "consoleRead"

BeginsSome(t) ==
    \/ \E s \in Sector : Begins(t, ReadSector(s)) \/ Begins(t, WriteSector(s))
    \/ /\ HasConsole
       /\ \/ Begins(t, SynchPut) \/ Begins(t, SynchGetChar)
          \/ \E n \in Sizes : Begins(t, SynchGetString(n))

Finish(t) ==
    /\ mode = "run" /\ current = t /\ todo[t] = <<>>
    /\ Sleep(t, ready)
    /\ UNCHANGED <<now, pending, yieldOnReturn, sem, todo, disk, console, req, line, ops, timers>>

-----------------------------------------------------------------------------
(* What the kernel does on an interrupt.  The machine is in system mode then *)
(* (CheckIfDue), so the timer always asks for a Yield.                       *)
TimerInterruptHandler == yieldOnReturn' = TRUE
RequestDone           == DoV("diskDone")
WriteDone             == DoV("writeDone")
ReadAvail             == DoV("readAvail")

(* The handlers, at time at, of an interrupt taken off the list.  The timer  *)
(* falls silent after MaxTimer interrupts.                                   *)
TimerExpired(rest, at) ==
    /\ timers' = timers + 1
    /\ \/ timers = MaxTimer /\ pending' = rest
       \/ /\ timers < MaxTimer
          /\ \E d \in TimeOfNextInterrupt : pending' = Schedule(rest, at + d, "timer")
    /\ TimerInterruptHandler
    /\ UNCHANGED <<ready, sem, disk, console>>

(* Mistake: the handler wakes a thread only if one waits already. *)
DiskDoneNoUnit(rest, at) ==
    /\ pending' = rest
    /\ disk' = [disk EXCEPT !.active = FALSE]
    /\ ReadyToRun(Wakes("diskDone"))
    /\ sem' = [sem EXCEPT !["diskDone"].queue = IF @ = <<>> THEN <<>> ELSE Tail(@)]
    /\ UNCHANGED <<yieldOnReturn, console, timers>>

DiskDone(rest, at) ==
    /\ pending' = rest
    /\ disk' = [disk EXCEPT !.active = FALSE]
    /\ RequestDone
    /\ UNCHANGED <<yieldOnReturn, console, timers>>

ConsoleWriteDone(rest, at) ==
    /\ pending' = rest
    /\ console' = [console EXCEPT !.putBusy = FALSE]
    /\ WriteDone
    /\ UNCHANGED <<yieldOnReturn, disk, timers>>

(* The next character may not have been typed yet; at the end of the input   *)
(* every poll finds its end.  (A typed byte 0xFF is taken for EOF as well,   *)
(* and is lost: Input holds other characters only.)                          *)
PollFile    == {FALSE} \cup {sem["readAvail"].value < MaxAvail \/ console.polled < Len(Input)}
ReadPartial == IF console.polled < Len(Input) THEN Input[console.polled + 1] ELSE EOF

(* Mistake: the character before may still be there. *)
CheckCharAvailAlways(rest, at) ==
    /\ pending' = Schedule(rest, at + ConsoleTime, "consoleRead")
    /\ UNCHANGED <<yieldOnReturn, disk, timers>>
    /\ \E there \in PollFile :
          \/ ~there /\ UNCHANGED <<console, ready, sem>>
          \/ /\ there
             /\ console' = [console EXCEPT !.incoming = ReadPartial,
                                           !.polled = Min({@ + 1, Len(Input)})]
             /\ ReadAvail

CheckCharAvail(rest, at) ==
    /\ pending' = Schedule(rest, at + ConsoleTime, "consoleRead")
    /\ UNCHANGED <<yieldOnReturn, disk, timers>>
    /\ \E there \in PollFile :
          \/ (console.incoming # EOF \/ ~there) /\ UNCHANGED <<console, ready, sem>>
          \/ /\ console.incoming = EOF /\ there
             /\ console' = [console EXCEPT !.incoming = ReadPartial,
                                           !.polled = Min({@ + 1, Len(Input)})]
             /\ ReadAvail

Handle(e, rest, at) ==
    \/ e.type = "timer"        /\ TimerExpired(rest, at)
    \/ e.type = "disk"         /\ DiskDone(rest, at)
    \/ e.type = "consoleWrite" /\ ConsoleWriteDone(rest, at)
    \/ e.type = "consoleRead"  /\ CheckCharAvail(rest, at)

-----------------------------------------------------------------------------
(* Interrupt *)
Due == pending # <<>> /\ Head(pending).when <= now

(* Mistake: other interrupts behind the timer's are not looked for. *)
TimerNext == pending # <<>> /\ Head(pending).type = "timer"

(* An idle machine does not go on for the timer alone. *)
OnlyTimer == Len(pending) = 1 /\ Head(pending).type = "timer"

(* CheckIfDue(FALSE), in the loop of OneTick. *)
CheckIfDue ==
    /\ mode = "due" /\ Due
    /\ Handle(Head(pending), Tail(pending), now)
    /\ UNCHANGED <<now, mode, current, todo, req, line, ops>>

(* The end of OneTick, with Yield if the timer asked for it. *)
TickDone ==
    /\ mode = "due" /\ ~Due
    /\ mode' = "run"
    /\ yieldOnReturn' = FALSE
    /\ \/ ~yieldOnReturn /\ UNCHANGED <<current, ready, todo>>
       \/ /\ yieldOnReturn
          /\ todo' = [todo EXCEPT ![current] = <<Tick>> \o @]
          /\ FindNextToRun(Append(ready, current))
    /\ UNCHANGED <<now, pending, sem, disk, console, req, line, ops, timers>>

(* An idle machine is followed while a thread waits for the disk, and for    *)
(* MaxTicks while one waits for the console.                                 *)
Followed(at) == \E t \in Thread : todo[t] # <<>> /\ (UsesDisk(t) \/ at <= MaxTicks)

(* Idle: CheckIfDue(TRUE) advances the clock to the first interrupt ...  *)
Idle ==
    LET at == Max({now, Head(pending).when}) IN
    /\ mode = "idle" /\ pending # <<>> /\ ~OnlyTimer /\ Followed(at)
    /\ now' = at /\ mode' = "idleDue"
    /\ Handle(Head(pending), Tail(pending), at)
    /\ UNCHANGED <<current, todo, req, line, ops>>

(* ... CheckIfDue(FALSE) handles the others that are due ... *)
IdleDue ==
    /\ mode = "idleDue" /\ Due /\ ~OnlyTimer
    /\ Handle(Head(pending), Tail(pending), now)
    /\ UNCHANGED <<now, mode, current, todo, req, line, ops>>

(* ... and Sleep looks for a thread again. *)
IdleDone ==
    /\ mode = "idleDue" /\ (~Due \/ OnlyTimer)
    /\ yieldOnReturn' = FALSE
    /\ Sleep(current, ready)
    /\ UNCHANGED <<now, pending, sem, todo, disk, console, req, line, ops, timers>>

Halt ==
    /\ mode = "idle" /\ (pending = <<>> \/ OnlyTimer)
    /\ mode' = "halted"
    /\ now' = IF pending = <<>> THEN now ELSE Max({now, Head(pending).when})
    /\ UNCHANGED <<pending, yieldOnReturn, current, ready, sem, todo, disk, console, req,
                   line, ops, timers>>

-----------------------------------------------------------------------------
DevicesNext ==
    \/ \E t \in Thread : \/ SemP(t) \/ SemV(t) \/ AfterYield(t) \/ Request(t) \/ PutChar(t)
                         \/ GetChar(t) \/ BeginsSome(t) \/ Finish(t)
    \/ CheckIfDue \/ TickDone \/ Idle \/ IdleDue \/ IdleDone \/ Halt

(* There is one processor, and it never stops by itself. *)
DevicesSpec == DevicesInit /\ [][DevicesNext]_devVars /\ WF_devVars(DevicesNext)

-----------------------------------------------------------------------------
(* Correctness. *)

(* Interrupts are handled in time: when a thread runs, no interrupt of the   *)
(* disk or the console is overdue, whatever was scheduled meanwhile and in   *)
(* which order.  (An idle machine leaves the timer's for later.)             *)
InterruptsOnTime ==
    mode = "run" => \A i \in DOMAIN pending : pending[i].type # "timer" => pending[i].when > now

(* The requests to a device never overlap: its assertion that it is not busy *)
(* holds whenever a thread makes a request, and a thread that is past its    *)
(* wait for the disk or the display finds the device done with its request.  *)
OneRequestAtATime ==
    /\ \A t \in Thread : (Does(t, "disk") => ~disk.active) /\ (Does(t, "put") => ~console.putBusy)
    /\ \A t \in Thread : todo[t] # <<>> /\ Head(todo[t]).do = "V" =>
          /\ Head(todo[t]).sem = "diskLock" => ~disk.active
          /\ Head(todo[t]).sem = "writeLock" => ~console.putBusy

(* The time at which sector s begins under the head, from time from on. *)
SectorBegins(s, from) ==
    Min({k \in from..(from + (SectorsPerTrack + 1) * RotationTime) :
           k % RotationTime = 0 /\ (k \div RotationTime) % SectorsPerTrack = s % SectorsPerTrack})

(* The disk answers when the head, after moving to the track, has passed     *)
(* over the whole sector; sooner, after the time to transfer a sector, for a *)
(* sector that passed under the head since it came to the track.             *)
LatencyExact ==
    LET seek == Abs(Track(req.sector) - Track(req.last)) * SeekTime IN
    disk.active =>
      \/ req.when = SectorBegins(req.sector, req.at + seek) + RotationTime
      \/ /\ ~req.writing /\ seek = 0
         /\ SectorBegins(req.sector, req.init) + RotationTime <= req.when
         /\ req.when = req.at + RotationTime

(* Every character that was typed is given to one thread, in order, and the  *)
(* ones of a string are consecutive: none is overwritten in the buffer, and  *)
(* no other thread takes one in the middle of the string.                    *)
InputKept ==
    /\ console.polled = console.taken + (IF console.incoming = EOF THEN 0 ELSE 1)
    /\ \A t \in Thread : \A i \in DOMAIN todo[t] :
          todo[t][i].do = "get" /\ todo[t][i].i > 0 =>
             console.taken = line[t] + todo[t][i].i

(* The machine halts for lack of work only when no device owes an answer and *)
(* there is no console.                                                      *)
HaltsOnlyWhenDone ==
    mode = "halted" => ~disk.active /\ ~console.putBusy /\ ~HasConsole

(* t has made its request and waits for the disk, or is about to; and the    *)
(* unit it waits for is there, and t is awake to take it.                    *)
WaitsForDisk(t) ==
    /\ \E i \in DOMAIN todo[t] : todo[t][i] = P("diskDone")
    /\ \A i \in DOMAIN todo[t] : todo[t][i].do # "disk"
HasAnswer(t) == sem["diskDone"].value > 0 /\ t \notin ToSet(sem["diskDone"].queue)

(* A thread that has asked the disk gets its answer: wherever the interrupt  *)
(* falls, and however many others use the drivers, it is woken and finds the *)
(* unit (SynchDisk::RequestDone).  When it has the lock for its next request *)
(* is another matter: P tests again, so a thread that comes back at once can *)
(* take the lock before the one that was woken for it.                       *)
RequestsAnswered == \A t \in Thread : WaitsForDisk(t) ~> (HasAnswer(t) \/ ~WaitsForDisk(t))
=============================================================================
