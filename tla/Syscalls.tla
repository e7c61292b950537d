------------------------------ MODULE Syscalls ------------------------------
(***************************************************************************)
(* System calls (userprog/exception.cc), the strings they copy between the *)
(* machine and the kernel (userprog/synchconsole.cc), and the user         *)
(* semaphores, which exist in exception.cc only.                           *)
(*                                                                         *)
(* What the file system, the console, threads and processes do in a call   *)
(* is modelled by their own modules: here a call of one of them is a       *)
(* service, which takes a while and returns any result it may return.      *)
(* Threads of user programs share one memory; addresses from MemSize on    *)
(* are not mapped.  Copies do not wait: no other thread runs meanwhile.    *)
(***************************************************************************)
EXTENDS Integers, Sequences, SequencesExt, FiniteSets, FiniteSetsExt

CONSTANTS
    Thread,
    MemSize,             \* bytes of mapped memory
    MAX_STRING_SIZE,
    MAX_EXEC_NAME_LEN,
    NumSems,             \* length of UserSemaphores
    Values,              \* initial values asked of SemCreate
    Sizes,               \* numbers of bytes asked of Read, Write and GetString
    MaxCalls             \* bound on the calls made

ASSUME SyscallsAssumption ==
    /\ IsFiniteSet(Thread)
    /\ MemSize \in Nat \ {0}
    /\ MAX_STRING_SIZE \in Nat \ {0} /\ MAX_EXEC_NAME_LEN \in Nat \ {0}
    /\ NumSems \in Nat \ {0}
    /\ Values \subseteq Int /\ Sizes \subseteq Nat /\ MaxCalls \in Nat

VARIABLES
    mem,             \* the bytes of the user memory
    thr,             \* each thread: where it is and what it does
    UserSemaphores,  \* for each id, a semaphore of heap, or NULL
    heap,            \* the semaphores made
    stopped,         \* the machine halted, an assertion failed, or the kernel
                     \* used memory outside an array, or of no object any more
    calls

sysVars == <<mem, thr, UserSemaphores, heap, stopped, calls>>

-----------------------------------------------------------------------------
NUL     == 0
Byte    == {NUL, 1}
Unset == 2     \* a byte of a kernel buffer that was not set
NULL    == 0     \* no semaphore
Sid     == 0..(NumSems - 1)
Address == 0..(MemSize - 1)

NamedFile   == {"CreateFile", "CreateDir", "RemoveFile", "RemoveDir"}
TakesString    == NamedFile \cup {"List", "Open", "Write", "PutString", "ForkExec"}
FillsBuffer   == {"Read", "GetString"}
Plain       == {"Close", "PutChar", "GetChar", "PutInt", "Feof", "ThreadCreate", "ThreadJoin",
                "ThreadId", "GetPid"}
NoReturn    == {"Exit", "Halt", "ThreadExit"}
GivesResult == NamedFile \cup {"List", "Open", "Read", "GetChar", "Feof", "ThreadCreate",
                               "ThreadJoin", "ThreadId", "ForkExec", "WaitPid", "GetPid"}

(* moved: how far the PC went since the trap; faults: accesses of unmapped   *)
(* addresses by the kernel; string: the buffer of the kernel; r2: the number *)
(* of the call, until a result replaces it.                                  *)
Running == [at |-> "user", call |-> "none", addr |-> 0, n |-> 0, moved |-> 1, faults |-> 0,
            r2 |-> "call", string |-> <<>>, sem |-> NULL]

SyscallsInit ==
    /\ mem \in [Address -> Byte]
    /\ thr = [t \in Thread |-> Running]
    /\ UserSemaphores = [i \in Sid |-> NULL]
    /\ heap = <<>>
    /\ stopped = FALSE
    /\ calls = 0

UpdatePC(r) == [r EXCEPT !.moved = @ + 1]

(* Each access of an unmapped address raises an exception within the call,   *)
(* for which ExceptionHandler does nothing but UpdatePC.                     *)
Access(r, addresses) ==
    LET n == Cardinality(addresses \ Address)
    IN  [r EXCEPT !.faults = @ + n, !.moved = @ + n]

-----------------------------------------------------------------------------
(* SynchConsole::CopyStringFromMachine and CopyStringToMachine *)
(* A turn of the first loop, with the byte at address a.  The loop goes on   *)
(* over bytes it cannot read, and stops after a NUL.                         *)
ReadByte(s, a) ==
    IF s.ch = NUL THEN s
    ELSE IF a \in Address THEN [ch |-> mem[a], to |-> Append(s.to, mem[a])]
         ELSE [s EXCEPT !.to = Append(@, Unset)]

(* The bytes of a string of the user memory, in a buffer of the kernel. *)
ReadString(from, size) ==
    LET s[k \in 0..(size - 1)] == IF k = 0 THEN [ch |-> 1, to |-> <<>>]
                                  ELSE ReadByte(s[k - 1], from + k - 1)
    IN  s[size - 1].to

(* Mistake: the bound of the loop is size. *)
CopyStringFromMachineLong(r, from, size) ==
    LET to == ReadString(from, size + 1)
    IN  [Access(r, {from + i : i \in {j \in 0..(size - 1) : j < Len(to)}})
            EXCEPT !.string = Append(to, NUL)]

CopyStringFromMachine(r, from, size) ==
    LET to == ReadString(from, size)
    IN  [Access(r, {from + i : i \in {j \in 0..(size - 2) : j < Len(to)}})
            EXCEPT !.string = Append(to, NUL)]

Put(m, a, c) == IF a \in Address THEN [m EXCEPT ![a] = c] ELSE m

(* A turn of the second loop, with the byte c for address a. *)
WriteByte(s, a, c) ==
    IF s.done \/ c = NUL THEN [s EXCEPT !.done = TRUE]
    ELSE [s EXCEPT !.mem = Put(@, a, c), !.i = @ + 1]

(* The user memory after the bytes of string before its NUL were written,    *)
(* and their number.                                                         *)
WriteString(string, to, size) ==
    LET s[k \in 0..(size - 1)] == IF k = 0 THEN [mem |-> mem, i |-> 0, done |-> FALSE]
                                  ELSE WriteByte(s[k - 1], to + k - 1, string[k])
    IN  s[size - 1]

(* Returns the thread and memory after the copy of string. *)
CopyStringToMachine(r, string, to, size) ==
    LET s == WriteString(string, to, size)
    IN  [mem |-> Put(s.mem, to + s.i, NUL),
         r   |-> Access(r, {to + i : i \in {j \in 0..(size - 1) : j <= s.i}})]

-----------------------------------------------------------------------------
(* Calls: the thread traps with the PC at the syscall instruction ... *)
Trap(t) == ~stopped /\ thr[t].at = "user" /\ calls < MaxCalls /\ calls' = calls + 1

Called(c) == [Running EXCEPT !.at = "service", !.call = c, !.moved = 0]

Enter(t, r) == thr' = [thr EXCEPT ![t] = r]

(* Calls that take a string: List goes on into Open, which takes one.  Write *)
(* takes a number of bytes too.                                              *)
CallWithString(t, c, from, n) ==
    /\ Trap(t)
    /\ Enter(t, CopyStringFromMachine([Called(c) EXCEPT !.addr = from, !.n = n], from,
                   IF c = "ForkExec" THEN MAX_EXEC_NAME_LEN ELSE MAX_STRING_SIZE))
    /\ UNCHANGED <<mem, UserSemaphores, heap, stopped>>

CallWithBuffer(t, c, to, n) ==
    /\ Trap(t)
    /\ Enter(t, [Called(c) EXCEPT !.addr = to, !.n = n])
    /\ UNCHANGED <<mem, UserSemaphores, heap, stopped>>

CallPlain(t, c) ==
    /\ Trap(t)
    /\ Enter(t, Called(c))
    /\ UNCHANGED <<mem, UserSemaphores, heap, stopped>>

(* A pid out of range is refused with -1 in r2, and then waited for all the  *)
(* same, with a result that replaces the -1.                                 *)
CallWaitPid(t, refused) ==
    /\ Trap(t)
    /\ Enter(t, [Called("WaitPid") EXCEPT !.r2 = IF refused THEN "result" ELSE "call"])
    /\ UNCHANGED <<mem, UserSemaphores, heap, stopped>>

CallNoReturn(t, c) ==
    /\ Trap(t)
    /\ Enter(t, [Called(c) EXCEPT !.at = "gone"])
    /\ stopped' = (c = "Halt")
    /\ UNCHANGED <<mem, UserSemaphores, heap>>

CallUnexpected(t) ==
    /\ Trap(t) /\ stopped' = TRUE
    /\ UNCHANGED <<mem, thr, UserSemaphores, heap>>

(* An exception of the program itself: the handler skips the instruction. *)
OtherException(t) ==
    /\ Trap(t)
    /\ Enter(t, UpdatePC([Called("none") EXCEPT !.at = "user"]))
    /\ UNCHANGED <<mem, UserSemaphores, heap, stopped>>

(* ... and goes on in user mode, with a result in r2 if the call has one.    *)
Resume(r) == UpdatePC([Running EXCEPT !.moved = r.moved, !.faults = r.faults,
                                      !.r2 = IF r.call \in GivesResult THEN "result" ELSE "call"])

InService(t, cs) == ~stopped /\ thr[t].at = "service" /\ thr[t].call \in cs

(* Write calls fileSystem->Read: the service puts up to n bytes of the file  *)
(* over string, which is dropped, and nothing into the file.                 *)
Return(t) ==
    /\ InService(t, TakesString \cup Plain \cup {"WaitPid"})
    /\ Enter(t, Resume(thr[t]))
    /\ UNCHANGED <<mem, UserSemaphores, heap, stopped, calls>>

Fetched(t, string) ==
    /\ Enter(t, [thr[t] EXCEPT !.at = "copy", !.string = string])
    /\ UNCHANGED <<mem, UserSemaphores, heap, stopped, calls>>

(* Read fills the first bytes of string, as many as the file has left; the   *)
(* others are whatever they were.                                            *)
FileRead(t) ==
    /\ InService(t, {"Read"}) /\ thr[t].n > 0
    /\ \E string \in [1..thr[t].n -> Byte] : Fetched(t, string)

(* SynchGetString reads up to n characters, and ends them with a NUL: with n *)
(* of them, at string[n], one past the array.                                *)
LineRead(t) ==
    /\ InService(t, {"GetString"}) /\ thr[t].n > 0
    /\ \E got \in 0..(IF thr[t].n = 1 THEN 0 ELSE thr[t].n) :
          Fetched(t, Append([i \in 1..got |-> 1], NUL))

(* The kernel goes past an array: with that NUL, with more bytes of a file   *)
(* than Write has room for, or with the locks of a pid out of range.  What   *)
(* it hits there may do no harm, as the other actions have it, or this.      *)
Astray == stopped' = TRUE /\ UNCHANGED <<mem, thr, UserSemaphores, heap>>

Overruns(t) ==
    /\ \/ InService(t, {"GetString"}) /\ thr[t].n > 1
       \/ InService(t, {"Write"}) /\ thr[t].n > MAX_STRING_SIZE
       \/ InService(t, {"WaitPid"}) /\ thr[t].r2 = "result"
    /\ Astray /\ UNCHANGED calls

(* With size 0, the bound size - 1 of the copy is the largest unsigned:      *)
(* whatever follows string is copied, up to a NUL.                           *)
NothingRead(t) ==
    /\ InService(t, FillsBuffer) /\ thr[t].n = 0
    /\ \E extra \in 0..MemSize : Fetched(t, Append([i \in 1..extra |-> 1], NUL))

CopyOut(t) ==
    /\ ~stopped /\ thr[t].at = "copy"
    /\ LET r == thr[t]
           s == CopyStringToMachine(r, r.string, r.addr, IF r.n = 0 THEN Len(r.string) ELSE r.n)
       IN  mem' = s.mem /\ Enter(t, Resume(s.r))
    /\ UNCHANGED <<UserSemaphores, heap, stopped, calls>>

(* GetInt writes a word, here one byte, that it read. *)
GetInt(t) ==
    /\ InService(t, {"GetInt"})
    /\ mem' = Put(mem, thr[t].addr, 1)
    /\ Enter(t, Resume(Access(thr[t], {thr[t].addr})))
    /\ UNCHANGED <<UserSemaphores, heap, stopped, calls>>

-----------------------------------------------------------------------------
(* User semaphores: the calls do not wait, but for SemWait. *)
SemCall(t, r2) ==
    Enter(t, UpdatePC([Called("Sem") EXCEPT !.at = "user", !.r2 = r2])) /\ UNCHANGED mem

Free == {i \in Sid : UserSemaphores[i] = NULL}

SemCreate(t, val) ==
    /\ Trap(t)
    /\ SemCall(t, "result")
    /\ \/ Free = {} /\ UNCHANGED <<heap, UserSemaphores>>
       \/ /\ Free # {}
          /\ heap' = Append(heap, [init |-> val, posts |-> 0, waits |-> 0, value |-> val,
                                   queue |-> <<>>, alive |-> TRUE])
          /\ \E i \in Free : /\ \A j \in Free : i <= j
                            /\ UserSemaphores' = [UserSemaphores EXCEPT ![i] = Len(heap')]
    /\ UNCHANGED stopped

(* sid is refused if it is negative, or above 64: with 64 the entry after    *)
(* the table is looked at, which may be anything.                            *)
BadSid(sid)     == sid < 0 \/ sid > NumSems \/ (sid \in Sid /\ UserSemaphores[sid] = NULL)
PastTable(sid)  == sid = NumSems

(* Mistake: return, where the code breaks out of the switch. *)
RefuseReturns(t) ==
    /\ Enter(t, [Called("Sem") EXCEPT !.at = "user", !.r2 = "result"])
    /\ UNCHANGED <<mem, UserSemaphores, heap, stopped>>

Refuse(t) == SemCall(t, "result") /\ UNCHANGED <<UserSemaphores, heap, stopped>>

SemPost(t, sid) ==
    /\ Trap(t)
    /\ \/ (BadSid(sid) \/ PastTable(sid)) /\ Refuse(t)
       \/ PastTable(sid) /\ Astray
       \/ /\ sid \in Sid /\ UserSemaphores[sid] # NULL
          /\ LET s     == UserSemaphores[sid]
                 woken == IF heap[s].queue = <<>> THEN {} ELSE {Head(heap[s].queue)}
             IN  /\ heap' = [heap EXCEPT ![s].queue = IF @ = <<>> THEN @ ELSE Tail(@),
                                         ![s].value = @ + 1, ![s].posts = @ + 1]
                 /\ thr' = [u \in Thread |->
                       IF u = t
                       THEN UpdatePC([Called("Sem") EXCEPT !.at = "user", !.r2 = "result"])
                       ELSE IF u \in woken THEN [thr[u] EXCEPT !.at = "woken"] ELSE thr[u]]
          /\ UNCHANGED <<mem, UserSemaphores, stopped>>

(* One turn of the loop of Semaphore::P: sleep, or take a unit. *)
SemP(t, s, r) ==
    \/ /\ heap[s].value = 0
       /\ heap' = [heap EXCEPT ![s].queue = Append(@, t)]
       /\ Enter(t, [r EXCEPT !.at = "asleep", !.sem = s])
    \/ /\ heap[s].value # 0
       /\ heap' = [heap EXCEPT ![s].value = @ - 1, ![s].waits = @ + 1]
       /\ Enter(t, UpdatePC([r EXCEPT !.at = "user", !.r2 = "result", !.sem = NULL]))

SemWait(t, sid) ==
    /\ Trap(t)
    /\ \/ (BadSid(sid) \/ PastTable(sid)) /\ Refuse(t)
       \/ PastTable(sid) /\ Astray
       \/ /\ sid \in Sid /\ UserSemaphores[sid] # NULL
          /\ SemP(t, UserSemaphores[sid], Called("Sem"))
          /\ UNCHANGED <<mem, UserSemaphores, stopped>>

(* Mistake: the thread that was woken takes the unit without looking again. *)
SemRetryNoLoop(t) ==
    LET s == thr[t].sem IN
    /\ ~stopped /\ thr[t].at = "woken" /\ UNCHANGED calls
    /\ heap' = [heap EXCEPT ![s].value = @ - 1, ![s].waits = @ + 1]
    /\ Enter(t, UpdatePC([thr[t] EXCEPT !.at = "user", !.r2 = "result", !.sem = NULL]))
    /\ UNCHANGED <<mem, UserSemaphores, stopped>>

(* A thread that V made ready looks at the value again, in an object that    *)
(* may have been deleted before it ran.                                      *)
SemRetry(t) ==
    LET s == thr[t].sem IN
    /\ ~stopped /\ thr[t].at = "woken" /\ UNCHANGED calls
    /\ \/ ~heap[s].alive /\ Astray
       \/ /\ heap[s].alive /\ SemP(t, s, thr[t])
          /\ UNCHANGED <<mem, UserSemaphores, stopped>>

(* Nothing is checked: neither sid, nor whether threads sleep on it. *)
SemDelete(t, sid) ==
    /\ Trap(t)
    /\ \/ sid \notin Sid /\ (Astray \/ (SemCall(t, "call") /\ UNCHANGED <<UserSemaphores, heap, stopped>>))
       \/ /\ sid \in Sid
          /\ heap' = [s \in DOMAIN heap |->
                        IF s = UserSemaphores[sid] THEN [heap[s] EXCEPT !.alive = FALSE] ELSE heap[s]]
          /\ UserSemaphores' = [UserSemaphores EXCEPT ![sid] = NULL]
          /\ SemCall(t, "call")
          /\ UNCHANGED stopped

-----------------------------------------------------------------------------
SyscallsNext ==
    \E t \in Thread :
        \/ \E c \in TakesString \ {"Write"}, from \in 0..MemSize : CallWithString(t, c, from, 0)
        \/ \E from \in 0..MemSize, n \in Sizes : CallWithString(t, "Write", from, n)
        \/ \E c \in FillsBuffer, to \in 0..MemSize, n \in Sizes : CallWithBuffer(t, c, to, n)
        \/ \E to \in 0..MemSize : CallWithBuffer(t, "GetInt", to, 1)
        \/ \E c \in Plain : CallPlain(t, c)
        \/ \E refused \in BOOLEAN : CallWaitPid(t, refused)
        \/ \E c \in NoReturn : CallNoReturn(t, c)
        \/ CallUnexpected(t) \/ OtherException(t)
        \/ Return(t) \/ FileRead(t) \/ LineRead(t) \/ NothingRead(t) \/ Overruns(t)
        \/ CopyOut(t) \/ GetInt(t)
        \/ \E val \in Values : SemCreate(t, val)
        \/ \E sid \in -1..(NumSems + 1) : SemPost(t, sid) \/ SemWait(t, sid) \/ SemDelete(t, sid)
        \/ SemRetry(t)

SyscallsSpec == SyscallsInit /\ [][SyscallsNext]_sysVars

-----------------------------------------------------------------------------
(* Correctness. *)

(* Whatever a call does, and however long it waits, UpdatePC has run exactly *)
(* once when the thread is back in user mode, and not at all before: no call *)
(* is made twice and no instruction is skipped.  Calls whose arguments are   *)
(* not mapped are left out: each byte the kernel cannot access moves the PC  *)
(* once more.                                                                *)
ResumesAtNext ==
    \A t \in Thread : thr[t].faults = 0 /\ thr[t].at # "gone" =>
        thr[t].moved = IF thr[t].at = "user" THEN 1 ELSE 0

(* The C string in a sequence of bytes. *)
Text(s) ==
    LET end == SelectInSeq(s, LAMBDA c : c = NUL)
    IN  IF end = 0 THEN s ELSE SubSeq(s, 1, end - 1)

Stored(m, a, n) == [i \in 1..Min({n, MemSize - a}) |-> m[a + i - 1]]

CopiedIn(r, r2) ==
    LET size == IF r2.call = "ForkExec" THEN MAX_EXEC_NAME_LEN ELSE MAX_STRING_SIZE IN
    r.at = "user" /\ r2.at = "service" /\ r2.call \in TakesString =>
        /\ Len(r2.string) <= size
        /\ r2.faults = 0 => Text(r2.string) = Text(Stored(mem, r2.addr, size - 1))

CopiedOut(r, r2) ==
    r.at = "copy" /\ r2.at = "user" /\ r.n > 0 =>
        /\ \A a \in Address \ r.addr..(r.addr + r.n - 1) : mem'[a] = mem[a]
        /\ r2.faults = 0 =>
              LET buffer == Stored(mem', r.addr, r.n) IN
              /\ Len(Text(buffer)) < r.n
              /\ Text(buffer) = Text(SubSeq(r.string, 1, Min({r.n - 1, Len(r.string)})))

(* A call works on the string that stands at its address, cut to the length  *)
(* of the kernel's buffer, which the copy never overruns (for PutString, see *)
(* PutStringWhole); what a call gives back starts with what was read, ends   *)
(* with a NUL within the caller's buffer, and changes no byte outside it,    *)
(* for every size but 0.  (SynchGetString does overrun the kernel's buffer   *)
(* before that copy: see LineFits.)                                          *)
StringsExact == [][\A t \in Thread : CopiedIn(thr[t], thr'[t]) /\ CopiedOut(thr[t], thr'[t])]_sysVars

Live           == {s \in DOMAIN heap : heap[s].alive}
On(s, where)   == {t \in Thread : thr[t].at = where /\ thr[t].sem = s}

(* A semaphore that was not deleted has one id, through which its units are  *)
(* neither lost nor made up; those that sleep on it are in its queue, and    *)
(* there only while no unit is left that a woken thread is not to take.      *)
SemaphoresKept ==
    /\ \A i \in Sid : UserSemaphores[i] # NULL => heap[UserSemaphores[i]].alive
    /\ \A s \in Live :
          /\ Cardinality({i \in Sid : UserSemaphores[i] = s}) = 1
          /\ heap[s].value = heap[s].init + heap[s].posts - heap[s].waits
          /\ ToSet(heap[s].queue) = On(s, "asleep")
          /\ heap[s].init >= 0 =>
                /\ heap[s].value >= 0
                /\ heap[s].queue # <<>> => heap[s].value <= Cardinality(On(s, "woken"))

(* syscall.h: "Read "size" bytes from the open file into "buffer"": the      *)
(* bytes that were read are in the caller's buffer when Read returns.  The code *)
(* does not keep it: the last byte gives way to a NUL.                       *)
ReadDelivers ==
    [][\A t \in Thread :
          thr[t].at = "copy" /\ thr[t].call = "Read" /\ thr[t].n > 0 /\ thr'[t].at = "user" /\ thr'[t].faults = 0 =>
              Stored(mem', thr[t].addr, thr[t].n) = thr[t].string]_sysVars

(* syscall.h: "There is no limit on the size of the string s": PutString     *)
(* shows the whole string at its address.  The code does not keep it: the    *)
(* string is cut to MAX_STRING_SIZE - 1 bytes.                               *)
PutStringWhole ==
    [][\A t \in Thread :
          thr[t].at = "user" /\ thr'[t].at = "service" /\ thr'[t].call = "PutString" /\ thr'[t].faults = 0 =>
              Text(thr'[t].string) = Text(Stored(mem, thr'[t].addr, MemSize))]_sysVars

(* synchconsole.h: SynchGetString is "Unix fgets(3S)", which puts at most n  *)
(* bytes into its buffer, the NUL included.  The code does not keep it: it   *)
(* reads up to n characters and puts a NUL behind them.                      *)
LineFits ==
    \A t \in Thread :
        thr[t].at = "copy" /\ thr[t].call = "GetString" /\ thr[t].n > 0 =>
            Len(thr[t].string) <= thr[t].n
=============================================================================
