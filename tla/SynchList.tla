----------------------------- MODULE SynchList -----------------------------
(***************************************************************************)
(* SynchList of threads/synchlist.cc, the monitor under the mailboxes of   *)
(* the post office: a list, the lock that guards it and the condition      *)
(* listEmpty.  Its code is cut at its calls of Lock and Condition, which   *)
(* are those of LockCond.                                                  *)
(***************************************************************************)
EXTENDS LockCond, Sequences

CONSTANTS Item, NULL,
          MaxItems      \* bound on the items listed or being appended

ASSUME ItemAssumption == NULL \notin Item /\ MaxItems \in Nat

VARIABLES
    list,               \* SynchList::list
    op,                 \* the operation the thread is inside
    item                \* what its last Remove took off the list

listVars == <<list, op, item>>
synchListVars == <<lockVars, listVars>>

SynchListInit ==
    /\ LockInit
    /\ list = <<>>
    /\ op = [t \in Thread |-> "none"]
    /\ item = [t \in Thread |-> NULL]

(* List::Remove gives NULL when there is nothing to remove. *)
Removed == IF list = <<>> THEN NULL ELSE Head(list)
Rest    == IF list = <<>> THEN <<>> ELSE Tail(list)

Appending == {t \in Thread : op[t] = "append"}

(* Every operation begins with lock->Acquire. *)
Enter(t, o) ==
    /\ op[t] = "none"
    /\ Acquire(t)
    /\ op' = [op EXCEPT ![t] = o]
    /\ UNCHANGED <<list, item>>

(* ... and ends with lock->Release. *)
Leave(t) ==
    /\ Release(t)
    /\ op' = [op EXCEPT ![t] = "none"]

AppendCall(t) == Len(list) + Cardinality(Appending) < MaxItems /\ Enter(t, "append")

(* Mistake: Append signals only when the list was empty. *)
AppendSignalsFirst(t) ==
    /\ op[t] = "append"
    /\ IF list = <<>> THEN Call(t, "in", "signal1") ELSE pc[t] = "in" /\ UNCHANGED lockVars
    /\ \E i \in Item : list' = Append(list, i)
    /\ op' = [op EXCEPT ![t] = "appended"]
    /\ UNCHANGED item

AppendBody(t) ==
    /\ op[t] = "append"
    /\ Call(t, "in", "signal1")
    /\ \E i \in Item : list' = Append(list, i)
    /\ op' = [op EXCEPT ![t] = "appended"]
    /\ UNCHANGED item

AppendReturn(t) ==
    /\ op[t] = "appended"
    /\ Leave(t)
    /\ UNCHANGED <<list, item>>

RemoveCall(t) == Enter(t, "remove")

(* Mistake: "if" for "while": a woken consumer does not test the list again. *)
RemoveIf(t) ==
    \/ /\ op[t] = "remove" /\ list = <<>> /\ item[t] = NULL
       /\ Wait(t)
       /\ item' = [item EXCEPT ![t] = CHOOSE i \in Item : TRUE]   \* it has waited
       /\ UNCHANGED <<list, op>>
    \/ /\ op[t] = "remove" /\ (list # <<>> \/ item[t] # NULL)
       /\ Leave(t)
       /\ item' = [item EXCEPT ![t] = Removed]
       /\ list' = Rest

(* The loop of Remove, at its start and each time Wait returns. *)
RemoveBody(t) ==
    /\ op[t] = "remove"
    /\ IF list = <<>>
       THEN Wait(t) /\ UNCHANGED listVars
       ELSE /\ Leave(t)
            /\ item' = [item EXCEPT ![t] = Removed]
            /\ list' = Rest

MapcarCall(t) == Enter(t, "mapcar")

MapcarBody(t) ==
    /\ op[t] = "mapcar"
    /\ Leave(t)
    /\ UNCHANGED <<list, item>>

SynchListNext ==
    \/ \E t \in Thread : \/ KernelStep(t) /\ UNCHANGED listVars
                         \/ AppendCall(t) \/ AppendBody(t) \/ AppendReturn(t)
                         \/ RemoveCall(t) \/ RemoveBody(t)
                         \/ MapcarCall(t) \/ MapcarBody(t)
    \/ AllAsleep /\ UNCHANGED listVars

SynchListSpec == SynchListInit /\ [][SynchListNext]_synchListVars

-----------------------------------------------------------------------------

(* Consumers that will test the list again without further help: those       *)
(* inside Remove but not, or no longer, inside Wait.                         *)
Consumers == {t \in Thread : op[t] = "remove" /\ t \notin Waiting /\ pc[t] # "wait1"}

(* Producers that have put their item on the list and not yet given the unit *)
(* of sleepLock that goes with it.                                           *)
Signalling == {t \in Thread : op[t] = "appended" /\ pc[t] \in {"signal1", "signal2"}}

(* No item is forgotten: while a consumer is left asleep in Remove, every    *)
(* item on the list has a consumer awake to take it, or a unit of sleepLock  *)
(* or a Signal on its way to wake one.  It holds wherever Append falls       *)
(* between a consumer's test of the list and its sleep.                      *)
ItemsHaveTakers ==
    totalSleepers > Cardinality(Paying) =>
        Len(list) <= Cardinality(Consumers) + value["sleepLock"] + Cardinality(Signalling)

(* ASSERT (item != NULL) of Remove: a woken consumer finds an item even if   *)
(* another one came first, because it tests the list again.                  *)
RemoveGetsItem ==
    [][\A t \in Thread : op[t] = "remove" /\ op'[t] = "none" => item'[t] # NULL]_listVars
=============================================================================
