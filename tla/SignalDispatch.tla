--------------------------- MODULE SignalDispatch ---------------------------
(***************************************************************************)
(* Signal subscriptions on one connection (src/src/dbus/dbus_wrapper.cpp,  *)
(* Connection::HandleSignal and SignalSubscription).                       *)
(*                                                                         *)
(* The handlers of a key are a list of shared cells.  A subscription owns  *)
(* one slot of it; the first one adds the match rule to the bus, the last  *)
(* one to go removes it and the list.  A signal is dispatched to a copy of *)
(* the list, one callback after the other, and a callback may subscribe,   *)
(* end any subscription, its own too, and throw.                           *)
(*                                                                         *)
(* Everything runs in the thread of the main loop; the bus does not.       *)
(* Signals of a key are numbered in the order they are emitted.            *)
(***************************************************************************)
EXTENDS Naturals, Sequences, SequencesExt

CONSTANTS
  Keys,         \* interface, member and path
  Subs,         \* subscriptions the daemon may make, each once
  MaxSignals,   \* bound on the signals emitted, of each key
  MaxFailures   \* bound on the match rules the bus refuses

VARIABLES
  handlers,  \* _signalHandlers: the slots of each key, 0 for an empty one
  cell,      \* does the shared cell of a subscription hold its callback?
  sub,       \* each subscription: its key and slot, and whether it is active
  rules,     \* the keys whose match rule is on the bus
  queue,     \* signals the bus delivered, not yet dispatched
  dispatch,  \* the signal being dispatched and the cells left of the copy
  emitted,   \* signals emitted so far
  failures,  \* match rules refused so far
  heard,     \* history: the signals each callback was called with
  due        \* history: the signals it has to be called with

program == <<handlers, cell, sub, rules>>
bus == <<queue, emitted>>
vars == <<program, bus, dispatch, failures, heard, due>>

Slot == 0
NoSignal == [key |-> "none", number |-> 0, left |-> <<>>, inCallback |-> FALSE]
Unused == [state |-> "unused", key |-> "none", slot |-> Slot]

Init ==
  /\ handlers = [k \in Keys |-> <<>>] /\ rules = {}
  /\ cell = [s \in Subs |-> FALSE] /\ sub = [s \in Subs |-> Unused]
  /\ queue = <<>> /\ dispatch = NoSignal
  /\ emitted = [k \in Keys |-> 0] /\ failures = 0
  /\ heard = [s \in Subs |-> <<>>] /\ due = [s \in Subs |-> {}]
-----------------------------------------------------------------------------
Active(s) == sub[s].state = "active"

\* The signals of a key that wait to be dispatched.
Waiting(k) == {queue[i].number : i \in {j \in DOMAIN queue : queue[j].key = k}}

\* The signals a callback was called with.
Heard(s) == {heard[s][i] : i \in DOMAIN heard[s]}

\* The code of the services runs between signals and in callbacks.
InServices == dispatch = NoSignal \/ dispatch.inCallback

\* A key whose rule was refused keeps the slot of that subscription: no list
\* of one element, and no rule, ever follows.
Healthy(k) == \A s \in Subs : sub[s].state = "failed" => sub[s].key # k
-----------------------------------------------------------------------------
(* The bus *)

\* Signals no rule asks for are not sent to the daemon.
Emit(k) ==
  /\ emitted[k] < MaxSignals
  /\ emitted' = [emitted EXCEPT ![k] = @ + 1]
  /\ queue' = IF k \in rules
              THEN Append(queue, [key |-> k, number |-> emitted'[k]]) ELSE queue
  /\ due' = [s \in Subs |-> IF Active(s) /\ sub[s].key = k
                            THEN due[s] \cup {emitted'[k]} ELSE due[s]]
  /\ UNCHANGED <<program, dispatch, failures, heard>>
-----------------------------------------------------------------------------
(* Subscriptions *)

\* A new subscription takes the next slot.
Joins(k, s) == handlers' = [handlers EXCEPT ![k] = Append(@, s)]

\* SignalSubscription: slot first, then the rule if the list has one element.
\* The signals of the key that were delivered already are dispatched to it too.
Subscribe(s, k) ==
  /\ InServices /\ sub[s] = Unused
  /\ Joins(k, s)
  /\ rules' = IF Len(handlers'[k]) = 1 THEN rules \cup {k} ELSE rules
  /\ cell' = [cell EXCEPT ![s] = TRUE]
  /\ sub' = [sub EXCEPT ![s] = [state |-> "active", key |-> k, slot |-> Len(handlers'[k])]]
  /\ due' = [due EXCEPT ![s] = Waiting(k)]
  /\ UNCHANGED <<bus, dispatch, failures, heard>>

\* The bus refuses the rule, the constructor throws and the slot stays.
SubscribeFails(s, k) ==
  /\ InServices /\ sub[s] = Unused /\ handlers[k] = <<>> /\ failures < MaxFailures
  /\ Joins(k, s)
  /\ cell' = [cell EXCEPT ![s] = TRUE]
  /\ sub' = [sub EXCEPT ![s] = [state |-> "failed", key |-> k, slot |-> 1]]
  /\ failures' = failures + 1
  /\ UNCHANGED <<rules, bus, dispatch, heard, due>>

\* The list of the key without s, or none if it was the last one.
Emptied(s) ==
  LET list == [handlers[sub[s].key] EXCEPT ![sub[s].slot] = Slot]
  IN IF \A i \in DOMAIN list : list[i] = Slot THEN <<>> ELSE list

Ends(s) ==
  /\ InServices /\ Active(s)
  /\ LET k == sub[s].key
     IN /\ handlers' = [handlers EXCEPT ![k] = Emptied(s)]
        /\ rules' = IF Emptied(s) = <<>> THEN rules \ {k} ELSE rules
  /\ sub' = [sub EXCEPT ![s].state = "ended"]
  /\ due' = [due EXCEPT ![s] = Heard(s)]
  /\ UNCHANGED <<bus, dispatch, failures, heard>>

\* Mutant of Unsubscribe: the slot is emptied, the shared cell is not.
UnsubscribeSlotOnly(s) == Ends(s) /\ UNCHANGED cell

\* ~SignalSubscription: the cell is emptied for copies of the list as well.
Unsubscribe(s) ==
  /\ Ends(s)
  /\ cell' = [cell EXCEPT ![s] = FALSE]
-----------------------------------------------------------------------------
(* HandleSignal *)

\* The list is copied; a signal without a list is not handled here.
BeginSignal ==
  /\ dispatch = NoSignal /\ queue # <<>>
  /\ LET signal == Head(queue)
     IN dispatch' = IF handlers[signal.key] = <<>> THEN NoSignal
                    ELSE [key |-> signal.key, number |-> signal.number,
                          left |-> handlers[signal.key], inCallback |-> FALSE]
  /\ queue' = Tail(queue)
  /\ UNCHANGED <<program, emitted, failures, heard, due>>

\* An empty slot or cell is skipped.
NextHandler ==
  /\ dispatch # NoSignal /\ ~dispatch.inCallback /\ dispatch.left # <<>>
  /\ LET s == Head(dispatch.left)
         calls == s # Slot /\ cell[s]
     IN /\ dispatch' = [dispatch EXCEPT !.left = Tail(@), !.inCallback = calls]
        /\ heard' = IF calls THEN [heard EXCEPT ![s] = Append(@, dispatch.number)]
                    ELSE heard
  /\ UNCHANGED <<program, bus, failures, due>>

\* The callback returns or throws: the next one is called all the same.
CallbackReturns ==
  /\ dispatch.inCallback
  /\ dispatch' = [dispatch EXCEPT !.inCallback = FALSE]
  /\ UNCHANGED <<program, bus, failures, heard, due>>

EndSignal ==
  /\ dispatch # NoSignal /\ ~dispatch.inCallback /\ dispatch.left = <<>>
  /\ dispatch' = NoSignal
  /\ UNCHANGED <<program, bus, failures, heard, due>>

Next ==
  \/ \E k \in Keys :
       \/ Emit(k)
       \/ \E s \in Subs : Subscribe(s, k) \/ SubscribeFails(s, k)
  \/ \E s \in Subs : Unsubscribe(s)
  \/ BeginSignal \/ NextHandler \/ CallbackReturns \/ EndSignal

Spec == Init /\ [][Next]_vars
-----------------------------------------------------------------------------
(* Properties *)

\* Every variable has its type.
TypeOK ==
  /\ \A k \in Keys : \A i \in DOMAIN handlers[k] : handlers[k][i] \in Subs \cup {Slot}
  /\ cell \in [Subs -> BOOLEAN] /\ rules \subseteq Keys
  /\ \A s \in Subs : sub[s].state \in {"unused", "active", "failed", "ended"}

\* The signals an active subscription will be called with.
ToCome(s) ==
  (IF dispatch # NoSignal /\ Contains(dispatch.left, s) THEN {dispatch.number} ELSE {})
    \cup Waiting(sub[s].key)

\* A subscription hears every signal emitted while it exists, once and in
\* order, whatever the callbacks before it do, and none after its end, which
\* may come in the middle of a dispatch.  The key's rule was never refused.
SignalsDelivered ==
  \A s \in Subs :
    /\ \A i, j \in DOMAIN heard[s] : i < j => heard[s][i] < heard[s][j]
    /\ Active(s) /\ Healthy(sub[s].key) =>
         /\ Heard(s) \cup ToCome(s) = due[s]
         /\ \A m \in Heard(s), n \in ToCome(s) : m < n
    /\ sub[s].state = "ended" => Heard(s) = due[s]
=============================================================================
