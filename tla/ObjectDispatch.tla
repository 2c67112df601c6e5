--------------------------- MODULE ObjectDispatch ---------------------------
(***************************************************************************)
(* Exported objects and their properties (src/src/dbus/dbus_wrapper.cpp    *)
(* and .h: Connection, Object, Interface, Prop).                           *)
(*                                                                         *)
(* Setting a property stores the value, announces it and then runs the     *)
(* callback of the service, which may refuse by an exception and may set   *)
(* properties itself, the same one too, before it does.  Objects come and  *)
(* go while calls are on their way.  The frames of nested Set calls are a  *)
(* stack.  Handlers of methods belong to the services.                     *)
(***************************************************************************)
EXTENDS Naturals, Sequences, SequencesExt

CONSTANTS
  Objects,    \* object paths
  Props,      \* properties of every object
  ReadOnly,   \* those of them without a setter
  Values,     \* what they hold
  MaxDepth,   \* bound on the nesting of Set
  MaxCalls    \* bound on the calls clients make

VARIABLES
  registry,   \* _objectRegistry: the paths of the live objects
  value,      \* _value of each property
  announced,  \* what the last PropertiesChanged said of it, or the initial value
  stack,      \* the Set calls being executed, innermost last
  caller,     \* is the outermost one a client's?
  calls,      \* property calls of live objects so far
  replies     \* replies to them so far

objects == <<registry, value, announced>>
vars == <<objects, stack, caller, calls, replies>>

Initial == CHOOSE v \in Values : TRUE
Unknown == "unknown"

\* A call names an interface and a property that may not exist, and may carry a
\* value of another type.  Nobody answers for an object that is not there.
Calls == [kind : {"get", "set", "all"}, object : Objects,
          interface : BOOLEAN, prop : Props \cup {Unknown},
          value : Values, typed : BOOLEAN]

Init ==
  /\ registry = {} /\ value = [o \in Objects |-> [p \in Props |-> Initial]]
  /\ announced = value
  /\ stack = <<>> /\ caller = FALSE /\ calls = 0 /\ replies = 0
-----------------------------------------------------------------------------
(* Objects *)

\* A second object of a path would be an exception, and the first would stay.
Register(o) ==
  /\ o \notin registry
  /\ registry' = registry \cup {o}
  /\ value' = [value EXCEPT ![o] = [p \in Props |-> Initial]]
  /\ announced' = [announced EXCEPT ![o] = [p \in Props |-> Initial]]
  /\ UNCHANGED <<stack, caller, calls, replies>>

\* An object is not destroyed by a callback of its own.
Unregister(o) ==
  /\ o \in registry /\ \A i \in DOMAIN stack : stack[i].object # o
  /\ registry' = registry \ {o}
  /\ UNCHANGED <<value, announced, stack, caller, calls, replies>>
-----------------------------------------------------------------------------
(* Prop *)

\* Prop::Set: the value is stored and announced, and the callback begins.
Set(o, p, v) ==
  /\ value' = [value EXCEPT ![o][p] = v]
  /\ announced' = [announced EXCEPT ![o][p] = v]
  /\ stack' = Append(stack, [object |-> o, prop |-> p, value |-> v])

\* Mutant of Announce: it is announced once the callback has accepted it.
AnnounceAccepted(frame) ==
  announced' = [announced EXCEPT ![frame.object][frame.prop] = frame.value]

\* Nothing is announced after the callback.
Announce(frame) == UNCHANGED announced

\* The daemon assigns a property, by itself or in a callback.
Assign(o, p, v) ==
  /\ o \in registry /\ value[o][p] # v /\ Len(stack) < MaxDepth
  /\ Set(o, p, v)
  /\ UNCHANGED <<registry, caller, calls, replies>>
-----------------------------------------------------------------------------
(* Calls *)

\* The lookups of the interface and of the property and the check of the type.
Wrong(c) ==
  \/ ~c.interface
  \/ c.kind \in {"get", "set"} /\ c.prop = Unknown
  \/ c.kind = "set" /\ (c.prop \in ReadOnly \/ ~c.typed)

\* The call runs a callback.
Changes(c) == c.kind = "set" /\ ~Wrong(c) /\ value[c.object][c.prop] # c.value

\* Get, GetAll, a call that is wrong, and a set that changes nothing: the
\* reply or error is sent at once.
Immediate(c) ==
  /\ stack = <<>> /\ c.object \in registry /\ calls < MaxCalls
  /\ ~Changes(c)
  /\ calls' = calls + 1 /\ replies' = replies + 1
  /\ UNCHANGED <<objects, stack, caller>>

SetProperty(c) ==
  /\ stack = <<>> /\ c.object \in registry /\ calls < MaxCalls
  /\ Changes(c)
  /\ Set(c.object, c.prop, c.value)
  /\ calls' = calls + 1 /\ caller' = TRUE
  /\ UNCHANGED <<registry, replies>>

\* With the outermost callback of a call its reply is sent.
Answered(outermost) ==
  /\ replies' = IF outermost /\ caller THEN replies + 1 ELSE replies
  /\ caller' = (caller /\ ~outermost)

CallbackReturns ==
  /\ stack # <<>>
  /\ Announce(Last(stack))
  /\ stack' = Front(stack)
  /\ Answered(Len(stack) = 1)
  /\ UNCHANGED <<registry, value, calls>>

\* An exception ends all frames, and DispatchExceptionHandler makes it the
\* reply.  What the frames stored and announced stays.
CallbackThrows ==
  /\ stack # <<>>
  /\ stack' = <<>>
  /\ Answered(TRUE)
  /\ UNCHANGED <<objects, calls>>

\* A callback may also catch what a nested one throws.
CallbackCatches ==
  /\ Len(stack) > 1
  /\ stack' = Front(stack)
  /\ UNCHANGED <<objects, caller, calls, replies>>

Next ==
  \/ \E o \in Objects :
       \/ Register(o) \/ Unregister(o)
       \/ \E p \in Props, v \in Values : Assign(o, p, v)
  \/ \E c \in Calls : Immediate(c) \/ SetProperty(c)
  \/ CallbackReturns \/ CallbackThrows \/ CallbackCatches

Spec == Init /\ [][Next]_vars
-----------------------------------------------------------------------------
(* Properties *)

\* Every variable has its type.
TypeOK ==
  /\ registry \subseteq Objects
  /\ value \in [Objects -> [Props -> Values]]
  /\ announced \in [Objects -> [Props -> Values]]
  /\ caller \in BOOLEAN /\ calls \in 0 .. MaxCalls /\ replies \in 0 .. calls

\* When no callback runs, a client that follows PropertiesChanged knows every
\* property of every live object, and each property call was answered once,
\* however the callbacks nested, refused, caught and put values back.
AnnouncedIsValue ==
  stack = <<>> =>
    /\ \A o \in registry : announced[o] = value[o]
    /\ replies = calls
=============================================================================
