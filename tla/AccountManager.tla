--------------------------- MODULE AccountManager ---------------------------
(***************************************************************************)
(* Creating the initial user                                               *)
(* (src/src/services/account_manager/account_manager_service.cpp).         *)
(*                                                                         *)
(* The set-up program asks for a user with a password.  The daemon makes   *)
(* it in a sequence of blocking calls of the accounts service and edits of *)
(* /etc/group; a failed call may have taken effect, when only its answer   *)
(* came too late, and the daemon may be restarted between two of them.     *)
(* Other programs edit /etc/group too, each under the lock of the files.   *)
(***************************************************************************)
EXTENDS Naturals, FiniteSets

CONSTANTS
  Users,      \* names of users that may be created
  Groups,     \* USER_GROUPS, numbered in order
  Others,     \* users of other programs
  MaxFaults,  \* bound on the calls that fail
  MaxAdded    \* bound on the members other programs add

VARIABLES
  users,     \* the users of the accounts service and what is known of them
  groups,    \* /etc/group: the members of each group
  at,        \* the call that OnCreateInitialUserWithPassword makes next
  user,      \* its user
  group,     \* the group SetUserGroups deals with, and the members it read
  faults,    \* calls that failed so far
  misled,    \* history: a call failed and took effect, or the daemon restarted
  added,     \* history: memberships added by other programs
  raced      \* history: those of them added between the reading and the lock

request == <<at, user, group>>
history == <<added, raced>>
vars == <<users, groups, request, faults, misled, history>>

Nobody == "nobody"
NoGroup == [number |-> 0, read |-> {}]
FirstGroup == [number |-> 1, read |-> {}]

Init ==
  /\ users = [u \in {} |-> {}]
  /\ groups \in [Groups -> {{}}]
  /\ at = "idle" /\ user = Nobody /\ group = NoGroup
  /\ faults = 0 /\ misled = FALSE /\ added = {} /\ raced = {}
-----------------------------------------------------------------------------
(* Calls of the accounts service *)

With(u, facts) ==
  [v \in DOMAIN users \cup {u} |->
     (IF v \in DOMAIN users THEN users[v] ELSE {}) \cup (IF v = u THEN facts ELSE {})]
Without(u) == [v \in DOMAIN users \ {u} |-> users[v]]

\* A call of the sequence: it succeeds, fails, or fails and took effect.
Call(step, effect, ok, failed) ==
  /\ at = step
  /\ \/ users' = effect /\ at' = ok /\ UNCHANGED <<faults, misled>>
     \/ /\ faults < MaxFaults /\ faults' = faults + 1 /\ at' = failed
        /\ \/ UNCHANGED <<users, misled>>
           \/ users' = effect /\ misled' = TRUE
  /\ UNCHANGED <<groups, user, history>>

\* ListUsers has to be empty: it lists the users that were cached.
Begin(u) ==
  /\ at = "idle" /\ u \notin DOMAIN users
  /\ \A v \in DOMAIN users : "cached" \notin users[v]
  /\ at' = "create" /\ user' = u
  /\ UNCHANGED <<users, groups, group, faults, misled, history>>

CreateUser == Call("create", With(user, {}), "cache", "idle") /\ UNCHANGED group

\* A user that is not cached is only logged.
CacheUser ==
  /\ Call("cache", With(user, {"cached"}), "groups", "groups")
  /\ group' = FirstGroup

SetUserPassword ==
  /\ Call("password", With(user, {"password"}), "idle", "uid")
  /\ UNCHANGED group

\* Mutant of AfterFailure: a user without a password is left to the caller.
AfterFailureKeeps == "idle"

\* The user is removed again if its password was not set.
AfterFailure == "remove"

GetUid == Call("uid", users, AfterFailure, "idle") /\ UNCHANGED group
RemoveUser == Call("remove", Without(user), "idle", "idle") /\ UNCHANGED group
-----------------------------------------------------------------------------
(* AddUserToGroup, for one group after the other *)

NextGroup ==
  IF group.number + 1 \in Groups
  THEN /\ group' = [number |-> group.number + 1, read |-> {}]
       /\ at' = "groups"
  ELSE group' = NoGroup /\ at' = "password"

\* The group is read, without the lock.  One that does not exist, or that the
\* user is a member of, is skipped, and so is one for which anything fails.
ReadGroup ==
  /\ at = "groups"
  /\ \/ /\ user \notin groups[group.number]
        /\ group' = [group EXCEPT !.read = groups[group.number]]
        /\ at' = "write"
     \/ NextGroup
  /\ UNCHANGED <<users, groups, user, faults, misled, history>>

\* Mutant of Rewritten: the members of all groups are those read before.
RewrittenStale ==
  [g \in Groups |-> IF g = group.number THEN group.read \cup {user} ELSE group.read]

\* Under the lock the file is copied line by line, with this group's replaced.
Rewritten == [groups EXCEPT ![group.number] = group.read \cup {user}]

\* lckpwdf to rename; a failure leaves the file as it is.
WriteGroup ==
  /\ at = "write"
  /\ groups' = Rewritten \/ UNCHANGED groups
  /\ NextGroup
  /\ UNCHANGED <<users, user, faults, misled, history>>
-----------------------------------------------------------------------------
\* Another program adds a member.
OtherAdds(g, m) ==
  /\ m \notin groups[g] /\ Cardinality(added) < MaxAdded
  /\ groups' = [groups EXCEPT ![g] = @ \cup {m}]
  /\ added' = added \cup {<<g, m>>}
  /\ raced' = IF at = "write" /\ group.number = g THEN raced \cup {<<g, m>>} ELSE raced
  /\ UNCHANGED <<users, request, faults, misled>>

\* The daemon ends in the middle of a request and starts again.
Restart ==
  /\ at # "idle"
  /\ at' = "idle" /\ group' = NoGroup /\ misled' = TRUE
  /\ UNCHANGED <<users, groups, user, faults, history>>

Next ==
  \/ \E u \in Users : Begin(u)
  \/ CreateUser \/ CacheUser \/ ReadGroup \/ WriteGroup
  \/ SetUserPassword \/ GetUid \/ RemoveUser
  \/ \E g \in Groups, m \in Others : OtherAdds(g, m)
  \/ Restart

Spec == Init /\ [][Next]_vars
-----------------------------------------------------------------------------
(* Properties *)

Steps == {"idle", "create", "cache", "groups", "write", "password", "uid", "remove"}

\* Every variable has its type.
TypeOK ==
  /\ DOMAIN users \subseteq Users /\ at \in Steps
  /\ \A u \in DOMAIN users : users[u] \subseteq {"cached", "password"}
  /\ groups \in [Groups -> SUBSET (Users \cup Others)]
  /\ raced \subseteq added /\ group.number \in Groups \cup {0}

\* No user without a password is left behind by one failed call, whichever it
\* is, if its failure is true and the daemon goes on: a second failure, that of
\* the removal, is needed.
InitialUserComplete ==
  at = "idle" /\ faults <= 1 /\ ~misled => \A u \in DOMAIN users : "password" \in users[u]

\* What another program adds to /etc/group stays there, in the middle of
\* SetUserGroups too, except in the group being edited after it was read.
MembershipsKept == \A a \in added \ raced : a[2] \in groups[a[1]]
=============================================================================
