----------------------------- MODULE DaemonProofs -----------------------------
(***************************************************************************)
(* Proofs about the parts of Daemon that its run checks, for any values of *)
(* the constants.  A step of the daemon is a step of the part that moves   *)
(* and changes nothing of the others, so that each part has the behaviours *)
(* of its own module, and what is invariant there is invariant here.       *)
(***************************************************************************)
EXTENDS Daemon, SequenceTheorems, TLAPS

-----------------------------------------------------------------------------
(* The parts *)

\* Whichever part moves, each of these makes a step of its own or none.
LEMMA Parts ==
  /\ InitAll => /\ Account!Init /\ Power!Init /\ Locale!Init /\ Access!Init
                 /\ Object!Init /\ Signal!Init
  /\ [NextAll]_allVars => [Account!Next]_(Account!vars)
  /\ [NextAll]_allVars => [Power!Next]_(Power!vars)
  /\ [NextAll]_allVars => [Locale!Next]_(Locale!vars)
  /\ [NextAll]_allVars => [Access!Next]_(Access!vars)
  /\ [NextAll]_allVars => [Object!Next]_(Object!vars)
  /\ [NextAll]_allVars => [Signal!Next]_(Signal!vars)
<1>1. InitAll => /\ Account!Init /\ Power!Init /\ Locale!Init /\ Access!Init
                 /\ Object!Init /\ Signal!Init
  BY DEF InitAll
<1>2. [NextAll]_allVars => [Account!Next]_(Account!vars)
  <2>1. UNCHANGED accountVars => UNCHANGED Account!vars
    BY DEF accountVars, Account!vars, Account!request, Account!history
  <2>2. [NextAll]_allVars => Account!Next \/ UNCHANGED accountVars
    BY DEF NextAll, InLoop, MoveAudio, MoveSignal, MoveObject, MoveDisk, MoveAccount,
           MovePower, MoveLocale, MoveAccess, MoveEthernet, allVars, others
  <2> QED
    BY <2>1, <2>2
<1>3. [NextAll]_allVars => [Power!Next]_(Power!vars)
  <2>1. UNCHANGED powerVars => UNCHANGED Power!vars
    BY DEF powerVars, Power!vars
  <2>2. [NextAll]_allVars => Power!Next \/ UNCHANGED powerVars
    BY DEF NextAll, InLoop, MoveAudio, MoveSignal, MoveObject, MoveDisk, MoveAccount,
           MovePower, MoveLocale, MoveAccess, MoveEthernet, allVars, others
  <2> QED
    BY <2>1, <2>2
<1>4. [NextAll]_allVars => [Locale!Next]_(Locale!vars)
  <2>1. UNCHANGED localeVars => UNCHANGED Locale!vars
    BY DEF localeVars, Locale!vars
  <2>2. [NextAll]_allVars => Locale!Next \/ UNCHANGED localeVars
    BY DEF NextAll, InLoop, MoveAudio, MoveSignal, MoveObject, MoveDisk, MoveAccount,
           MovePower, MoveLocale, MoveAccess, MoveEthernet, allVars, others
  <2> QED
    BY <2>1, <2>2
<1>5. [NextAll]_allVars => [Access!Next]_(Access!vars)
  <2>1. UNCHANGED accessVars => UNCHANGED Access!vars
    BY DEF accessVars, Access!vars, Access!service
  <2>2. [NextAll]_allVars => Access!Next \/ UNCHANGED accessVars
    BY DEF NextAll, InLoop, MoveAudio, MoveSignal, MoveObject, MoveDisk, MoveAccount,
           MovePower, MoveLocale, MoveAccess, MoveEthernet, allVars, others
  <2> QED
    BY <2>1, <2>2
<1>6. [NextAll]_allVars => [Object!Next]_(Object!vars)
  <2>1. UNCHANGED objectVars => UNCHANGED Object!vars
    BY DEF objectVars, Object!vars, Object!objects
  <2>2. [NextAll]_allVars => Object!Next \/ UNCHANGED objectVars
    BY DEF NextAll, InLoop, MoveAudio, MoveSignal, MoveObject, MoveDisk, MoveAccount,
           MovePower, MoveLocale, MoveAccess, MoveEthernet, allVars, others
  <2> QED
    BY <2>1, <2>2
<1>7. [NextAll]_allVars => [Signal!Next]_(Signal!vars)
  <2>1. UNCHANGED signalVars => UNCHANGED Signal!vars
    BY DEF signalVars, Signal!vars, Signal!program, Signal!bus
  <2>2. [NextAll]_allVars => Signal!Next \/ UNCHANGED signalVars
    BY DEF NextAll, InLoop, MoveAudio, MoveSignal, MoveObject, MoveDisk, MoveAccount,
           MovePower, MoveLocale, MoveAccess, MoveEthernet, allVars, others
  <2> QED
    BY <2>1, <2>2
<1> QED
  BY <1>1, <1>2, <1>3, <1>4, <1>5, <1>6, <1>7
-----------------------------------------------------------------------------
(* No initial user without a password *)

\* A user without a password is the one of the request, after its creation and
\* before its end, or a second call has failed.  The removal is reached by a
\* failure only.
UserUnfinished(u) == u = user /\ at \notin {"idle", "create"}

OneRecovers ==
  /\ faults \in Nat
  /\ at \in {"uid", "remove"} => faults >= 1
  /\ ~misled => \A u \in DOMAIN users :
       "password" \in users[u] \/ UserUnfinished(u) \/ faults >= 2

\* At first there are no users, and nothing has failed.
LEMMA OneRecoversInit == Account!Init => OneRecovers
  BY DEF Account!Init, OneRecovers

\* A user is created, or not, or the daemon goes down with the user made.
LEMMA CreateRecovers == OneRecovers /\ Account!CreateUser => OneRecovers'
<1> SUFFICES ASSUME OneRecovers, Account!CreateUser PROVE OneRecovers'
  OBVIOUS
<1>1. CASE users' = Account!With(user, {}) /\ at' = "cache" /\ UNCHANGED <<faults, misled>>
  <2>1. \A v \in DOMAIN users' : v # user => v \in DOMAIN users /\ users'[v] = users[v]
    BY <1>1 DEF Account!With
  <2>2. user' = user /\ at = "create"
    BY DEF Account!CreateUser, Account!Call
  <2> QED
    BY <1>1, <2>1, <2>2 DEF OneRecovers, UserUnfinished
<1>2. CASE faults' = faults + 1 /\ at' = "idle" /\ UNCHANGED <<users, misled>>
  <2>1. user' = user /\ at = "create"
    BY DEF Account!CreateUser, Account!Call
  <2> QED
    BY <1>2, <2>1 DEF OneRecovers, UserUnfinished
<1>3. CASE faults' = faults + 1 /\ at' = "idle" /\ misled'
  BY <1>3 DEF OneRecovers
<1> QED
  BY <1>1, <1>2, <1>3 DEF Account!CreateUser, Account!Call

\* The user that was created is known, or the call has failed a first time.
LEMMA CacheRecovers == OneRecovers /\ Account!CacheUser => OneRecovers'
<1> SUFFICES ASSUME OneRecovers, Account!CacheUser PROVE OneRecovers'
  OBVIOUS
<1>0. user' = user /\ at = "cache" /\ at' = "groups"
  BY DEF Account!CacheUser, Account!Call
<1>1. CASE users' = Account!With(user, {"cached"}) /\ UNCHANGED <<faults, misled>>
  <2>1. \A v \in DOMAIN users' : v # user => v \in DOMAIN users /\ users'[v] = users[v]
    BY <1>1 DEF Account!With
  <2> QED
    BY <1>0, <1>1, <2>1 DEF OneRecovers, UserUnfinished
<1>2. CASE faults' = faults + 1 /\ UNCHANGED <<users, misled>>
  BY <1>0, <1>2 DEF OneRecovers, UserUnfinished
<1>3. CASE faults' = faults + 1 /\ misled'
  BY <1>0, <1>3 DEF OneRecovers
<1> QED
  BY <1>1, <1>2, <1>3 DEF Account!CacheUser, Account!Call

\* The user has a password, or it is removed next.
LEMMA PasswordRecovers == OneRecovers /\ Account!SetUserPassword => OneRecovers'
<1> SUFFICES ASSUME OneRecovers, Account!SetUserPassword PROVE OneRecovers'
  OBVIOUS
<1>0. user' = user /\ at = "password"
  BY DEF Account!SetUserPassword, Account!Call
<1>1. CASE users' = Account!With(user, {"password"}) /\ at' = "idle" /\ UNCHANGED <<faults, misled>>
  <2>1. \A v \in DOMAIN users' : v # user => v \in DOMAIN users /\ users'[v] = users[v]
    BY <1>1 DEF Account!With
  <2>2. user \in DOMAIN users' => "password" \in users'[user]
    BY <1>1 DEF Account!With
  <2> QED
    BY <1>0, <1>1, <2>1, <2>2 DEF OneRecovers, UserUnfinished
<1>2. CASE faults' = faults + 1 /\ at' = "uid" /\ UNCHANGED <<users, misled>>
  BY <1>0, <1>2 DEF OneRecovers, UserUnfinished
<1>3. CASE faults' = faults + 1 /\ at' = "uid" /\ misled'
  BY <1>0, <1>3 DEF OneRecovers
<1> QED
  BY <1>1, <1>2, <1>3 DEF Account!SetUserPassword, Account!Call

\* A failure of GetUid or of the removal is the second one.
LEMMA UidRecovers == OneRecovers /\ Account!GetUid => OneRecovers'
<1> SUFFICES ASSUME OneRecovers, Account!GetUid PROVE OneRecovers'
  OBVIOUS
<1>0. user' = user /\ at = "uid" /\ users' = users
  BY DEF Account!GetUid, Account!Call
<1>1. CASE at' = "remove" /\ UNCHANGED <<faults, misled>>
  BY <1>0, <1>1 DEF OneRecovers, UserUnfinished
<1>2. CASE faults' = faults + 1 /\ at' = "idle"
  BY <1>0, <1>2 DEF OneRecovers, UserUnfinished
<1> QED
  BY <1>1, <1>2 DEF Account!GetUid, Account!Call, Account!AfterFailure

\* The removal is the second call that may fail.
LEMMA RemoveRecovers == OneRecovers /\ Account!RemoveUser => OneRecovers'
<1> SUFFICES ASSUME OneRecovers, Account!RemoveUser PROVE OneRecovers'
  OBVIOUS
<1>0. user' = user /\ at = "remove" /\ at' = "idle"
  BY DEF Account!RemoveUser, Account!Call
<1>1. CASE users' = Account!Without(user) /\ UNCHANGED <<faults, misled>>
  <2>1. \A v \in DOMAIN users' : v # user /\ v \in DOMAIN users /\ users'[v] = users[v]
    BY <1>1 DEF Account!Without
  <2> QED
    BY <1>0, <1>1, <2>1 DEF OneRecovers, UserUnfinished
<1>2. CASE faults' = faults + 1
  BY <1>0, <1>2 DEF OneRecovers
<1> QED
  BY <1>1, <1>2 DEF Account!RemoveUser, Account!Call

\* Every step of the account manager keeps it.
LEMMA OneRecoversStep == OneRecovers /\ [Account!Next]_(Account!vars) => OneRecovers'
<1> SUFFICES ASSUME OneRecovers, [Account!Next]_(Account!vars) PROVE OneRecovers'
  OBVIOUS
<1>1. ASSUME NEW u \in NewUsers, Account!Begin(u) PROVE OneRecovers'
  BY <1>1 DEF Account!Begin, OneRecovers, UserUnfinished
<1>2. CASE Account!ReadGroup
  BY <1>2 DEF Account!ReadGroup, Account!NextGroup, OneRecovers, UserUnfinished
<1>3. CASE Account!WriteGroup
  BY <1>3 DEF Account!WriteGroup, Account!NextGroup, OneRecovers, UserUnfinished
<1>4. ASSUME NEW g \in Groups, NEW m \in Others, Account!OtherAdds(g, m) PROVE OneRecovers'
  BY <1>4 DEF Account!OtherAdds, Account!request, OneRecovers, UserUnfinished
<1>5. CASE Account!Restart
  BY <1>5 DEF Account!Restart, OneRecovers
<1>6. CASE UNCHANGED Account!vars
  BY <1>6 DEF Account!vars, Account!request, OneRecovers, UserUnfinished
<1> QED
  BY <1>1, <1>2, <1>3, <1>4, <1>5, <1>6, CreateRecovers, CacheRecovers,
     PasswordRecovers, UidRecovers, RemoveRecovers DEF Account!Next

\* One failed call leaves no user without a password, whichever call it is and
\* however many users, groups and failures there are, if its failure is true
\* and the daemon goes on (OnCreateInitialUserWithPassword).
THEOREM InitialUser == SpecAll => []InitialUserComplete
<1>1. OneRecovers => InitialUserComplete
  BY DEF OneRecovers, UserUnfinished, Account!InitialUserComplete, InitialUserComplete
<1> QED
  BY <1>1, Parts, OneRecoversInit, OneRecoversStep, PTL DEF SpecAll
-----------------------------------------------------------------------------
(* What other programs add to /etc/group *)

\* What was added and not in the race is in the file, and in what was read of
\* the group that is about to be written.
ReadNothingStale ==
  at = "write" => \A a \in added \ raced : a[1] = group.number => a[2] \in group.read

GroupRead == group = [number |-> group.number, read |-> group.read]

Kept ==
  /\ GroupRead /\ added \subseteq Groups \X Others /\ DOMAIN groups = Groups
  /\ Account!MembershipsKept /\ ReadNothingStale

\* At first no member has been added.
LEMMA KeptInit == Account!Init => Kept
  BY DEF Account!Init, Kept, GroupRead, Account!NoGroup, Account!MembershipsKept, ReadNothingStale

\* The next group is read before it is written.
LEMMA NextGroupRead == Account!NextGroup => GroupRead' /\ at' # "write"
  BY DEF Account!NextGroup, GroupRead, Account!NoGroup

\* What is read of a group are its members, until it is written.
LEMMA ReadKeeps == Kept /\ Account!ReadGroup => Kept'
<1> SUFFICES ASSUME Kept, Account!ReadGroup PROVE Kept'
  OBVIOUS
<1>0. UNCHANGED <<groups, added, raced>>
  BY DEF Account!ReadGroup, Account!history
<1>1. CASE group' = [group EXCEPT !.read = groups[group.number]]
  <2>1. GroupRead' /\ group'.number = group.number /\ group'.read = groups[group.number]
    BY <1>1 DEF Kept, GroupRead
  <2> QED
    BY <1>0, <2>1 DEF Kept, Account!MembershipsKept, ReadNothingStale
<1>2. CASE Account!NextGroup
  BY <1>0, <1>2, NextGroupRead DEF Kept, Account!MembershipsKept, ReadNothingStale
<1> QED
  BY <1>1, <1>2 DEF Account!ReadGroup

\* What is written are the members read, and only those that raced with it are lost.
LEMMA WriteKeeps == Kept /\ Account!WriteGroup => Kept'
<1> SUFFICES ASSUME Kept, Account!WriteGroup PROVE Kept'
  OBVIOUS
<1>0. at = "write" /\ at' # "write" /\ GroupRead' /\ UNCHANGED <<added, raced>>
  BY NextGroupRead DEF Account!WriteGroup, Account!history
<1>1. DOMAIN groups' = Groups
  BY DEF Kept, Account!WriteGroup, Account!Rewritten
<1>2. ASSUME NEW a \in added \ raced PROVE a[2] \in groups'[a[1]]
  <2>1. a[1] \in Groups /\ a[2] \in groups[a[1]]
    BY DEF Kept, Account!MembershipsKept
  <2>2. a[1] = group.number => a[2] \in group.read
    BY <1>0 DEF Kept, ReadNothingStale
  <2> QED
    BY <2>1, <2>2 DEF Kept, Account!WriteGroup, Account!Rewritten
<1> QED
  BY <1>0, <1>1, <1>2 DEF Kept, Account!MembershipsKept, ReadNothingStale

\* Another program adds a member: it races if the group was read already.
LEMMA OtherKeeps ==
  ASSUME NEW g \in Groups, NEW m \in Others, Kept, Account!OtherAdds(g, m)
  PROVE  Kept'
<1>0. added' = added \cup {<<g, m>>} /\ at' = at /\ group' = group /\ raced \subseteq raced'
  BY DEF Account!OtherAdds, Account!request
<1>1. DOMAIN groups' = Groups /\ added' \subseteq Groups \X Others
  BY <1>0 DEF Kept, Account!OtherAdds
<1>2. m \in groups'[g] /\ \A h \in Groups : groups[h] \subseteq groups'[h]
  BY DEF Kept, Account!OtherAdds
<1>3. Account!MembershipsKept'
  BY <1>0, <1>1, <1>2 DEF Kept, Account!MembershipsKept
<1>4. at = "write" /\ group.number = g => <<g, m>> \in raced'
  BY DEF Account!OtherAdds
<1>5. ReadNothingStale'
  BY <1>0, <1>4 DEF Kept, ReadNothingStale
<1> QED
  BY <1>0, <1>1, <1>3, <1>5 DEF Kept, GroupRead

\* Every other step leaves the file alone, and none of them begins a write.
LEMMA OthersKeep ==
  ASSUME Kept, UNCHANGED <<groups, Account!history>>,
         \/ at' # "write" /\ group' \in {group, Account!FirstGroup, Account!NoGroup}
         \/ UNCHANGED <<at, group>>
  PROVE  Kept'
  BY DEF Kept, GroupRead, Account!FirstGroup, Account!NoGroup, Account!MembershipsKept, ReadNothingStale, Account!history

\* Every step of the account manager keeps the memberships.
LEMMA KeptStep == Kept /\ [Account!Next]_(Account!vars) => Kept'
<1> SUFFICES ASSUME Kept, [Account!Next]_(Account!vars) PROVE Kept'
  OBVIOUS
<1>1. ASSUME NEW u \in NewUsers, Account!Begin(u) PROVE Kept'
  BY <1>1, OthersKeep DEF Account!Begin
<1>2. CASE Account!CreateUser
  BY <1>2, OthersKeep DEF Account!CreateUser, Account!Call
<1>3. CASE Account!CacheUser
  BY <1>3, OthersKeep DEF Account!CacheUser, Account!Call
<1>4. CASE Account!SetUserPassword
  BY <1>4, OthersKeep DEF Account!SetUserPassword, Account!Call
<1>5. CASE Account!GetUid
  BY <1>5, OthersKeep DEF Account!GetUid, Account!Call, Account!AfterFailure
<1>6. CASE Account!RemoveUser
  BY <1>6, OthersKeep DEF Account!RemoveUser, Account!Call
<1>7. ASSUME NEW g \in Groups, NEW m \in Others, Account!OtherAdds(g, m) PROVE Kept'
  BY <1>7, OtherKeeps
<1>8. CASE Account!Restart
  BY <1>8, OthersKeep DEF Account!Restart
<1>9. CASE UNCHANGED Account!vars
  BY <1>9, OthersKeep DEF Account!vars, Account!request
<1> QED
  BY <1>1, <1>2, <1>3, <1>4, <1>5, <1>6, <1>7, <1>8, <1>9, ReadKeeps, WriteKeeps DEF Account!Next

\* A member that another program adds to a group stays in it, but for the group
\* that SetUserGroups is editing and has read (AddUserToGroup), for any groups
\* and users and however many are added.
THEOREM OthersStay == SpecAll => []MembershipsKept
<1>1. Kept => MembershipsKept
  BY DEF Kept, MembershipsKept
<1> QED
  BY <1>1, Parts, KeptInit, KeptStep, PTL DEF SpecAll
-----------------------------------------------------------------------------
(* The batteries *)

\* What the signals on the way will leave of a battery: the last one of it says
\* whether UPower has it, and without one the service knows.
LastOf(i, d) ==
  /\ upowerQueue[i][2] = d
  /\ \A j \in i + 1 .. Len(upowerQueue) : upowerQueue[j][2] # d
Reported(d) ==
  \A i \in 1 .. Len(upowerQueue) :
    LastOf(i, d) => (upowerQueue[i][1] = "added" <=> d \in upower)
Followed(d) ==
  (\A i \in 1 .. Len(upowerQueue) : upowerQueue[i][2] # d) =>
    (d \in devices <=> d \in upower)

PowerInv ==
  /\ upower \subseteq Batteries /\ devices \subseteq told
  /\ upowerQueue \in Seq({"added", "removed"} \X Batteries)
  /\ state \in {"new", "discovered", "ready", "closed"}
  /\ state # "ready" => Len(upowerQueue) = 0
  /\ state = "discovered" => \A d \in Batteries \ missed : d \in devices <=> d \in upower
  /\ state = "ready" => /\ \A d \in Batteries : Reported(d)
                        /\ \A d \in Batteries \ missed : Followed(d)

\* At first nothing was discovered, told or missed.
LEMMA PowerInit == Power!Init => PowerInv
<1> SUFFICES ASSUME Power!Init PROVE PowerInv
  OBVIOUS
<1>1. << >> \in Seq({"added", "removed"} \X Batteries) /\ Len(<< >>) = 0
  OBVIOUS
<1> QED
  BY <1>1 DEF Power!Init, PowerInv

\* A battery that comes or goes is reported, or missed, or found by the query.
LEMMA PowerReports ==
  ASSUME PowerInv, NEW d \in Batteries, NEW what \in {"added", "removed"},
         upower' = IF what = "added" THEN upower \cup {d} ELSE upower \ {d},
         Power!Reports(what, d)
  PROVE  PowerInv'
<1>1. UNCHANGED <<devices, state, told>>
  BY DEF Power!Reports
<1>2. CASE state = "ready"
  <2> DEFINE q == upowerQueue
  <2>1. upowerQueue' = Append(q, <<what, d>>) /\ missed' = missed
    BY <1>2 DEF Power!Reports
  <2>2. q \in Seq({"added", "removed"} \X Batteries)
    BY DEF PowerInv
  <2>3. Len(q) \in Nat /\ Len(upowerQueue') = Len(q) + 1
    BY <2>1, <2>2
  <2>4. upowerQueue'[Len(q) + 1] = <<what, d>>
    BY <2>1, <2>2
  <2>5. \A i \in 1 .. Len(q) : upowerQueue'[i] = q[i]
    BY <2>1, <2>2
  <2>6. upowerQueue' \in Seq({"added", "removed"} \X Batteries)
    BY <2>1, <2>2
  <2>7. ASSUME NEW e \in Batteries PROVE Reported(e)' /\ (e \notin missed => Followed(e)')
    <3>1. Reported(e) /\ (e \notin missed => Followed(e))
      BY <1>2 DEF PowerInv
    <3>2. CASE e = d
      <4>1. what = "added" <=> e \in upower'
        BY <3>2
      <4>2. ~\A i \in 1 .. Len(upowerQueue') : upowerQueue'[i][2] # e
        BY <2>3, <2>4, <3>2
      <4>3. ASSUME NEW i \in 1 .. Len(upowerQueue'), LastOf(i, e)'
            PROVE  upowerQueue'[i] = <<what, d>>
        BY <2>3, <2>4, <3>2, <4>3 DEF LastOf
      <4> QED
        BY <4>1, <4>2, <4>3 DEF Reported, Followed
    <3>3. CASE e # d
      <4>1. e \in upower' <=> e \in upower
        BY <3>3
      <4>2. ASSUME NEW i \in 1 .. Len(upowerQueue'), LastOf(i, e)'
            PROVE  i \in 1 .. Len(q) /\ LastOf(i, e)
        <5>1. upowerQueue'[i][2] = e
          BY <4>2 DEF LastOf
        <5>2. i # Len(q) + 1
          BY <2>4, <3>3, <5>1
        <5>3. i \in 1 .. Len(q)
          BY <2>3, <5>2
        <5>4. ASSUME NEW j \in i + 1 .. Len(q) PROVE q[j][2] # e
          <6>1. j \in 1 .. Len(q) /\ j \in i + 1 .. Len(upowerQueue')
            BY <2>3
          <6> QED
            BY <2>5, <4>2, <6>1 DEF LastOf
        <5> QED
          BY <2>5, <5>1, <5>3, <5>4 DEF LastOf
      <4>3. (\A i \in 1 .. Len(upowerQueue') : upowerQueue'[i][2] # e) =>
              \A i \in 1 .. Len(q) : q[i][2] # e
        BY <2>3, <2>5
      <4> QED
        BY <1>1, <2>5, <3>1, <4>1, <4>2, <4>3 DEF Reported, Followed
    <3> QED
      BY <3>2, <3>3
  <2> QED
    BY <1>1, <1>2, <2>1, <2>6, <2>7 DEF PowerInv
<1>3. CASE state # "ready"
  <2>1. /\ upowerQueue' = upowerQueue
        /\ missed' = IF state = "discovered" THEN missed \cup {d} ELSE missed
    BY <1>3 DEF Power!Reports
  <2> QED
    BY <1>1, <1>3, <2>1 DEF PowerInv
<1> QED
  BY <1>2, <1>3

\* Handling a signal leaves what the later ones say of its battery, or what it
\* says itself.
LEMMA PowerHandles ==
  ASSUME PowerInv, Power!AddDevice \/ Power!RemoveDevice
  PROVE  PowerInv'
<1> DEFINE q == upowerQueue
           d == Head(upowerQueue)[2]
<1>1. /\ state = "ready" /\ state' = state /\ upowerQueue # << >> /\ upowerQueue' = Tail(q)
      /\ upower' = upower
  BY DEF Power!AddDevice, Power!RemoveDevice
<1>2. /\ devices' \subseteq told'
      /\ \A e \in Batteries : e # d => (e \in devices' <=> e \in devices)
      /\ d \notin missed' => (d \in devices' <=> q[1][1] = "added")
      /\ \A e \in Batteries : e # d => (e \in missed' <=> e \in missed)
  BY DEF Power!AddDevice, Power!RemoveDevice, Power!Removed, PowerInv
<1>3. q \in Seq({"added", "removed"} \X Batteries)
  BY DEF PowerInv
<1>4. /\ Len(q) \in Nat /\ Len(q) >= 1 /\ Len(upowerQueue') = Len(q) - 1 /\ d = q[1][2]
  BY <1>1, <1>3
<1>5. \A i \in 1 .. Len(q) - 1 : upowerQueue'[i] = q[i + 1]
  BY <1>1, <1>3, <1>4
<1>6. upowerQueue' \in Seq({"added", "removed"} \X Batteries)
  BY <1>1, <1>3
<1> HIDE DEF d
<1>7. ASSUME NEW e \in Batteries PROVE Reported(e)' /\ (e \notin missed' => Followed(e)')
  <2>1. Reported(e) /\ (e # d /\ e \notin missed' => Followed(e))
    BY <1>1, <1>2 DEF PowerInv
  <2>2. ASSUME NEW i \in 1 .. Len(upowerQueue'), LastOf(i, e)'
        PROVE  upowerQueue'[i][1] = "added" <=> e \in upower'
    <3>1. i \in 1 .. Len(q) - 1 /\ i + 1 \in 1 .. Len(q) /\ upowerQueue'[i] = q[i + 1]
      BY <1>4, <1>5
    <3>2. ASSUME NEW j \in (i + 1) + 1 .. Len(q) PROVE q[j][2] # e
      <4>1. j - 1 \in 1 .. Len(q) - 1 /\ j - 1 \in i + 1 .. Len(upowerQueue') /\ (j - 1) + 1 = j
        BY <1>4, <3>1
      <4>2. upowerQueue'[j - 1] = q[j]
        BY <1>5, <4>1
      <4> QED
        BY <2>2, <4>1, <4>2 DEF LastOf
    <3>3. LastOf(i + 1, e)
      BY <2>2, <3>1, <3>2 DEF LastOf
    <3>4. q[i + 1][1] = "added" <=> e \in upower
      BY <2>1, <3>1, <3>3 DEF Reported
    <3> QED
      BY <1>1, <3>1, <3>4
  <2>3. ASSUME \A i \in 1 .. Len(upowerQueue') : upowerQueue'[i][2] # e, e \notin missed'
        PROVE  e \in devices' <=> e \in upower'
    <3>1. ASSUME NEW j \in 2 .. Len(q) PROVE q[j][2] # e
      <4>1. j - 1 \in 1 .. Len(q) - 1 /\ j - 1 \in 1 .. Len(upowerQueue') /\ (j - 1) + 1 = j
        BY <1>4
      <4>2. upowerQueue'[j - 1] = q[j]
        BY <1>5, <4>1
      <4> QED
        BY <2>3, <4>1, <4>2
    <3>2. CASE e = d
      <4>1. LastOf(1, e)
        BY <1>4, <3>1, <3>2 DEF LastOf
      <4>2. q[1][1] = "added" <=> e \in upower
        BY <1>4, <2>1, <4>1 DEF Reported
      <4> QED
        BY <1>1, <1>2, <2>3, <3>2, <4>2
    <3>3. CASE e # d
      <4>1. \A i \in 1 .. Len(q) : q[i][2] # e
        BY <1>4, <3>1, <3>3
      <4>2. e \in devices <=> e \in upower
        BY <2>1, <2>3, <3>3, <4>1 DEF Followed
      <4> QED
        BY <1>1, <1>2, <3>3, <4>2
    <3> QED
      BY <3>2, <3>3
  <2> QED
    BY <2>2, <2>3 DEF Reported, Followed
<1> QED
  BY <1>1, <1>2, <1>6, <1>7 DEF PowerInv

\* Whatever UPower does, and whenever the service asks, the batteries agree or a signal waits.
LEMMA PowerStep == PowerInv /\ [Power!Next]_(Power!vars) => PowerInv'
<1> SUFFICES ASSUME PowerInv, [Power!Next]_(Power!vars) PROVE PowerInv'
  OBVIOUS
<1>1. ASSUME NEW d \in Batteries, Power!Plugged(d) PROVE PowerInv'
  BY <1>1, PowerReports DEF Power!Plugged
<1>2. ASSUME NEW d \in Batteries, Power!Unplugged(d) PROVE PowerInv'
  BY <1>2, PowerReports DEF Power!Unplugged
<1>3. CASE Power!DiscoverDevices
  BY <1>3 DEF Power!DiscoverDevices, PowerInv
<1>7. CASE Power!DiscoveryFails
  BY <1>7 DEF Power!DiscoveryFails, PowerInv
<1>4. CASE Power!SubscribeToPowerManagerSignals
  <2>1. /\ state = "discovered" /\ state' = "ready"
        /\ UNCHANGED <<upower, upowerQueue, devices, told, missed>>
    BY <1>4 DEF Power!SubscribeToPowerManagerSignals
  <2>2. Len(upowerQueue') = 0
    BY <2>1 DEF PowerInv
  <2>3. (\A d \in Batteries : Reported(d)') /\ (\A d \in Batteries \ missed : Followed(d)')
    BY <2>1, <2>2 DEF PowerInv, Reported, Followed
  <2> QED
    BY <2>1, <2>3 DEF PowerInv
<1>5. CASE Power!CleanupPowerManager
  <2>1. /\ state' = "closed" /\ upowerQueue' = << >> /\ devices' = {} /\ upower' = upower
    BY <1>5 DEF Power!CleanupPowerManager
  <2>2. << >> \in Seq({"added", "removed"} \X Batteries) /\ Len(<< >>) = 0
    OBVIOUS
  <2> QED
    BY <2>1, <2>2 DEF PowerInv
<1>6. CASE UNCHANGED Power!vars
  BY <1>6 DEF Power!vars, PowerInv, Reported, Followed, LastOf
<1> QED
  BY <1>1, <1>2, <1>3, <1>4, <1>5, <1>6, <1>7, PowerHandles DEF Power!Next

\* With no signal waiting the table is UPower's, but for what was missed.
LEMMA PowerMirrored == PowerInv => Power!BatteriesMirrored
<1> SUFFICES ASSUME PowerInv PROVE Power!BatteriesMirrored
  OBVIOUS
<1>1. ASSUME upowerQueue = << >>, state = "ready", NEW d \in Batteries \ missed
      PROVE  d \in devices <=> d \in upower
  <2>1. Len(upowerQueue) = 0 /\ Followed(d)
    BY <1>1 DEF PowerInv
  <2> QED
    BY <2>1 DEF Followed
<1> QED
  BY <1>1 DEF PowerInv, Power!BatteriesMirrored
-----------------------------------------------------------------------------
(* The locale *)

\* The last of the signals on the way brings what locale1 has.
LocaleInv ==
  /\ localeQueue \in Seq(Locales \cup {Locale!NoLang})
  /\ current \in Locales \cup {Locale!NoLang}
  /\ Len(localeQueue) # 0 => localeQueue[Len(localeQueue)] = current
  /\ Len(localeQueue) = 0 /\ current # Locale!NoLang => cached \in {current, Locale!Unset}
  /\ localeTold \in {cached, Locale!Unset}

\* At first nothing is cached, told or queued.
LEMMA LocaleInit == Locale!Init => LocaleInv
<1> SUFFICES ASSUME Locale!Init PROVE LocaleInv
  OBVIOUS
<1>1. << >> \in Seq(Locales \cup {Locale!NoLang}) /\ Len(<< >>) = 0
  OBVIOUS
<1> QED
  BY <1>1 DEF Locale!Init, LocaleInv

\* Every change is followed by its signal, and each signal by the value that it brings.
LEMMA LocaleStep == LocaleInv /\ [Locale!Next]_(Locale!vars) => LocaleInv'
<1> SUFFICES ASSUME LocaleInv, [Locale!Next]_(Locale!vars) PROVE LocaleInv'
  OBVIOUS
<1>0. localeQueue \in Seq(Locales \cup {Locale!NoLang}) /\ Len(localeQueue) \in Nat
  BY DEF LocaleInv
<1>1. ASSUME NEW l \in Locales \cup {Locale!NoLang}, Locale!SetLocale(l) PROVE LocaleInv'
  <2>1. localeQueue' = Append(localeQueue, l) /\ current' = l /\ UNCHANGED <<cached, localeTold>>
    BY <1>1 DEF Locale!SetLocale
  <2>2. Len(localeQueue') = Len(localeQueue) + 1 /\ localeQueue'[Len(localeQueue) + 1] = l
    BY <1>0, <2>1
  <2>3. localeQueue' \in Seq(Locales \cup {Locale!NoLang})
    BY <1>0, <2>1
  <2> QED
    BY <1>0, <2>1, <2>2, <2>3 DEF LocaleInv
<1>2. CASE Locale!GetLocale
  <2>1. /\ UNCHANGED <<current, localeQueue>> /\ localeTold' = cached'
        /\ cached' = IF cached = Locale!Unset THEN current ELSE cached
    BY <1>2 DEF Locale!GetLocale, Locale!Fetched
  <2> QED
    BY <2>1 DEF LocaleInv
<1>3. CASE Locale!LocaleChanged
  <2>1. /\ localeQueue # << >> /\ localeQueue' = Tail(localeQueue) /\ current' = current
        /\ cached' = IF Head(localeQueue) = Locale!NoLang THEN cached ELSE Head(localeQueue)
        /\ localeTold' = IF Head(localeQueue) = Locale!NoLang THEN localeTold ELSE cached'
    BY <1>3 DEF Locale!LocaleChanged, Locale!Replaced
  <2>2. /\ Len(localeQueue) >= 1 /\ Len(localeQueue') = Len(localeQueue) - 1
        /\ Head(localeQueue) = localeQueue[1]
    BY <1>0, <2>1
  <2>3. localeQueue' \in Seq(Locales \cup {Locale!NoLang})
    BY <1>0, <2>1
  <2>4. \A i \in 1 .. Len(localeQueue) - 1 : localeQueue'[i] = localeQueue[i + 1]
    BY <1>0, <2>1, <2>2
  <2>5. localeQueue[Len(localeQueue)] = current
    BY <2>2 DEF LocaleInv
  <2>6. Len(localeQueue') # 0 => localeQueue'[Len(localeQueue')] = current
    <3> SUFFICES ASSUME Len(localeQueue') # 0 PROVE localeQueue'[Len(localeQueue')] = current
      OBVIOUS
    <3>1. /\ Len(localeQueue) - 1 \in 1 .. Len(localeQueue) - 1
          /\ (Len(localeQueue) - 1) + 1 = Len(localeQueue)
      BY <1>0, <2>2
    <3> QED
      BY <2>2, <2>4, <2>5, <3>1
  <2>7. Len(localeQueue') = 0 /\ current # Locale!NoLang => cached' = current
    BY <1>0, <2>1, <2>2, <2>5
  <2> QED
    BY <2>1, <2>3, <2>6, <2>7 DEF LocaleInv
<1>4. CASE UNCHANGED Locale!vars
  BY <1>4 DEF Locale!vars, LocaleInv
<1> QED
  BY <1>1, <1>2, <1>3, <1>4 DEF Locale!Next

\* With no signal waiting the cache has the current locale.
LEMMA LocaleAgrees == LocaleInv => Locale!LocaleMirrored
<1> SUFFICES ASSUME LocaleInv PROVE Locale!LocaleMirrored
  OBVIOUS
<1>1. localeQueue = << >> => Len(localeQueue) = 0
  OBVIOUS
<1> QED
  BY <1>1 DEF LocaleInv, Locale!LocaleMirrored

\* The batteries listed are those of UPower but for what comes or goes between
\* the query and the subscription, and the locale cached is that of localed, once
\* their signals are handled, however the answer to a query overtakes signals
\* (PowerManagerService, LocaleService).
THEOREM StatusFollows == SpecAll => []StatusMirrored
<1>1. PowerInv /\ LocaleInv => StatusMirrored
  BY PowerMirrored, LocaleAgrees DEF StatusMirrored
<1> QED
  BY <1>1, Parts, PowerInit, PowerStep, LocaleInit, LocaleStep, PTL DEF SpecAll
-----------------------------------------------------------------------------
(* The access points *)

\* The active access point is one of those in the cache.
CacheInv ==
  /\ nm = [points |-> nm.points, active |-> nm.active, profile |-> nm.profile]
  /\ nm.points \subseteq Points /\ nm.active \in nm.points \cup {NoPoint}
  /\ shown = [p \in DOMAIN shown |-> shown[p]]

\* The access point that the device's connection was made with is followed for as
\* long as it stays active, and one of the device's objects shows its strength,
\* or a notification of it is still to come.
ConnectionInv ==
  steady =>
    /\ activePath \in DOMAIN connections
    /\ nm.active # NoPoint => nm.active \in followed
    /\ nm.active = NoPoint \/ nm.active \notin news =>
         \E c \in DOMAIN connections : connections[c] = Access!ActiveStrength
ConnectionShape == connections = [c \in DOMAIN connections |-> connections[c]]

AccessInv == CacheInv /\ Access!PointsMirrored /\ ConnectionShape /\ ConnectionInv

\* At first the objects are the access points of the cache, and there is no connection.
LEMMA AccessInit == Access!Init => AccessInv
<1> SUFFICES ASSUME Access!Init PROVE AccessInv
  OBVIOUS
<1>1. PICK cache \in [points : SUBSET Points, active : Points \cup {NoPoint}, profile : {NoProfile}] :
        nm = cache
  BY DEF Access!Init
<1>2. CacheInv
  BY <1>1 DEF Access!Init, CacheInv
<1>3. Access!PointsMirrored
  BY DEF Access!Init, Access!PointsMirrored
<1>4. connections = [c \in {} |-> 0] /\ ~steady
  BY DEF Access!Init
<1> QED
  BY <1>2, <1>3, <1>4 DEF AccessInv, ConnectionShape, ConnectionInv

\* What is shown is what the cache has, and the signals add up to it.
LEMMA SyncMirrors ==
  ASSUME AccessInv, Access!SyncWifiAccessPoints, nm' = nm
  PROVE  CacheInv' /\ Access!PointsMirrored'
<1>1. /\ shown' = [p \in nm.points |-> p = nm.active]
      /\ pointsTold' = [p \in Points |->
           pointsTold[p] + (IF p \in nm.points \ DOMAIN shown THEN 1 ELSE 0)
                         - (IF p \in DOMAIN shown \ nm.points THEN 1 ELSE 0)]
  BY DEF Access!SyncWifiAccessPoints
<1>2. \A p \in Points : pointsTold[p] = IF p \in DOMAIN shown THEN 1 ELSE 0
  BY DEF AccessInv, Access!PointsMirrored
<1>3. ASSUME NEW p \in Points PROVE pointsTold'[p] = IF p \in nm.points THEN 1 ELSE 0
  <2>1. pointsTold'[p] = pointsTold[p] + (IF p \in nm.points \ DOMAIN shown THEN 1 ELSE 0)
                                       - (IF p \in DOMAIN shown \ nm.points THEN 1 ELSE 0)
    BY <1>1
  <2>2. pointsTold[p] = IF p \in DOMAIN shown THEN 1 ELSE 0
    BY <1>2
  <2> QED
    BY <2>1, <2>2
<1>4. DOMAIN shown' = nm.points
  BY <1>1
<1>5. Access!PointsMirrored'
  BY <1>1, <1>3, <1>4 DEF Access!PointsMirrored
<1>6. CacheInv'
  BY <1>1 DEF AccessInv, CacheInv
<1> QED
  BY <1>5, <1>6

\* A batch that changes the access points, the active one or its strength is
\* followed by a notification of it.
LEMMA BatchKeeps ==
  ASSUME NamesDiffer, AccessInv, NEW levels, NEW activated,
         NEW new, new = [points |-> new.points, active |-> new.active, profile |-> new.profile],
         new.points \subseteq Points, Access!Batch(new, levels, activated)
  PROVE  AccessInv'
<1>1. /\ news = {} /\ new.active \in new.points \cup {NoPoint} /\ nm' = new
      /\ strength' = levels /\ news' = Access!Changed(new, levels, activated)
      /\ followed' = followed \cap new.points /\ steady' = (steady /\ new.active = nm.active)
      /\ UNCHANGED <<shown, pointsTold, connections, activePath>>
  BY DEF Access!Batch
<1>2. CacheInv'
  BY <1>1 DEF AccessInv, CacheInv
<1>3. /\ "points" \notin news' => new.points = nm.points
      /\ "active" \notin news' => new.active = nm.active
  BY <1>1 DEF Access!Changed
<1>4. Access!PointsMirrored'
  <2>1. shown = [p \in nm.points |-> p = nm.active]
    BY <1>1 DEF AccessInv, Access!PointsMirrored
  <2>2. \A p \in Points : pointsTold'[p] = IF p \in DOMAIN shown' THEN 1 ELSE 0
    BY <1>1 DEF AccessInv, Access!PointsMirrored
  <2>3. {"points", "active"} \cap news' = {} => shown' = [p \in nm'.points |-> p = nm'.active]
    BY <1>1, <1>3, <2>1
  <2> QED
    BY <2>2, <2>3 DEF Access!PointsMirrored
<1>5. ConnectionInv'
  <2> SUFFICES ASSUME steady'
               PROVE  /\ activePath' \in DOMAIN connections'
                      /\ nm'.active # NoPoint => nm'.active \in followed'
                      /\ nm'.active = NoPoint \/ nm'.active \notin news' =>
                           \E c \in DOMAIN connections' : connections'[c] = Access!ActiveStrength'
    BY DEF ConnectionInv
  <2>1. steady /\ new.active = nm.active /\ nm'.active = nm.active
    BY <1>1
  <2>2. /\ activePath \in DOMAIN connections
        /\ nm.active # NoPoint => nm.active \in followed
        /\ \E c \in DOMAIN connections : connections[c] = Access!ActiveStrength
    BY <1>1, <2>1 DEF AccessInv, ConnectionInv
  <2>3. nm.active # NoPoint => nm.active \in nm.points /\ nm.active \in new.points
    BY <1>1, <2>1 DEF AccessInv, CacheInv
  <2>4. nm.active # NoPoint /\ nm.active \notin news' => levels[nm.active] = strength[nm.active]
    BY <1>1, <2>3 DEF Access!Changed
  <2>5. nm'.active = NoPoint \/ nm'.active \notin news' =>
          Access!ActiveStrength' = Access!ActiveStrength
    BY <1>1, <2>1, <2>4 DEF Access!ActiveStrength
  <2> QED
    BY <1>1, <2>1, <2>2, <2>3, <2>5
<1> QED
  BY <1>1, <1>2, <1>4, <1>5 DEF AccessInv, ConnectionShape

\* A notification that is not of an access point leaves the connections alone.
LEMMA ConnectionKeeps ==
  ASSUME NamesDiffer, AccessInv, NEW note \in {"points", "active", "connection"},
         news' = news \ {note} \/ news' = news, steady' => steady,
         UNCHANGED <<nm, strength, connections, activePath, followed>>
  PROVE  ConnectionInv' /\ ConnectionShape'
<1>1. nm.active # NoPoint => (nm.active \in news' <=> nm.active \in news)
  BY DEF AccessInv, CacheInv, NamesDiffer
<1>2. Access!ActiveStrength' = Access!ActiveStrength
  BY DEF Access!ActiveStrength
<1> QED
  BY <1>1, <1>2 DEF AccessInv, ConnectionInv, ConnectionShape

\* A notification that is not of the points leaves what is shown alone.
LEMMA ShownKeeps ==
  ASSUME AccessInv, {"points", "active"} \cap news' = {} => {"points", "active"} \cap news = {},
         UNCHANGED <<nm, shown, pointsTold>>
  PROVE  CacheInv' /\ Access!PointsMirrored'
  BY DEF AccessInv, CacheInv, Access!PointsMirrored

\* A new object has the strength of the access point that it follows, and one that
\* is kept goes on as before.
LEMMA AppearsKeeps ==
  ASSUME NamesDiffer, AccessInv, Access!ConnectionAppears
  PROVE  AccessInv'
<1>0. news' = news \ {"connection"} /\ UNCHANGED <<nm, strength, shown, pointsTold>> /\ activePath' = nm.profile
  BY DEF Access!ConnectionAppears, Access!Emitted
<1>1. CacheInv' /\ Access!PointsMirrored'
  BY <1>0, ShownKeeps
<1>2. CASE nm.profile \in DOMAIN connections
  <2>1. steady' = (steady /\ activePath = nm.profile) /\ UNCHANGED <<connections, followed>>
    BY <1>2 DEF Access!ConnectionAppears
  <2>2. CASE steady'
    BY <1>0, <1>1, <2>1, <2>2, ConnectionKeeps DEF AccessInv
  <2>3. CASE ~steady'
    BY <1>1, <2>1, <2>3 DEF AccessInv, ConnectionInv, ConnectionShape
  <2> QED
    BY <2>2, <2>3
<1>3. CASE nm.profile \notin DOMAIN connections
  <2>1. /\ connections' = [c \in DOMAIN connections \cup {nm.profile} |->
                            IF c = nm.profile THEN Access!ActiveStrength ELSE connections[c]]
        /\ followed' = followed \cup ({nm.active} \ {NoPoint})
    BY <1>3 DEF Access!ConnectionAppears
  <2>2. Access!ActiveStrength' = Access!ActiveStrength
    BY <1>0 DEF Access!ActiveStrength
  <2>3. nm.profile \in DOMAIN connections' /\ connections'[nm.profile] = Access!ActiveStrength
    BY <2>1
  <2>4. ConnectionInv' /\ ConnectionShape'
    BY <1>0, <2>1, <2>2, <2>3 DEF ConnectionInv, ConnectionShape
  <2> QED
    BY <1>1, <2>4 DEF AccessInv
<1> QED
  BY <1>2, <1>3

\* The object that takes the update shows the active one's strength.
LEMMA StrengthKeeps ==
  ASSUME NamesDiffer, AccessInv, NEW p \in Points, Access!StrengthChanged(p)
  PROVE  AccessInv'
<1>0. /\ news' = news \ {p}
      /\ UNCHANGED <<nm, strength, shown, pointsTold, activePath, followed, steady>>
  BY DEF Access!StrengthChanged, Access!Emitted
<1>1. {"points", "active"} \cap news' = {} => {"points", "active"} \cap news = {}
  BY <1>0 DEF NamesDiffer
<1>2. CacheInv' /\ Access!PointsMirrored'
  BY <1>0, <1>1, ShownKeeps
<1>3. Access!ActiveStrength' = Access!ActiveStrength
  BY <1>0 DEF Access!ActiveStrength
<1>4. CASE p \in followed /\ nm.active = p /\ DOMAIN connections # {}
  <2>1. PICK c \in DOMAIN connections : connections' = [connections EXCEPT ![c] = Access!ActiveStrength]
    BY <1>4 DEF Access!StrengthChanged
  <2>2. DOMAIN connections' = DOMAIN connections /\ connections'[c] = Access!ActiveStrength
    BY <2>1
  <2>3. ConnectionInv'
    BY <1>0, <1>3, <2>2 DEF AccessInv, ConnectionInv
  <2>4. ConnectionShape'
    BY <2>1 DEF AccessInv, ConnectionShape
  <2> QED
    BY <1>2, <2>3, <2>4 DEF AccessInv
<1>5. CASE ~(p \in followed /\ nm.active = p /\ DOMAIN connections # {})
  <2>1. connections' = connections
    BY <1>5 DEF Access!StrengthChanged
  <2>2. steady /\ nm.active # NoPoint => nm.active # p
    BY <1>5 DEF AccessInv, ConnectionInv
  <2>3. ConnectionInv' /\ ConnectionShape'
    BY <1>0, <1>3, <2>1, <2>2 DEF AccessInv, ConnectionInv, ConnectionShape
  <2> QED
    BY <1>2, <2>3 DEF AccessInv
<1> QED
  BY <1>4, <1>5

\* Every batch of libnm, notification and request keeps the access points in agreement.
LEMMA AccessStep ==
  ASSUME NamesDiffer
  PROVE  AccessInv /\ [Access!Next]_(Access!vars) => AccessInv'
<1> SUFFICES ASSUME AccessInv, [Access!Next]_(Access!vars) PROVE AccessInv'
  OBVIOUS
<1>1. CASE Access!CacheChanges
  <2>1. PICK points \in SUBSET Points, chosen_ \in Points \cup {NoPoint}, profile \in Profiles \cup {NoProfile},
             levels \in [Points -> Strengths], activated \in BOOLEAN :
          Access!Batch([points |-> points, active |-> chosen_, profile |-> profile], levels, activated)
    BY <1>1 DEF Access!CacheChanges
  <2>2. PICK new : new = [points |-> points, active |-> chosen_, profile |-> profile]
    OBVIOUS
  <2>3. /\ new = [points |-> new.points, active |-> new.active, profile |-> new.profile]
        /\ new.points \subseteq Points
    BY <2>2
  <2>4. Access!Batch(new, levels, activated)
    BY <2>1, <2>2
  <2> QED
    BY <2>3, <2>4, BatchKeeps
<1>2. CASE Access!WifiDisconnect
  <2>1. PICK new : new = [nm EXCEPT !.profile = NoProfile, !.active = NoPoint]
    OBVIOUS
  <2>2. nm = [points |-> nm.points, active |-> nm.active, profile |-> nm.profile]
    BY DEF AccessInv, CacheInv
  <2>3. new = [points |-> nm.points, active |-> NoPoint, profile |-> NoProfile]
    BY <2>1, <2>2
  <2>4. /\ new = [points |-> new.points, active |-> new.active, profile |-> new.profile]
        /\ new.points \subseteq Points
    BY <2>3 DEF AccessInv, CacheInv
  <2>5. Access!Batch(new, strength, FALSE)
    BY <1>2, <2>1 DEF Access!WifiDisconnect
  <2> QED
    BY <2>4, <2>5, BatchKeeps
<1>3. ASSUME NEW note \in {"points", "active", "connection"}, Access!SyncWifiAccessPoints,
             news' = news \ {note} \/ news' = news,
             UNCHANGED <<nm, strength, connections, activePath, followed, steady>>
      PROVE  AccessInv'
  BY <1>3, SyncMirrors, ConnectionKeeps DEF AccessInv
<1>4. CASE Access!AccessPointsChanged
  BY <1>3, <1>4 DEF Access!AccessPointsChanged, Access!Emitted
<1>5. CASE Access!ActiveAccessPointChanged
  BY <1>3, <1>5 DEF Access!ActiveAccessPointChanged, Access!Emitted
<1>6. CASE Access!WifiScan
  BY <1>3, <1>6 DEF Access!WifiScan
<1>7. CASE Access!ConnectionAppears
  BY <1>7, AppearsKeeps
<1>8. CASE Access!ConnectionDisappears
  <2>1. /\ news' = news \ {"connection"} /\ UNCHANGED <<nm, shown, pointsTold>> /\ ~steady'
        /\ connections' = [c \in DOMAIN connections \ {activePath} |-> connections[c]]
    BY <1>8 DEF Access!ConnectionDisappears, Access!Emitted
  <2>2. ConnectionInv' /\ ConnectionShape'
    BY <2>1 DEF ConnectionInv, ConnectionShape
  <2>3. CacheInv' /\ Access!PointsMirrored'
    BY <2>1, ShownKeeps
  <2> QED
    BY <2>2, <2>3 DEF AccessInv
<1>9. ASSUME NEW p \in Points, Access!StrengthChanged(p) PROVE AccessInv'
  BY <1>9, StrengthKeeps
<1>10. CASE UNCHANGED Access!vars
  BY <1>10 DEF Access!vars, Access!service, AccessInv, CacheInv, ConnectionInv, ConnectionShape,
     Access!PointsMirrored, Access!ActiveStrength
<1> QED
  BY <1>1, <1>2, <1>4, <1>5, <1>6, <1>7, <1>8, <1>9, <1>10 DEF Access!Next

\* The objects are the cache's access points once a batch of notifications has
\* been emitted in whatever order, the signals add up to them, and the strength of
\* a connection's access point is shown while that one stays active, by the
\* connection or by one that it replaced directly (SyncWifiAccessPoints,
\* EnsureConnectionObject, OnAccessPointStrengthChanged, FindConnectionByAccessPoint).
THEOREM LinksFollow == SpecAll => []LinksMirrored
<1>1. AccessInv => LinksMirrored
  BY DEF AccessInv, ConnectionInv, LinksMirrored, Access!StrengthFollowed
<1> QED
  BY <1>1, Parts, AccessInit, AccessStep, DaemonAssumption, PTL DEF SpecAll
-----------------------------------------------------------------------------
(* The properties of objects *)

Frames == Seq([object : Objects, prop : Props, value : Values])

\* A value is announced as it is stored, and a call is not answered only while
\* its callback is on the stack.
Announced ==
  /\ DOMAIN value = Objects /\ DOMAIN announced = Objects /\ registry \subseteq Objects
  /\ \A o \in registry : announced[o] = value[o]
Answering ==
  /\ stack \in Frames
  /\ caller \in BOOLEAN /\ calls \in Nat /\ replies \in Nat
  /\ caller => calls = replies + 1 /\ Len(stack) # 0
  /\ ~caller => calls = replies
ObjectInv == Announced /\ Answering

\* The stack of calls without its top.
LEMMA FrontOfFrames ==
  ASSUME NEW s \in Frames, s # << >>
  PROVE  Object!Front(s) \in Frames /\ Len(Object!Front(s)) = Len(s) - 1
<1> DEFINE F == [object : Objects, prop : Props, value : Values]
<1>1. s \in Seq(F)
  BY DEF Frames
<1> HIDE DEF F
<1>2. Len(s) \in Nat /\ Len(s) >= 1
  BY <1>1
<1>3. 1 \in Int /\ Len(s) - 1 \in Int /\ \A i \in 1 .. Len(s) - 1 : s[i] \in F
  BY <1>1, <1>2
<1> DEFINE n == Len(s) - 1
<1>4. n \in Int /\ n >= 0 /\ \A i \in 1 .. n : s[i] \in F
  BY <1>2, <1>3
<1> HIDE DEF n
<1>5. /\ SubSeq(s, 1, n) \in Seq(F)
      /\ Len(SubSeq(s, 1, n)) = IF 1 <= n THEN n - 1 + 1 ELSE 0
  <2>1. 1 \in Int
    OBVIOUS
  <2> QED
    BY <1>4, <2>1, SubSeqProperties
<1>6. (IF 1 <= n THEN n - 1 + 1 ELSE 0) = n
  BY <1>4
<1> QED
  BY <1>5, <1>6 DEF Frames, F, n, Object!Front

\* At first every property is announced with its first value, and nobody calls.
LEMMA ObjectInit == Object!Init => ObjectInv
<1> SUFFICES ASSUME Object!Init PROVE ObjectInv
  OBVIOUS
<1>1. << >> \in Frames
  BY DEF Frames
<1>2. Announced
  <2>1. value = [o \in Objects |-> [p \in Props |-> Object!Initial]] /\ announced = value
        /\ registry = {}
    BY DEF Object!Init
  <2> QED
    BY <2>1 DEF Announced
<1>3. Answering
  <2>1. stack = << >> /\ ~caller /\ caller \in BOOLEAN /\ calls = 0 /\ replies = 0
    BY DEF Object!Init
  <2> QED
    BY <1>1, <2>1 DEF Answering
<1> QED
  BY <1>2, <1>3 DEF ObjectInv

\* An object keeps what it shows of each property, whoever sets one.
LEMMA ObjectSets ==
  ASSUME ObjectInv, NEW o \in Objects, NEW p \in Props, NEW v \in Values, Object!Set(o, p, v)
  PROVE  /\ DOMAIN value' = Objects /\ DOMAIN announced' = Objects
         /\ \A i \in registry : announced'[i] = value'[i]
         /\ stack' \in Frames /\ Len(stack') = Len(stack) + 1 /\ Len(stack) \in Nat
<1>1. /\ value' = [value EXCEPT ![o] = [value[o] EXCEPT ![p] = v]]
      /\ announced' = [announced EXCEPT ![o] = [announced[o] EXCEPT ![p] = v]]
      /\ stack' = Append(stack, [object |-> o, prop |-> p, value |-> v])
  BY DEF Object!Set
<1>2. /\ DOMAIN value' = Objects /\ DOMAIN announced' = Objects
      /\ \A i \in Objects : value'[i] = IF i = o THEN [value[o] EXCEPT ![p] = v] ELSE value[i]
  BY <1>1 DEF ObjectInv, Announced
<1>3. \A i \in Objects :
        announced'[i] = IF i = o THEN [announced[o] EXCEPT ![p] = v] ELSE announced[i]
  BY <1>1 DEF ObjectInv, Announced
<1>4. ASSUME NEW i \in registry PROVE announced'[i] = value'[i]
  <2>1. i \in Objects /\ announced[i] = value[i]
    BY DEF ObjectInv, Announced
  <2>2. CASE i = o
    BY <1>2, <1>3, <2>1, <2>2
  <2>3. CASE i # o
    BY <1>2, <1>3, <2>1, <2>3
  <2> QED
    BY <2>2, <2>3
<1>5. stack' \in Frames /\ Len(stack') = Len(stack) + 1 /\ Len(stack) \in Nat
  BY <1>1 DEF ObjectInv, Answering, Frames
<1> QED
  BY <1>2, <1>3, <1>4, <1>5

\* Every call, callback and refusal keeps what was announced equal to the values.
LEMMA ObjectStep == ObjectInv /\ [Object!Next]_(Object!vars) => ObjectInv'
<1> SUFFICES ASSUME ObjectInv, [Object!Next]_(Object!vars) PROVE ObjectInv'
  OBVIOUS
<1>0. Len(stack) \in Nat
  BY DEF ObjectInv, Answering, Frames
<1>1. ASSUME NEW o \in Objects, Object!Register(o) PROVE ObjectInv'
  <2>1. /\ registry' = registry \cup {o} /\ UNCHANGED <<stack, caller, calls, replies>>
        /\ value' = [value EXCEPT ![o] = [p \in Props |-> Object!Initial]]
        /\ announced' = [announced EXCEPT ![o] = [p \in Props |-> Object!Initial]]
    BY <1>1 DEF Object!Register
  <2> DEFINE new == [p \in Props |-> Object!Initial]
  <2> HIDE DEF new
  <2>2. /\ DOMAIN value' = Objects /\ DOMAIN announced' = Objects
        /\ \A i \in Objects : value'[i] = IF i = o THEN new ELSE value[i]
        /\ \A i \in Objects : announced'[i] = IF i = o THEN new ELSE announced[i]
    BY <2>1 DEF ObjectInv, Announced, new
  <2>3. Announced'
    BY <2>1, <2>2 DEF ObjectInv, Announced
  <2> QED
    BY <2>1, <2>3 DEF ObjectInv, Answering
<1>2. ASSUME NEW o \in Objects, Object!Unregister(o) PROVE ObjectInv'
  BY <1>2 DEF Object!Unregister, ObjectInv, Announced, Answering
<1>3. ASSUME NEW o \in Objects, NEW p \in Props, NEW v \in Values, Object!Set(o, p, v),
             UNCHANGED registry
      PROVE  /\ Announced' /\ stack' \in Frames /\ Len(stack') # 0
  BY <1>3, ObjectSets DEF ObjectInv, Announced
<1>4. ASSUME NEW o \in Objects, NEW p \in Props, NEW v \in Values, Object!Assign(o, p, v)
      PROVE  ObjectInv'
  <2>1. Object!Set(o, p, v) /\ UNCHANGED <<registry, caller, calls, replies>>
    BY <1>4 DEF Object!Assign
  <2> QED
    BY <1>3, <2>1 DEF ObjectInv, Answering
<1>5. ASSUME NEW c \in Object!Calls, Object!Immediate(c) PROVE ObjectInv'
  <2>1. /\ calls' = calls + 1 /\ replies' = replies + 1
        /\ UNCHANGED <<registry, value, announced, stack, caller>>
    BY <1>5 DEF Object!Immediate, Object!objects
  <2>2. Announced'
    BY <2>1 DEF ObjectInv, Announced
  <2>3. Answering'
    BY <2>1 DEF ObjectInv, Answering
  <2> QED
    BY <2>2, <2>3 DEF ObjectInv
<1>6. ASSUME NEW c \in Object!Calls, Object!SetProperty(c) PROVE ObjectInv'
  <2>1. /\ Object!Set(c.object, c.prop, c.value) /\ stack = << >>
        /\ calls' = calls + 1 /\ caller' = TRUE /\ UNCHANGED <<registry, replies>>
    BY <1>6 DEF Object!SetProperty
  <2>2. c.object \in Objects /\ c.value \in Values /\ c.prop \in Props
    BY <1>6 DEF Object!SetProperty, Object!Changes, Object!Wrong, Object!Calls
  <2>3. ~caller
    BY <2>1 DEF ObjectInv, Answering
  <2>4. Announced' /\ stack' \in Frames /\ Len(stack') # 0
    BY <1>3, <2>1, <2>2
  <2>5. Answering'
    BY <2>1, <2>3, <2>4 DEF ObjectInv, Answering
  <2> QED
    BY <2>4, <2>5 DEF ObjectInv
<1>7. ASSUME stack # << >> PROVE Object!Front(stack) \in Frames /\ Len(Object!Front(stack)) = Len(stack) - 1
  BY <1>7, FrontOfFrames DEF ObjectInv, Answering
<1>8. ASSUME UNCHANGED <<registry, value, announced>> PROVE Announced'
  BY <1>8 DEF ObjectInv, Announced
<1>9. CASE Object!CallbackReturns
  <2>1. /\ stack # << >> /\ stack' = Object!Front(stack)
        /\ UNCHANGED <<registry, value, announced, calls>>
        /\ replies' = IF Len(stack) = 1 /\ caller THEN replies + 1 ELSE replies
        /\ caller' = (caller /\ ~(Len(stack) = 1))
    BY <1>9 DEF Object!CallbackReturns, Object!Announce, Object!Answered
  <2>2. stack' \in Frames /\ Len(stack') = Len(stack) - 1
    BY <1>7, <2>1
  <2>3. CASE Len(stack) = 1
    <3>1. ~caller' /\ caller' \in BOOLEAN /\ calls' = calls
          /\ replies' = IF caller THEN replies + 1 ELSE replies
      BY <2>1, <2>3
    <3>2. calls' = replies' /\ calls' \in Nat /\ replies' \in Nat
      BY <3>1 DEF ObjectInv, Answering
    <3> QED
      BY <1>8, <2>1, <2>2, <3>1, <3>2 DEF ObjectInv, Answering
  <2>4. CASE Len(stack) # 1
    <3>1. Len(stack') # 0
      BY <1>0, <2>2, <2>4
    <3> QED
      BY <1>8, <2>1, <2>2, <2>4, <3>1 DEF ObjectInv, Answering
  <2> QED
    BY <2>3, <2>4
<1>10. CASE Object!CallbackThrows
  <2>1. /\ stack' = << >> /\ UNCHANGED <<registry, value, announced, calls>>
        /\ replies' = (IF caller THEN replies + 1 ELSE replies) /\ caller' = FALSE
    BY <1>10 DEF Object!CallbackThrows, Object!Answered, Object!objects, ObjectInv
  <2>2. stack' \in Frames
    BY <2>1 DEF Frames
  <2>3. ~caller' /\ caller' \in BOOLEAN
    BY <2>1
  <2>4. calls' = replies' /\ calls' \in Nat /\ replies' \in Nat
    BY <2>1 DEF ObjectInv, Answering
  <2> QED
    BY <1>8, <2>1, <2>2, <2>3, <2>4 DEF ObjectInv, Answering
<1>11. CASE Object!CallbackCatches
  <2>1. /\ Len(stack) > 1 /\ stack' = Object!Front(stack)
        /\ UNCHANGED <<registry, value, announced, caller, calls, replies>>
    BY <1>11 DEF Object!CallbackCatches, Object!objects
  <2>2. stack # << >>
    BY <2>1
  <2>3. stack' \in Frames /\ Len(stack') = Len(stack) - 1
    BY <1>7, <2>1, <2>2
  <2>4. Len(stack') # 0
    BY <1>0, <2>1, <2>3
  <2> QED
    BY <1>8, <2>1, <2>3, <2>4 DEF ObjectInv, Answering
<1>12. CASE UNCHANGED Object!vars
  BY <1>12 DEF Object!vars, Object!objects, ObjectInv, Announced, Answering
<1> QED
  BY <1>1, <1>2, <1>4, <1>5, <1>6, <1>9, <1>10, <1>11, <1>12 DEF Object!Next

\* Whoever follows PropertiesChanged knows every property of every object when no
\* callback runs, and every call has been answered once, for any objects,
\* properties and values and however deep callbacks set others (dbus_wrapper).
THEOREM ValuesAnnounced == SpecAll => []AnnouncedIsValue
<1>1. ObjectInv => AnnouncedIsValue
  <2> SUFFICES ASSUME ObjectInv, stack = << >>
               PROVE  (\A o \in registry : announced[o] = value[o]) /\ replies = calls
    BY DEF AnnouncedIsValue, Object!AnnouncedIsValue
  <2>1. ~caller
    BY DEF ObjectInv, Answering
  <2> QED
    BY <2>1 DEF ObjectInv, Announced, Answering
<1> QED
  BY <1>1, Parts, ObjectInit, ObjectStep, PTL DEF SpecAll
-----------------------------------------------------------------------------
(* Signals *)

\* What waits in the queue, and what a list of handlers is made of.
Key == Keys \cup {"none"}
Messages == [key : Keys, number : Nat]
Cells == Subs \cup {Signal!Slot}

Shaped ==
  /\ DOMAIN handlers = Keys /\ \A k \in Keys : handlers[k] \in Seq(Cells)
  /\ DOMAIN cell = Subs /\ \A s \in Subs : cell[s] \in BOOLEAN
  /\ DOMAIN sub = Subs
  /\ \A s \in Subs : sub[s] \in [state : {"unused", "active", "failed", "ended"},
                                 key : Key, slot : Nat]
  /\ queue \in Seq(Messages)
  /\ dispatch \in [key : Key, number : Nat, left : Seq(Cells), inCallback : BOOLEAN]
  /\ DOMAIN emitted = Keys /\ \A k \in Keys : emitted[k] \in Nat
  /\ DOMAIN heard = Subs /\ \A s \in Subs : heard[s] \in Seq(Nat)
  /\ DOMAIN due = Subs

\* A subscription that holds a slot and a cell, with or without its rule.
Listening(s) == sub[s].state \in {"active", "failed"}

\* The slots of the lists and the subscriptions name each other, and a key with
\* a list has its rule, unless the bus refused it.
Placed ==
  /\ \A s \in Subs : sub[s].state # "unused" => sub[s].key \in Keys
  /\ \A s \in Subs : Listening(s) =>
       /\ sub[s].slot \in DOMAIN handlers[sub[s].key]
       /\ handlers[sub[s].key][sub[s].slot] = s
  /\ \A s \in Subs : \A k \in Keys : \A i \in DOMAIN handlers[k] :
       handlers[k][i] = s => Listening(s) /\ sub[s].key = k /\ sub[s].slot = i
  /\ \A s \in Subs : cell[s] <=> Listening(s)
  /\ \A k \in Keys : Signal!Healthy(k) /\ handlers[k] # <<>> => k \in rules

\* The signal being dispatched comes before those that wait, in their order, and
\* its copy of the list has every subscription once.
Numbered ==
  /\ \A i \in DOMAIN queue : queue[i].number <= emitted[queue[i].key]
  /\ \A i, j \in DOMAIN queue :
       i < j /\ queue[i].key = queue[j].key => queue[i].number < queue[j].number
  /\ dispatch # Signal!NoSignal =>
       /\ dispatch.key \in Keys /\ dispatch.number <= emitted[dispatch.key]
       /\ \A i \in DOMAIN queue :
            queue[i].key = dispatch.key => dispatch.number < queue[i].number
       /\ \A s \in Subs : \A i \in DOMAIN dispatch.left : dispatch.left[i] = s =>
            /\ sub[s].state # "unused" /\ sub[s].key = dispatch.key
            /\ \A j \in DOMAIN dispatch.left : dispatch.left[j] = s => i = j

\* What was heard comes before what is still to come.
InOrder ==
  \A s \in Subs :
    /\ \A i, j \in DOMAIN heard[s] : i < j => heard[s][i] < heard[s][j]
    /\ sub[s].state = "unused" => heard[s] = <<>>
    /\ Listening(s) => \A i \in DOMAIN heard[s] :
         /\ heard[s][i] <= emitted[sub[s].key]
         /\ \A n \in Signal!ToCome(s) : heard[s][i] < n

\* And both are what the subscription has to hear.
Complete ==
  \A s \in Subs :
    /\ \A k \in Keys : Signal!Active(s) /\ sub[s].key = k /\ Signal!Healthy(k) => Signal!Heard(s) \cup Signal!ToCome(s) = due[s]
    /\ sub[s].state = "ended" => Signal!Heard(s) = due[s]

SignalInv == Shaped /\ Placed /\ Numbered /\ InOrder /\ Complete

\* At first there are no rules, lists and subscriptions, and nothing was emitted.
LEMMA SignalInit == Signal!Slot \notin Subs /\ Signal!Init => SignalInv
<1> SUFFICES ASSUME Signal!Slot \notin Subs, Signal!Init PROVE SignalInv
  OBVIOUS
<1>1. << >> \in Seq(Cells) /\ << >> \in Seq(Messages) /\ << >> \in Seq(Nat)
  OBVIOUS
<1>2. Signal!NoSignal \in [key : Key, number : Nat, left : Seq(Cells), inCallback : BOOLEAN]
  BY <1>1 DEF Signal!NoSignal, Key
<1>3. Shaped
  BY <1>1, <1>2 DEF Signal!Init, Shaped, Signal!Unused, Signal!Slot, Key
<1>4. \A s \in Subs : sub[s].state = "unused" /\ ~Listening(s) /\ ~Signal!Active(s)
  BY DEF Signal!Init, Signal!Unused, Listening, Signal!Active
<1>5. Placed
  BY <1>4 DEF Signal!Init, Placed
<1>6. Numbered /\ InOrder /\ Complete
  BY <1>4 DEF Signal!Init, Numbered, InOrder, Complete
<1> QED
  BY <1>3, <1>5, <1>6 DEF SignalInv

\* The elements of a queue, when one is put into it, taken out or neither.
LEMMA Elements ==
  ASSUME NEW S, NEW q \in Seq(S)
  PROVE  \A i \in DOMAIN q : i \in Nat /\ q[i] \in S
OBVIOUS

\* What Append adds to a queue, and what it leaves.
LEMMA Appended ==
  ASSUME NEW S, NEW q \in Seq(S), NEW m \in S, NEW r, r = Append(q, m)
  PROVE  /\ r \in Seq(S) /\ Len(q) \in Nat /\ Len(q) + 1 \notin DOMAIN q
         /\ DOMAIN r = DOMAIN q \cup {Len(q) + 1} /\ r[Len(q) + 1] = m
         /\ \A i \in DOMAIN q : i \in Nat /\ i < Len(q) + 1 /\ r[i] = q[i] /\ q[i] \in S
<1>1. r \in Seq(S) /\ Len(q) \in Nat /\ Len(r) = Len(q) + 1
  OBVIOUS
<1>2. DOMAIN q = 1..Len(q) /\ DOMAIN r = 1..(Len(q) + 1)
  BY <1>1
<1>3. \A i \in 1..Len(q) : r[i] = q[i] /\ q[i] \in S
  OBVIOUS
<1>4. r[Len(q) + 1] = m
  OBVIOUS
<1> QED
  BY <1>1, <1>2, <1>3, <1>4

\* What is taken from a queue, and what is left.
LEMMA Taken ==
  ASSUME NEW S, NEW q \in Seq(S), q # << >>, NEW r, r = Tail(q)
  PROVE  /\ r \in Seq(S) /\ Head(q) = q[1] /\ Head(q) \in S /\ 1 \in DOMAIN q
         /\ \A i \in DOMAIN r : i \in Nat /\ i + 1 \in DOMAIN q /\ r[i] = q[i + 1] /\ r[i] \in S
         /\ \A i \in DOMAIN q : i \in Nat /\ i >= 1 /\ (i # 1 => i - 1 \in DOMAIN r)
<1>1. r \in Seq(S) /\ Head(q) = q[1] /\ Head(q) \in S /\ Len(q) \in Nat /\ Len(q) >= 1
      /\ Len(r) = Len(q) - 1
  OBVIOUS
<1>2. DOMAIN q = 1..Len(q) /\ DOMAIN r = 1..(Len(q) - 1)
  BY <1>1
<1>3. \A i \in 1..(Len(q) - 1) : r[i] = q[i + 1] /\ r[i] \in S
  BY <1>1, <1>2
<1> QED
  BY <1>1, <1>2, <1>3

\* A signal that is queued waits for the handlers of its key.
LEMMA QueuedWaits ==
  ASSUME Shaped, NEW m \in Messages, queue' = Append(queue, m)
  PROVE  \A k : Signal!Waiting(k)' = Signal!Waiting(k) \cup (IF m.key = k THEN {m.number} ELSE {})
<1>1. /\ DOMAIN queue' = DOMAIN queue \cup {Len(queue) + 1}
      /\ queue'[Len(queue) + 1] = m
      /\ \A i \in DOMAIN queue : queue'[i] = queue[i] /\ i # Len(queue) + 1
  <2>1. queue \in Seq(Messages)
    BY DEF Shaped
  <2> QED
    BY <2>1, Appended
<1> QED
  BY <1>1 DEF Signal!Waiting

\* A signal that is taken waited, and does no more.
LEMMA TakenWaits ==
  ASSUME Shaped, queue # << >>, queue' = Tail(queue)
  PROVE  \A k : Signal!Waiting(k) = Signal!Waiting(k)' \cup (IF Head(queue).key = k THEN {Head(queue).number} ELSE {})
<1>1. /\ Head(queue) = queue[1] /\ 1 \in DOMAIN queue
      /\ \A i \in DOMAIN queue' : i + 1 \in DOMAIN queue /\ queue'[i] = queue[i + 1]
      /\ \A i \in DOMAIN queue : i # 1 => i - 1 \in DOMAIN queue' /\ queue'[i - 1] = queue[i]
  <2>1. /\ Head(queue) = queue[1] /\ 1 \in DOMAIN queue
        /\ \A i \in DOMAIN queue' : i \in Nat /\ i + 1 \in DOMAIN queue /\ queue'[i] = queue[i + 1]
        /\ \A i \in DOMAIN queue : i \in Nat /\ (i # 1 => i - 1 \in DOMAIN queue')
    <3>1. queue \in Seq(Messages)
      BY DEF Shaped
    <3> QED
      BY <3>1, Taken
  <2>2. \A i \in DOMAIN queue : i # 1 => queue'[i - 1] = queue[(i - 1) + 1] /\ (i - 1) + 1 = i
    BY <2>1
  <2> QED
    BY <2>1, <2>2
<1> SUFFICES ASSUME NEW k, NEW n
             PROVE  n \in Signal!Waiting(k) <=> n \in Signal!Waiting(k)' \/ (Head(queue).key = k /\ n = Head(queue).number)
  OBVIOUS
<1>2. n \in Signal!Waiting(k) <=> \E i \in DOMAIN queue : queue[i].key = k /\ queue[i].number = n
  BY DEF Signal!Waiting
<1>3. n \in Signal!Waiting(k)' <=> \E i \in DOMAIN queue' : queue'[i].key = k /\ queue'[i].number = n
  BY DEF Signal!Waiting
<1>4. (n \in Signal!Waiting(k)' \/ (Head(queue).key = k /\ n = Head(queue).number)) => n \in Signal!Waiting(k)
  BY <1>1, <1>2, <1>3
<1>5. ASSUME NEW i \in DOMAIN queue, queue[i].key = k, queue[i].number = n
      PROVE  n \in Signal!Waiting(k)' \/ (Head(queue).key = k /\ n = Head(queue).number)
  <2>1. CASE i = 1
    BY <1>1, <1>5, <2>1
  <2>2. CASE i # 1
    BY <1>1, <1>3, <1>5, <2>2
  <2> QED
    BY <2>1, <2>2
<1> QED
  BY <1>2, <1>4, <1>5

\* With the same queue the same signals wait.
LEMMA QuietWaits ==
  ASSUME queue' = queue
  PROVE  \A k : Signal!Waiting(k)' = Signal!Waiting(k)
BY DEF Signal!Waiting

\* A number called with is one more that was heard, and the last.
LEMMA HeardGrows ==
  ASSUME NEW h \in Seq(Nat), NEW n \in Nat, NEW g, g = Append(h, n)
  PROVE  /\ g \in Seq(Nat)
         /\ {g[i] : i \in DOMAIN g} = {h[i] : i \in DOMAIN h} \cup {n}
         /\ DOMAIN g = DOMAIN h \cup {Len(h) + 1} /\ g[Len(h) + 1] = n
         /\ \A i \in DOMAIN h : g[i] = h[i] /\ i < Len(h) + 1
<1>1. /\ g \in Seq(Nat) /\ DOMAIN g = DOMAIN h \cup {Len(h) + 1} /\ g[Len(h) + 1] = n
      /\ \A i \in DOMAIN h : g[i] = h[i] /\ i < Len(h) + 1
  OBVIOUS
<1> QED
  BY <1>1

\* A signal is emitted: it waits if the bus has the rule.
LEMMA EmitKeeps ==
  ASSUME Signal!Slot \notin Subs, SignalInv, NEW k \in Keys, Signal!Emit(k)
  PROVE  SignalInv'
<1> DEFINE n == emitted[k] + 1
           m == [key |-> k, number |-> n]
<1>1. /\ emitted' = [emitted EXCEPT ![k] = n] /\ n \in Nat
      /\ \A j \in Keys : emitted'[j] = (IF j = k THEN n ELSE emitted[j])
      /\ \A j \in Keys : emitted'[j] \in Nat /\ emitted'[j] >= emitted[j]
      /\ DOMAIN emitted' = Keys
  BY DEF Signal!Emit, SignalInv, Shaped
<1>2. /\ queue' = (IF k \in rules THEN Append(queue, m) ELSE queue)
      /\ due' = [s \in Subs |-> IF Signal!Active(s) /\ sub[s].key = k THEN due[s] \cup {n} ELSE due[s]]
      /\ UNCHANGED <<handlers, cell, sub, rules, dispatch, heard>>
  BY <1>1 DEF Signal!Emit, Signal!program
<1>3. m \in Messages /\ m.key = k /\ m.number = n
  BY <1>1 DEF Messages
<1> HIDE DEF m
<1>4. /\ queue' \in Seq(Messages)
      /\ \A i \in DOMAIN queue' : \/ i \in DOMAIN queue /\ queue'[i] = queue[i] /\ i < Len(queue) + 1
                                  \/ i = Len(queue) + 1 /\ queue'[i] = m
      /\ \A i \in DOMAIN queue : i < Len(queue) + 1
  <2>1. queue \in Seq(Messages)
    BY DEF SignalInv, Shaped
  <2> QED
    <3>1. CASE k \in rules
      BY <1>2, <1>3, <2>1, <3>1, Appended
    <3>2. CASE k \notin rules
      BY <1>2, <1>3, <2>1, <3>2, Appended
    <3> QED
      BY <3>1, <3>2
<1>5. \A j : Signal!Waiting(j)' = Signal!Waiting(j) \cup (IF j = k /\ k \in rules THEN {n} ELSE {})
  BY <1>2, <1>3, QueuedWaits, QuietWaits DEF SignalInv
<1>6. \A s : /\ Listening(s)' = Listening(s) /\ Signal!Active(s)' = Signal!Active(s)
             /\ Signal!Heard(s)' = Signal!Heard(s)
  BY <1>2 DEF Listening, Signal!Active, Signal!Heard
<1>7. \A j : Signal!Healthy(j)' = Signal!Healthy(j)
  BY <1>2 DEF Signal!Healthy
<1>8. \A s \in Subs : Signal!ToCome(s)' = Signal!ToCome(s) \cup (IF sub[s].key = k /\ k \in rules THEN {n} ELSE {})
  BY <1>2, <1>5 DEF Signal!ToCome
<1>9. Shaped'
  BY <1>1, <1>2, <1>4 DEF SignalInv, Shaped
<1>10. Placed'
  BY <1>2, <1>6, <1>7 DEF SignalInv, Placed
<1>11. \A i \in DOMAIN queue : /\ queue[i].key \in Keys /\ queue[i].number \in Nat
                               /\ queue[i].number <= emitted[queue[i].key]
                               /\ emitted[queue[i].key] \in Nat
  <2>1. queue \in Seq(Messages)
    BY DEF SignalInv, Shaped
  <2>2. \A i \in DOMAIN queue : queue[i] \in Messages
    BY <2>1, Elements
  <2>3. \A i \in DOMAIN queue : queue[i].key \in Keys /\ queue[i].number \in Nat
    BY <2>2 DEF Messages
  <2> QED
    BY <2>3 DEF SignalInv, Shaped, Numbered
<1>12. \A i \in DOMAIN queue' : queue'[i].number <= emitted'[queue'[i].key]
  BY <1>1, <1>3, <1>4, <1>11
<1>13. \A i, j \in DOMAIN queue' :
         i < j /\ queue'[i].key = queue'[j].key => queue'[i].number < queue'[j].number
  <2> SUFFICES ASSUME NEW i \in DOMAIN queue', NEW j \in DOMAIN queue', i < j,
                      queue'[i].key = queue'[j].key
               PROVE  queue'[i].number < queue'[j].number
    OBVIOUS
  <2>1. i \in DOMAIN queue /\ queue'[i] = queue[i]
    <3>1. i \in Nat /\ j \in Nat
      BY <1>4
    <3>2. Len(queue) \in Nat
      BY DEF SignalInv, Shaped
    <3> QED
      BY <1>4, <3>1, <3>2
  <2>2. CASE j \in DOMAIN queue /\ queue'[j] = queue[j]
    BY <2>1, <2>2 DEF SignalInv, Numbered
  <2>3. CASE queue'[j] = m
    BY <1>1, <1>3, <1>11, <2>1, <2>3
  <2> QED
    BY <1>4, <2>2, <2>3
<1>14. dispatch' # Signal!NoSignal =>
         /\ dispatch'.key \in Keys /\ dispatch'.number <= emitted'[dispatch'.key]
         /\ \A i \in DOMAIN queue' :
              queue'[i].key = dispatch'.key => dispatch'.number < queue'[i].number
  <2> SUFFICES ASSUME dispatch # Signal!NoSignal
               PROVE  /\ dispatch.key \in Keys /\ dispatch.number <= emitted'[dispatch.key]
                      /\ \A i \in DOMAIN queue' :
                           queue'[i].key = dispatch.key => dispatch.number < queue'[i].number
    BY <1>2
  <2>1. /\ dispatch.key \in Keys /\ dispatch.number <= emitted[dispatch.key]
        /\ dispatch.number \in Nat /\ emitted[dispatch.key] \in Nat
        /\ \A i \in DOMAIN queue :
             queue[i].key = dispatch.key => dispatch.number < queue[i].number
    BY DEF SignalInv, Shaped, Numbered
  <2> QED
    BY <1>1, <1>3, <1>4, <2>1
<1>15. Numbered'
  BY <1>2, <1>12, <1>13, <1>14 DEF SignalInv, Numbered
<1>16. InOrder'
  <2> SUFFICES ASSUME NEW s \in Subs
               PROVE  /\ \A i, j \in DOMAIN heard[s] : i < j => heard[s][i] < heard[s][j]
                      /\ sub[s].state = "unused" => heard[s] = <<>>
                      /\ Listening(s) => \A i \in DOMAIN heard[s] :
                           /\ heard[s][i] <= emitted'[sub[s].key]
                           /\ \A l \in Signal!ToCome(s)' : heard[s][i] < l
    BY <1>2, <1>6 DEF InOrder
  <2>1. /\ \A i, j \in DOMAIN heard[s] : i < j => heard[s][i] < heard[s][j]
        /\ sub[s].state = "unused" => heard[s] = <<>>
    BY DEF SignalInv, InOrder
  <2>2. ASSUME Listening(s), NEW i \in DOMAIN heard[s]
        PROVE  /\ heard[s][i] <= emitted'[sub[s].key]
               /\ \A l \in Signal!ToCome(s)' : heard[s][i] < l
    <3>1. /\ sub[s].key \in Keys /\ heard[s][i] \in Nat /\ emitted[sub[s].key] \in Nat
          /\ heard[s][i] <= emitted[sub[s].key] /\ \A l \in Signal!ToCome(s) : heard[s][i] < l
      BY <2>2 DEF SignalInv, Shaped, InOrder, Placed, Listening
    <3> QED
      BY <1>1, <1>8, <3>1
  <2> QED
    BY <2>1, <2>2
<1>17. Complete'
  <2> SUFFICES ASSUME NEW s \in Subs
               PROVE  /\ \A j \in Keys : Signal!Active(s) /\ sub[s].key = j /\ Signal!Healthy(j) => Signal!Heard(s) \cup Signal!ToCome(s)' = due'[s]
                      /\ sub[s].state = "ended" => Signal!Heard(s) = due'[s]
    BY <1>2, <1>6, <1>7 DEF Complete
  <2>1. sub[s].state = "ended" => Signal!Heard(s) = due'[s]
    BY <1>2 DEF SignalInv, Complete, Signal!Active
  <2>2. ASSUME NEW j \in Keys, Signal!Active(s), sub[s].key = j, Signal!Healthy(j)
        PROVE  Signal!Heard(s) \cup Signal!ToCome(s)' = due'[s]
    <3>1. Signal!Heard(s) \cup Signal!ToCome(s) = due[s]
      BY <2>2 DEF SignalInv, Complete
    <3>2. sub[s].key \in rules
      <4>1. sub[s].key \in Keys /\ sub[s].slot \in DOMAIN handlers[sub[s].key]
        BY <2>2 DEF SignalInv, Placed, Listening, Signal!Active
      <4>2. handlers[sub[s].key] # <<>>
        BY <4>1
      <4> QED
        BY <2>2, <4>1, <4>2 DEF SignalInv, Placed
    <3> QED
      BY <1>2, <1>8, <2>2, <3>1, <3>2
  <2> QED
    BY <2>1, <2>2
<1> QED
  BY <1>9, <1>10, <1>15, <1>16, <1>17 DEF SignalInv

\* What is to come to the subscriptions of a key.
LEMMA Coming ==
  ASSUME Shaped
  PROVE  \A s, k : sub[s].key = k =>
           Signal!ToCome(s) = {n \in {dispatch.number} : \E i \in DOMAIN dispatch.left : dispatch.left[i] = s}
                         \cup Signal!Waiting(k)
<1>1. DOMAIN dispatch.left = 1..Len(dispatch.left)
  BY DEF Shaped
<1>2. \A s : Signal!Contains(dispatch.left, s) <=> \E i \in DOMAIN dispatch.left : dispatch.left[i] = s
  BY <1>1 DEF Signal!Contains
<1>3. dispatch = Signal!NoSignal => \A s : ~\E i \in DOMAIN dispatch.left : dispatch.left[i] = s
  BY DEF Signal!NoSignal
<1> QED
  BY <1>2, <1>3 DEF Signal!ToCome

\* What is to come to a subscription after a step.
LEMMA ComingNext ==
  ASSUME Shaped'
  PROVE  \A s, k : sub'[s].key = k =>
           Signal!ToCome(s)' = {n \in {dispatch'.number} : \E i \in DOMAIN dispatch'.left : dispatch'.left[i] = s}
                          \cup Signal!Waiting(k)'
<1>1. DOMAIN dispatch'.left = 1..Len(dispatch'.left)
  BY DEF Shaped
<1>2. \A s : Signal!Contains(dispatch.left, s)' <=> \E i \in DOMAIN dispatch'.left : dispatch'.left[i] = s
  BY <1>1 DEF Signal!Contains
<1>3. dispatch' = Signal!NoSignal => \A s : ~\E i \in DOMAIN dispatch'.left : dispatch'.left[i] = s
  BY DEF Signal!NoSignal
<1> QED
  BY <1>2, <1>3 DEF Signal!ToCome, Signal!Waiting

\* A new subscription has nothing to hear but what waits.
LEMMA JoinKeeps ==
  ASSUME Signal!Slot \notin Subs, SignalInv, NEW k \in Keys, NEW s \in Subs, NEW st \in {"active", "failed"},
         sub[s] = Signal!Unused, Signal!Joins(k, s),
         sub' = [sub EXCEPT ![s] = [state |-> st, key |-> k, slot |-> Len(handlers[k]) + 1]],
         cell' = [cell EXCEPT ![s] = TRUE],
         \A j \in Keys : Signal!Healthy(j)' /\ handlers'[j] # <<>> => j \in rules',
         DOMAIN due' = Subs, \A t \in Subs : t # s => due'[t] = due[t],
         st = "active" => due'[s] = Signal!Waiting(k),
         UNCHANGED <<queue, emitted, dispatch, heard>>
  PROVE  SignalInv'
<1> DEFINE list == handlers[k]
           i0 == Len(list) + 1
<1>1. list \in Seq(Cells) /\ s \in Cells
  BY DEF SignalInv, Shaped, Cells
<1>2. /\ handlers' = [handlers EXCEPT ![k] = Append(list, s)]
      /\ DOMAIN handlers' = Keys /\ handlers'[k] = Append(list, s)
      /\ \A j \in Keys : j # k => handlers'[j] = handlers[j]
  BY DEF Signal!Joins, SignalInv, Shaped
<1>3. /\ handlers'[k] \in Seq(Cells) /\ i0 \in Nat /\ i0 \notin DOMAIN list
      /\ DOMAIN handlers'[k] = DOMAIN list \cup {i0} /\ handlers'[k][i0] = s
      /\ \A i \in DOMAIN list : handlers'[k][i] = list[i]
  BY <1>1, <1>2, Appended
<1>4. /\ DOMAIN sub' = Subs
      /\ sub'[s].state = st /\ sub'[s].key = k /\ sub'[s].slot = i0
      /\ \A t \in Subs : t # s => sub'[t] = sub[t]
      /\ sub[s].state = "unused" /\ sub[s].key = "none"
  BY DEF SignalInv, Shaped, Signal!Unused
<1>5. /\ Listening(s)' /\ (Signal!Active(s)' <=> st = "active") /\ ~Listening(s)
      /\ \A t \in Subs : t # s => Listening(t)' = Listening(t) /\ Signal!Active(t)' = Signal!Active(t)
      /\ \A t : Signal!Heard(t)' = Signal!Heard(t)
  BY <1>4 DEF Listening, Signal!Active, Signal!Heard
<1>6. \A j : Signal!Waiting(j)' = Signal!Waiting(j)
  BY QuietWaits
<1>7. \A j : Signal!Healthy(j)' => Signal!Healthy(j)
  <2> SUFFICES ASSUME NEW j, Signal!Healthy(j)', NEW t \in Subs, sub[t].state = "failed" PROVE sub[t].key # j
    BY DEF Signal!Healthy
  <2> QED
    BY <1>4 DEF Signal!Healthy
<1>8. Shaped'
  <2>1. \A t \in Subs : sub'[t] \in [state : {"unused", "active", "failed", "ended"},
                                     key : Key, slot : Nat]
    <3>1. sub'[s] = [state |-> st, key |-> k, slot |-> i0]
      BY DEF SignalInv, Shaped
    <3> QED
      BY <1>3, <1>4, <3>1 DEF SignalInv, Shaped, Key
  <2>2. \A j \in Keys : handlers'[j] \in Seq(Cells)
    BY <1>2, <1>3 DEF SignalInv, Shaped
  <2> QED
    BY <1>2, <1>4, <2>1, <2>2 DEF SignalInv, Shaped
<1>9. \A t \in Subs : Listening(t) => t # s /\ sub[t].key \in Keys
  BY <1>5 DEF SignalInv, Placed, Listening
<1>10. Placed'
  <2>1. \A t \in Subs : sub'[t].state # "unused" => sub'[t].key \in Keys
    BY <1>4 DEF SignalInv, Placed
  <2>2. ASSUME NEW t \in Subs, Listening(t)'
        PROVE  sub'[t].slot \in DOMAIN handlers'[sub'[t].key] /\ handlers'[sub'[t].key][sub'[t].slot] = t
    <3>1. CASE t = s
      BY <1>3, <1>4, <3>1
    <3>2. CASE t # s
      <4>1. /\ Listening(t) /\ sub'[t] = sub[t] /\ sub[t].key \in Keys
            /\ sub[t].slot \in DOMAIN handlers[sub[t].key] /\ handlers[sub[t].key][sub[t].slot] = t
        BY <1>4, <1>5, <1>9, <2>2, <3>2 DEF SignalInv, Placed
      <4> QED
        BY <1>2, <1>3, <4>1
    <3> QED
      BY <3>1, <3>2
  <2>3. ASSUME NEW t \in Subs, NEW j \in Keys, NEW i \in DOMAIN handlers'[j], handlers'[j][i] = t
        PROVE  Listening(t)' /\ sub'[t].key = j /\ sub'[t].slot = i
    <3>1. CASE j = k /\ i = i0
      BY <1>3, <1>4, <1>5, <2>3, <3>1
    <3>2. CASE ~(j = k /\ i = i0)
      <4>1. i \in DOMAIN handlers[j] /\ handlers'[j][i] = handlers[j][i]
        BY <1>2, <1>3, <3>2
      <4>2. Listening(t) /\ sub[t].key = j /\ sub[t].slot = i
        BY <2>3, <4>1 DEF SignalInv, Placed
      <4> QED
        BY <1>4, <1>5, <1>9, <4>2
    <3> QED
      BY <3>1, <3>2
  <2>4. \A j \in Keys : Signal!Healthy(j)' /\ handlers'[j] # <<>> => j \in rules'
    OBVIOUS
  <2>5. \A t \in Subs : cell'[t] <=> Listening(t)'
    BY <1>5 DEF SignalInv, Shaped, Placed
  <2> QED
    BY <2>1, <2>2, <2>3, <2>4, <2>5 DEF Placed
<1>11. Numbered'
  <2>1. \A t \in Subs : sub[t].state # "unused" => sub'[t] = sub[t]
    BY <1>4
  <2> QED
    BY <2>1 DEF SignalInv, Numbered
<1>12. \A i \in DOMAIN dispatch.left : dispatch.left[i] # s
  <2>1. dispatch = Signal!NoSignal => DOMAIN dispatch.left = {}
    BY DEF Signal!NoSignal
  <2> QED
    BY <1>4, <2>1 DEF SignalInv, Numbered
<1>13. Signal!ToCome(s)' = Signal!Waiting(k)
  <2>1. ~\E i \in DOMAIN dispatch'.left : dispatch'.left[i] = s
    BY <1>12
  <2>2. Signal!ToCome(s)' = {n \in {dispatch'.number} : \E i \in DOMAIN dispatch'.left : dispatch'.left[i] = s}
                       \cup Signal!Waiting(k)'
    BY <1>4, <1>8, ComingNext
  <2> QED
    BY <1>6, <2>1, <2>2
<1>14. \A t \in Subs : t # s => Signal!ToCome(t)' = Signal!ToCome(t)
  <2> SUFFICES ASSUME NEW t \in Subs, t # s PROVE Signal!ToCome(t)' = Signal!ToCome(t)
    OBVIOUS
  <2>0. PICK j : j = sub[t].key
    OBVIOUS
  <2>1. Signal!ToCome(t) = {n \in {dispatch.number} : \E i \in DOMAIN dispatch.left : dispatch.left[i] = t}
                      \cup Signal!Waiting(j)
    BY <2>0, Coming DEF SignalInv
  <2>2. sub'[t].key = j
    BY <1>4, <2>0
  <2>3. Signal!ToCome(t)' = {n \in {dispatch'.number} : \E i \in DOMAIN dispatch'.left : dispatch'.left[i] = t}
                       \cup Signal!Waiting(j)'
    BY <1>8, <2>2, ComingNext
  <2>4. Signal!Waiting(j)' = Signal!Waiting(j)
    BY <1>6
  <2> QED
    BY <2>1, <2>3, <2>4
<1>15. InOrder'
  <2>1. heard[s] = << >>
    BY <1>4 DEF SignalInv, InOrder
  <2> SUFFICES ASSUME NEW t \in Subs
               PROVE  /\ \A i, j \in DOMAIN heard[t] : i < j => heard[t][i] < heard[t][j]
                      /\ sub'[t].state = "unused" => heard[t] = <<>>
                      /\ Listening(t)' => \A i \in DOMAIN heard[t] :
                           /\ heard[t][i] <= emitted[sub'[t].key]
                           /\ \A l \in Signal!ToCome(t)' : heard[t][i] < l
    BY DEF InOrder
  <2>2. CASE t = s
    BY <2>1, <2>2
  <2>3. CASE t # s
    BY <1>4, <1>5, <1>14, <2>3 DEF SignalInv, InOrder
  <2> QED
    BY <2>2, <2>3
<1>16. Complete'
  <2>1. Signal!Heard(s) = {}
    BY <1>4 DEF SignalInv, InOrder, Signal!Heard
  <2> SUFFICES ASSUME NEW t \in Subs
               PROVE  /\ \A j \in Keys : Signal!Active(t)' /\ sub'[t].key = j /\ Signal!Healthy(j)' =>
                           Signal!Heard(t) \cup Signal!ToCome(t)' = due'[t]
                      /\ sub'[t].state = "ended" => Signal!Heard(t) = due'[t]
    BY <1>5 DEF Complete
  <2>2. CASE t = s
    BY <1>4, <1>5, <1>13, <2>1, <2>2
  <2>3. CASE t # s
    BY <1>4, <1>5, <1>7, <1>14, <2>3 DEF SignalInv, Complete
  <2> QED
    BY <2>2, <2>3
<1> QED
  BY <1>8, <1>10, <1>11, <1>15, <1>16 DEF SignalInv

\* The end of a subscription takes its slot and its cell, and nothing else.
LEMMA EndKeeps ==
  ASSUME Signal!Slot \notin Subs, SignalInv, NEW s \in Subs, Signal!Unsubscribe(s)
  PROVE  SignalInv'
<1> DEFINE k == sub[s].key
           i0 == sub[s].slot
           list == [handlers[k] EXCEPT ![i0] = Signal!Slot]
<1>1. /\ Signal!Active(s) /\ Listening(s) /\ k \in Keys /\ i0 \in DOMAIN handlers[k] /\ handlers[k][i0] = s
      /\ s # Signal!Slot
  BY DEF Signal!Unsubscribe, Signal!Ends, SignalInv, Placed, Signal!Active, Listening
<1>2. /\ handlers' = [handlers EXCEPT ![k] = Signal!Emptied(s)]
      /\ rules' = (IF Signal!Emptied(s) = <<>> THEN rules \ {k} ELSE rules)
      /\ sub' = [sub EXCEPT ![s].state = "ended"]
      /\ due' = [due EXCEPT ![s] = Signal!Heard(s)] /\ cell' = [cell EXCEPT ![s] = FALSE]
      /\ UNCHANGED <<queue, emitted, dispatch, heard>>
  BY DEF Signal!Unsubscribe, Signal!Ends, Signal!bus
<1>3. /\ Signal!Emptied(s) = (IF \A i \in DOMAIN list : list[i] = Signal!Slot THEN <<>> ELSE list)
      /\ DOMAIN list = DOMAIN handlers[k]
      /\ \A i \in DOMAIN list : list[i] = IF i = i0 THEN Signal!Slot ELSE handlers[k][i]
  BY DEF Signal!Emptied
<1>4. list \in Seq(Cells) /\ << >> \in Seq(Cells)
  <2>1. handlers[k] \in Seq(Cells) /\ Signal!Slot \in Cells
    BY <1>1 DEF SignalInv, Shaped, Cells
  <2> QED
    BY <1>1, <2>1
<1> HIDE DEF list
<1>5. /\ DOMAIN handlers' = Keys /\ handlers'[k] = Signal!Emptied(s) /\ handlers'[k] \in Seq(Cells)
      /\ \A j \in Keys : j # k => handlers'[j] = handlers[j]
      /\ \A i \in DOMAIN handlers'[k] : i \in DOMAIN handlers[k] /\ handlers'[k] = list
  <2>1. DOMAIN << >> = {}
    OBVIOUS
  <2> QED
    BY <1>1, <1>2, <1>3, <1>4, <2>1 DEF SignalInv, Shaped
<1>6. /\ DOMAIN sub' = Subs /\ sub'[s].state = "ended" /\ sub'[s].key = k /\ sub'[s].slot = i0
      /\ \A t \in Subs : t # s => sub'[t] = sub[t]
      /\ \A t \in Subs : sub'[t].key = sub[t].key /\ sub'[t].slot = sub[t].slot
      /\ sub[s].state = "active"
      /\ sub'[s] \in [state : {"unused", "active", "failed", "ended"}, key : Key, slot : Nat]
  BY <1>1, <1>2 DEF SignalInv, Shaped, Signal!Active
<1> HIDE DEF k, i0
<1>7. /\ ~Listening(s)' /\ ~Signal!Active(s)'
      /\ \A t \in Subs : t # s => Listening(t)' = Listening(t) /\ Signal!Active(t)' = Signal!Active(t)
      /\ \A t : Signal!Heard(t)' = Signal!Heard(t)
  BY <1>2, <1>6 DEF Listening, Signal!Active, Signal!Heard
<1>8. \A j : Signal!Waiting(j)' = Signal!Waiting(j)
  BY <1>2, QuietWaits
<1>9. \A j : Signal!Healthy(j)' => Signal!Healthy(j)
  <2> SUFFICES ASSUME NEW j, Signal!Healthy(j)', NEW t \in Subs, sub[t].state = "failed" PROVE sub[t].key # j
    BY DEF Signal!Healthy
  <2> QED
    BY <1>6 DEF Signal!Healthy
<1>10. Shaped'
  <2>1. \A t \in Subs : sub'[t] \in [state : {"unused", "active", "failed", "ended"},
                                     key : Key, slot : Nat]
    BY <1>6 DEF SignalInv, Shaped
  <2>2. \A j \in Keys : handlers'[j] \in Seq(Cells)
    BY <1>5 DEF SignalInv, Shaped
  <2> QED
    BY <1>2, <1>5, <1>6, <2>1, <2>2 DEF SignalInv, Shaped
<1>11. \A t \in Subs : sub[t].state # "unused" => sub[t].key \in Keys
  BY DEF SignalInv, Placed
<1>12. Placed'
  <2>1. \A t \in Subs : sub'[t].state # "unused" => sub'[t].key \in Keys
    BY <1>1, <1>6, <1>11
  <2>2. ASSUME NEW t \in Subs, Listening(t)'
        PROVE  sub'[t].slot \in DOMAIN handlers'[sub'[t].key] /\ handlers'[sub'[t].key][sub'[t].slot] = t
    <3>1. /\ t # s /\ Listening(t) /\ sub'[t] = sub[t] /\ t # Signal!Slot
          /\ sub[t].slot \in DOMAIN handlers[sub[t].key] /\ handlers[sub[t].key][sub[t].slot] = t
          /\ sub[t].key \in Keys
      BY <1>6, <1>7, <1>11, <2>2 DEF SignalInv, Placed, Listening
    <3>2. CASE sub[t].key = k
      <4>1. /\ sub[t].slot \in DOMAIN list /\ sub[t].slot # i0
            /\ list[sub[t].slot] = t
        BY <1>1, <1>3, <3>1, <3>2
      <4>2. handlers'[k] = list
        BY <1>3, <1>5, <3>1, <4>1
      <4> QED
        BY <3>1, <3>2, <4>1, <4>2
    <3>3. CASE sub[t].key # k
      BY <1>5, <3>1, <3>3
    <3> QED
      BY <3>2, <3>3
  <2>3. ASSUME NEW t \in Subs, NEW j \in Keys, NEW i \in DOMAIN handlers'[j], handlers'[j][i] = t
        PROVE  Listening(t)' /\ sub'[t].key = j /\ sub'[t].slot = i
    <3>1. t # Signal!Slot
      OBVIOUS
    <3>2. i \in DOMAIN handlers[j] /\ handlers[j][i] = t /\ (j = k => i # i0)
      BY <1>3, <1>5, <2>3, <3>1
    <3>3. Listening(t) /\ sub[t].key = j /\ sub[t].slot = i
      BY <3>2 DEF SignalInv, Placed
    <3>4. t # s
      BY <3>2, <3>3 DEF k, i0
    <3> QED
      BY <1>6, <1>7, <3>3, <3>4
  <2>4. ASSUME NEW j \in Keys, Signal!Healthy(j)', handlers'[j] # <<>>
        PROVE  j \in rules'
    <3>1. handlers[j] # <<>>
      BY <1>1, <1>5, <2>4
    <3>2. j \in rules
      BY <1>9, <2>4, <3>1 DEF SignalInv, Placed
    <3> QED
      BY <1>2, <1>5, <2>4, <3>2
  <2>5. \A t \in Subs : cell'[t] <=> Listening(t)'
    BY <1>2, <1>7 DEF SignalInv, Shaped, Placed
  <2> QED
    BY <2>1, <2>2, <2>3, <2>4, <2>5 DEF Placed
<1>13. Numbered'
  <2>1. \A t \in Subs : /\ sub[t].state # "unused" => sub'[t].state # "unused"
                        /\ sub'[t].key = sub[t].key
    BY <1>6
  <2> QED
    BY <1>2, <2>1 DEF SignalInv, Numbered
<1>14. \A t \in Subs : Signal!ToCome(t)' = Signal!ToCome(t)
  <2> SUFFICES ASSUME NEW t \in Subs PROVE Signal!ToCome(t)' = Signal!ToCome(t)
    OBVIOUS
  <2>0. PICK j : j = sub[t].key
    OBVIOUS
  <2>1. Signal!ToCome(t) = {n \in {dispatch.number} : \E i \in DOMAIN dispatch.left : dispatch.left[i] = t}
                      \cup Signal!Waiting(j)
    BY <2>0, Coming DEF SignalInv
  <2>2. sub'[t].key = j
    BY <1>6, <2>0
  <2>3. Signal!ToCome(t)' = {n \in {dispatch'.number} : \E i \in DOMAIN dispatch'.left : dispatch'.left[i] = t}
                       \cup Signal!Waiting(j)'
    BY <1>10, <2>2, ComingNext
  <2>4. Signal!Waiting(j)' = Signal!Waiting(j)
    BY <1>8
  <2> QED
    BY <1>2, <2>1, <2>3, <2>4
<1>15. InOrder'
  <2> SUFFICES ASSUME NEW t \in Subs
               PROVE  /\ \A i, j \in DOMAIN heard[t] : i < j => heard[t][i] < heard[t][j]
                      /\ sub'[t].state = "unused" => heard[t] = <<>>
                      /\ Listening(t)' => \A i \in DOMAIN heard[t] :
                           /\ heard[t][i] <= emitted[sub'[t].key]
                           /\ \A l \in Signal!ToCome(t)' : heard[t][i] < l
    BY <1>2 DEF InOrder
  <2>1. CASE t = s
    BY <1>6, <1>7, <2>1 DEF SignalInv, InOrder
  <2>2. CASE t # s
    BY <1>6, <1>7, <1>14, <2>2 DEF SignalInv, InOrder
  <2> QED
    BY <2>1, <2>2
<1>16. Complete'
  <2> SUFFICES ASSUME NEW t \in Subs
               PROVE  /\ \A j \in Keys : Signal!Active(t)' /\ sub'[t].key = j /\ Signal!Healthy(j)' =>
                           Signal!Heard(t) \cup Signal!ToCome(t)' = due'[t]
                      /\ sub'[t].state = "ended" => Signal!Heard(t) = due'[t]
    BY <1>7 DEF Complete
  <2>1. CASE t = s
    BY <1>2, <1>6, <1>7, <2>1 DEF SignalInv, Shaped
  <2>2. CASE t # s
    BY <1>2, <1>6, <1>7, <1>9, <1>14, <2>2 DEF SignalInv, Complete
  <2> QED
    BY <2>1, <2>2
<1> QED
  BY <1>10, <1>12, <1>13, <1>15, <1>16 DEF SignalInv

\* The copy of the list names every subscription that is to hear the signal.
LEMMA BeginKeeps ==
  ASSUME Signal!Slot \notin Subs, SignalInv, Signal!BeginSignal
  PROVE  SignalInv'
<1>0. PICK k, n : k = Head(queue).key /\ n = Head(queue).number
  OBVIOUS
<1>1. /\ dispatch = Signal!NoSignal /\ queue # << >> /\ queue' = Tail(queue)
      /\ dispatch' = (IF handlers[k] = <<>> THEN Signal!NoSignal
                      ELSE [key |-> k, number |-> n, left |-> handlers[k], inCallback |-> FALSE])
      /\ UNCHANGED <<handlers, cell, sub, rules, emitted, heard, due>>
  BY <1>0 DEF Signal!BeginSignal, Signal!program
<1>2. queue \in Seq(Messages)
  BY DEF SignalInv, Shaped
<1>3. /\ queue' \in Seq(Messages) /\ Head(queue) = queue[1] /\ queue[1] \in Messages /\ 1 \in DOMAIN queue
      /\ \A i \in DOMAIN queue' : i \in Nat /\ i + 1 \in DOMAIN queue /\ queue'[i] = queue[i + 1]
                                  /\ queue'[i] \in Messages
      /\ \A i \in DOMAIN queue : i \in Nat /\ i >= 1
  BY <1>1, <1>2, Taken
<1>4. k \in Keys /\ n \in Nat /\ k = queue[1].key /\ n = queue[1].number
  BY <1>0, <1>3 DEF Messages
<1>5. \A j : Signal!Waiting(j) = Signal!Waiting(j)' \cup (IF j = k THEN {n} ELSE {})
  BY <1>0, <1>1, TakenWaits DEF SignalInv
<1>6. \A t : Listening(t)' = Listening(t) /\ Signal!Active(t)' = Signal!Active(t) /\ Signal!Heard(t)' = Signal!Heard(t)
  BY <1>1 DEF Listening, Signal!Active, Signal!Heard
<1>7. \A j : Signal!Healthy(j)' = Signal!Healthy(j)
  BY <1>1 DEF Signal!Healthy
<1>8. handlers[k] \in Seq(Cells) /\ << >> \in Seq(Cells)
  BY <1>4 DEF SignalInv, Shaped
<1>9. dispatch' \in [key : Key, number : Nat, left : Seq(Cells), inCallback : BOOLEAN]
  BY <1>1, <1>4, <1>8 DEF Key, Signal!NoSignal
<1>10. Shaped'
  BY <1>1, <1>3, <1>9 DEF SignalInv, Shaped
<1>11. Placed'
  BY <1>1, <1>6, <1>7 DEF SignalInv, Placed
<1>12. \A t \in Subs : Listening(t) => sub[t].key \in Keys /\ sub[t].state # "unused"
  BY DEF SignalInv, Placed, Listening
<1>13. Numbered'
  <2>1. \A i \in DOMAIN queue' : queue'[i].number <= emitted'[queue'[i].key]
    BY <1>1, <1>3 DEF SignalInv, Numbered
  <2>2. \A i, j \in DOMAIN queue' :
          i < j /\ queue'[i].key = queue'[j].key => queue'[i].number < queue'[j].number
    <3> SUFFICES ASSUME NEW i \in DOMAIN queue', NEW j \in DOMAIN queue', i < j,
                        queue'[i].key = queue'[j].key
                 PROVE  queue'[i].number < queue'[j].number
      OBVIOUS
    <3>1. i + 1 < j + 1
      BY <1>3
    <3> QED
      BY <1>3, <3>1 DEF SignalInv, Numbered
  <2>3. CASE handlers[k] = <<>>
    <3>1. dispatch' = Signal!NoSignal
      BY <1>1, <2>3
    <3> QED
      BY <2>1, <2>2, <3>1 DEF Numbered
  <2>4. CASE handlers[k] # <<>>
    <3>1. dispatch'.key = k /\ dispatch'.number = n /\ dispatch'.left = handlers[k]
      BY <1>1, <2>4
    <3>2. n <= emitted[k]
      BY <1>3, <1>4 DEF SignalInv, Numbered
    <3>3. \A i \in DOMAIN queue' : queue'[i].key = k => n < queue'[i].number
      <4> SUFFICES ASSUME NEW i \in DOMAIN queue', queue'[i].key = k PROVE n < queue'[i].number
        OBVIOUS
      <4>1. 1 < i + 1
        <5>1. i + 1 # 1 /\ i \in Nat
          BY <1>3, <2>2 
        <5> QED
          BY <5>1
      <4> QED
        BY <1>3, <1>4, <4>1 DEF SignalInv, Numbered
    <3>4. \A t \in Subs : \A i \in DOMAIN handlers[k] : handlers[k][i] = t =>
            /\ sub[t].state # "unused" /\ sub[t].key = k
            /\ \A j \in DOMAIN handlers[k] : handlers[k][j] = t => i = j
      BY <1>4, <1>12 DEF SignalInv, Placed
    <3> QED
      BY <1>1, <1>4, <2>1, <2>2, <3>1, <3>2, <3>3, <3>4 DEF Numbered
  <2> QED
    BY <2>3, <2>4
<1>14. ASSUME NEW t \in Subs, Listening(t) PROVE Signal!ToCome(t)' = Signal!ToCome(t)
  <2>1. PICK j : j = sub[t].key
    OBVIOUS
  <2>2. /\ j \in Keys /\ sub[t].slot \in DOMAIN handlers[j] /\ handlers[j][sub[t].slot] = t
    BY <1>12, <1>14, <2>1 DEF SignalInv, Placed
  <2>3. Signal!ToCome(t) = Signal!Waiting(j)
    <3>1. Signal!ToCome(t) = {l \in {dispatch.number} : \E i \in DOMAIN dispatch.left : dispatch.left[i] = t}
                        \cup Signal!Waiting(j)
      BY <2>1, Coming DEF SignalInv
    <3>2. ~\E i \in DOMAIN dispatch.left : dispatch.left[i] = t
      BY <1>1 DEF Signal!NoSignal
    <3> QED
      BY <3>1, <3>2
  <2>4. sub'[t].key = j
    BY <1>1, <2>1
  <2>5. Signal!ToCome(t)' = {l \in {dispatch'.number} : \E i \in DOMAIN dispatch'.left : dispatch'.left[i] = t}
                       \cup Signal!Waiting(j)'
    BY <1>10, <2>4, ComingNext
  <2>6. CASE j = k
    <3>1. handlers[k] # << >>
      BY <2>2, <2>6
    <3>2. dispatch'.number = n /\ dispatch'.left = handlers[k]
      BY <1>1, <3>1
    <3>3. Signal!ToCome(t)' = {n} \cup Signal!Waiting(k)'
      BY <2>2, <2>5, <2>6, <3>2
    <3> QED
      BY <1>5, <2>3, <2>6, <3>3
  <2>7. CASE j # k
    <3>1. ~\E i \in DOMAIN dispatch'.left : dispatch'.left[i] = t
      <4>1. CASE handlers[k] = << >>
        BY <1>1, <4>1 DEF Signal!NoSignal
      <4>2. CASE handlers[k] # << >>
        BY <1>1, <1>4, <2>1, <2>7, <4>2 DEF SignalInv, Placed
      <4> QED
        BY <4>1, <4>2
    <3>2. Signal!Waiting(j)' = Signal!Waiting(j)
      BY <1>5, <2>7
    <3> QED
      BY <2>3, <2>5, <3>1, <3>2
  <2> QED
    BY <2>6, <2>7
<1>15. InOrder'
  <2> SUFFICES ASSUME NEW t \in Subs
               PROVE  /\ \A i, j \in DOMAIN heard[t] : i < j => heard[t][i] < heard[t][j]
                      /\ sub[t].state = "unused" => heard[t] = <<>>
                      /\ Listening(t) => \A i \in DOMAIN heard[t] :
                           /\ heard[t][i] <= emitted[sub[t].key]
                           /\ \A l \in Signal!ToCome(t)' : heard[t][i] < l
    BY <1>1, <1>6 DEF InOrder
  <2> QED
    BY <1>14 DEF SignalInv, InOrder
<1>16. Complete'
  <2> SUFFICES ASSUME NEW t \in Subs
               PROVE  /\ \A j \in Keys : Signal!Active(t) /\ sub[t].key = j /\ Signal!Healthy(j) =>
                           Signal!Heard(t) \cup Signal!ToCome(t)' = due[t]
                      /\ sub[t].state = "ended" => Signal!Heard(t) = due[t]
    BY <1>1, <1>6, <1>7 DEF Complete
  <2>1. Signal!Active(t) => Listening(t)
    BY DEF Signal!Active, Listening
  <2> QED
    BY <1>14, <2>1 DEF SignalInv, Complete
<1> QED
  BY <1>10, <1>11, <1>13, <1>15, <1>16 DEF SignalInv

\* A callback is called with a signal that was to come to it.
LEMMA CallKeeps ==
  ASSUME Signal!Slot \notin Subs, SignalInv, Signal!NextHandler
  PROVE  SignalInv'
<1>0. PICK s, k, n, left : s = Head(dispatch.left) /\ k = dispatch.key /\ n = dispatch.number
                           /\ left = dispatch.left
  OBVIOUS
<1> DEFINE called == s # Signal!Slot /\ cell[s]
<1>1. /\ dispatch # Signal!NoSignal /\ left # << >>
      /\ dispatch' = [dispatch EXCEPT !.left = Tail(@), !.inCallback = called]
      /\ heard' = (IF called THEN [heard EXCEPT ![s] = Append(@, n)] ELSE heard)
      /\ UNCHANGED <<handlers, cell, sub, rules, queue, emitted, due>>
  BY <1>0 DEF Signal!NextHandler, Signal!program, Signal!bus
<1>2. left \in Seq(Cells) /\ n \in Nat
  BY <1>0 DEF SignalInv, Shaped
<1>3. /\ Tail(left) \in Seq(Cells) /\ s = left[1] /\ s \in Cells /\ 1 \in DOMAIN left
      /\ \A i \in DOMAIN Tail(left) : i \in Nat /\ i + 1 \in DOMAIN left /\ Tail(left)[i] = left[i + 1]
      /\ \A i \in DOMAIN left : i \in Nat /\ i >= 1 /\ (i # 1 => i - 1 \in DOMAIN Tail(left))
  BY <1>0, <1>1, <1>2, Taken
<1>4. called => s \in Subs /\ Listening(s)
  BY <1>3 DEF SignalInv, Placed, Cells
<1>5. called \in BOOLEAN
  BY <1>3 DEF SignalInv, Shaped, Cells
<1> HIDE DEF called
<1>6. /\ dispatch' \in [key : Key, number : Nat, left : Seq(Cells), inCallback : BOOLEAN]
      /\ dispatch'.left = Tail(left) /\ dispatch'.key = k /\ dispatch'.number = n
  BY <1>0, <1>1, <1>3, <1>5 DEF SignalInv, Shaped
<1>7. \A t : Listening(t)' = Listening(t) /\ Signal!Active(t)' = Signal!Active(t)
  BY <1>1 DEF Listening, Signal!Active
<1>8. /\ DOMAIN heard' = Subs
      /\ \A t \in Subs : ~(called /\ t = s) => heard'[t] = heard[t]
      /\ called => heard'[s] = Append(heard[s], n)
  BY <1>1, <1>4 DEF SignalInv, Shaped
<1>9. called => heard[s] \in Seq(Nat)
  BY <1>4 DEF SignalInv, Shaped
<1>10. called => /\ heard'[s] \in Seq(Nat) /\ Signal!Heard(s)' = Signal!Heard(s) \cup {n}
                /\ DOMAIN heard'[s] = DOMAIN heard[s] \cup {Len(heard[s]) + 1}
                /\ heard'[s][Len(heard[s]) + 1] = n
                /\ \A i \in DOMAIN heard[s] : /\ i \in Nat /\ i < Len(heard[s]) + 1
                                              /\ heard'[s][i] = heard[s][i]
  <2> SUFFICES ASSUME called
               PROVE  /\ heard'[s] \in Seq(Nat) /\ Signal!Heard(s)' = Signal!Heard(s) \cup {n}
                      /\ DOMAIN heard'[s] = DOMAIN heard[s] \cup {Len(heard[s]) + 1}
                      /\ heard'[s][Len(heard[s]) + 1] = n
                      /\ \A i \in DOMAIN heard[s] : /\ i \in Nat /\ i < Len(heard[s]) + 1
                                                    /\ heard'[s][i] = heard[s][i]
    OBVIOUS
  <2>1. /\ heard'[s] \in Seq(Nat)
        /\ DOMAIN heard'[s] = DOMAIN heard[s] \cup {Len(heard[s]) + 1}
        /\ heard'[s][Len(heard[s]) + 1] = n
        /\ \A i \in DOMAIN heard[s] : /\ i \in Nat /\ i < Len(heard[s]) + 1
                                      /\ heard'[s][i] = heard[s][i]
    <3>1. heard[s] \in Seq(Nat) /\ heard'[s] = Append(heard[s], n)
      BY <1>8, <1>9
    <3> QED
      BY <1>2, <3>1, Appended
  <2>2. Signal!Heard(s)' = {heard'[s][i] : i \in DOMAIN heard'[s]} /\ Signal!Heard(s) = {heard[s][i] : i \in DOMAIN heard[s]}
    BY DEF Signal!Heard
  <2>3. {heard'[s][i] : i \in DOMAIN heard'[s]} = {heard[s][i] : i \in DOMAIN heard[s]} \cup {n}
    BY <2>1
  <2> QED
    BY <2>1, <2>2, <2>3
<1>11. \A t \in Subs : ~(called /\ t = s) => Signal!Heard(t)' = Signal!Heard(t)
  BY <1>8 DEF Signal!Heard
<1>12. Shaped'
  <2>1. \A t \in Subs : heard'[t] \in Seq(Nat)
    BY <1>8, <1>10 DEF SignalInv, Shaped
  <2> QED
    BY <1>1, <1>6, <1>8, <2>1 DEF SignalInv, Shaped
<1>13. Placed'
  BY <1>1, <1>7 DEF SignalInv, Placed, Signal!Healthy
<1>14. /\ k \in Keys /\ n <= emitted[k]
       /\ \A i \in DOMAIN queue : queue[i].key = k => n < queue[i].number
       /\ \A t \in Subs : \A i \in DOMAIN left : left[i] = t =>
            /\ sub[t].state # "unused" /\ sub[t].key = k
            /\ \A j \in DOMAIN left : left[j] = t => i = j
  BY <1>0, <1>1 DEF SignalInv, Numbered
<1>15. Numbered'
  <2>1. \A t \in Subs : \A i \in DOMAIN Tail(left) : Tail(left)[i] = t =>
          /\ sub[t].state # "unused" /\ sub[t].key = k
          /\ \A j \in DOMAIN Tail(left) : Tail(left)[j] = t => i = j
    <3> SUFFICES ASSUME NEW t \in Subs, NEW i \in DOMAIN Tail(left), Tail(left)[i] = t
                 PROVE  /\ sub[t].state # "unused" /\ sub[t].key = k
                        /\ \A j \in DOMAIN Tail(left) : Tail(left)[j] = t => i = j
      OBVIOUS
    <3>1. i \in Nat /\ i + 1 \in DOMAIN left /\ left[i + 1] = t
      BY <1>3
    <3>2. \A j \in DOMAIN Tail(left) : Tail(left)[j] = t =>
            j \in Nat /\ j + 1 \in DOMAIN left /\ left[j + 1] = t
      BY <1>3
    <3>3. \A j \in DOMAIN Tail(left) : Tail(left)[j] = t => i + 1 = j + 1
      BY <1>14, <3>1, <3>2
    <3> QED
      BY <1>14, <3>1, <3>2, <3>3
  <2> QED
    BY <1>1, <1>6, <1>14, <2>1 DEF SignalInv, Numbered
<1>16. \A i \in DOMAIN Tail(left) : s \in Subs => Tail(left)[i] # s
  <2> SUFFICES ASSUME NEW i \in DOMAIN Tail(left), s \in Subs, Tail(left)[i] = s PROVE FALSE
    OBVIOUS
  <2>1. i \in Nat /\ i + 1 \in DOMAIN left /\ left[i + 1] = s /\ left[1] = s /\ 1 \in DOMAIN left
    BY <1>3
  <2>2. i + 1 = 1
    BY <1>14, <2>1
  <2>3. i # 0
    <3>1. DOMAIN Tail(left) = 1..Len(Tail(left))
      BY <1>3
    <3> QED
      BY <3>1
  <2> QED
    BY <2>1, <2>2, <2>3
<1>17. ASSUME NEW t \in Subs, t # s PROVE Signal!ToCome(t)' = Signal!ToCome(t)
  <2>1. PICK j : j = sub[t].key
    OBVIOUS
  <2>2. Signal!ToCome(t) = {l \in {dispatch.number} : \E i \in DOMAIN dispatch.left : dispatch.left[i] = t}
                      \cup Signal!Waiting(j)
    BY <2>1, Coming DEF SignalInv
  <2>3. sub'[t].key = j
    BY <1>1, <2>1
  <2>4. Signal!ToCome(t)' = {l \in {dispatch'.number} : \E i \in DOMAIN dispatch'.left : dispatch'.left[i] = t}
                       \cup Signal!Waiting(j)'
    BY <1>12, <2>3, ComingNext
  <2>5. Signal!Waiting(j)' = Signal!Waiting(j)
    BY <1>1, QuietWaits
  <2>6. (\E i \in DOMAIN left : left[i] = t) <=> \E i \in DOMAIN Tail(left) : Tail(left)[i] = t
    <3>1. ASSUME NEW i \in DOMAIN left, left[i] = t
          PROVE  \E j1 \in DOMAIN Tail(left) : Tail(left)[j1] = t
      <4>1. i # 1 /\ i \in Nat
        BY <1>3, <1>17, <3>1
      <4>2. i - 1 \in DOMAIN Tail(left) /\ Tail(left)[i - 1] = left[(i - 1) + 1] /\ (i - 1) + 1 = i
        BY <1>3, <4>1
      <4> QED
        BY <3>1, <4>2
    <3> QED
      BY <1>3, <3>1
  <2> QED
    BY <1>0, <1>6, <2>2, <2>4, <2>5, <2>6
<1>18. called => Signal!ToCome(s) = Signal!ToCome(s)' \cup {n}
  <2> SUFFICES ASSUME called PROVE Signal!ToCome(s) = Signal!ToCome(s)' \cup {n}
    OBVIOUS
  <2>1. sub[s].key = k /\ sub'[s].key = k
    BY <1>1, <1>3, <1>4, <1>14
  <2>2. Signal!ToCome(s) = {l \in {dispatch.number} : \E i \in DOMAIN dispatch.left : dispatch.left[i] = s}
                      \cup Signal!Waiting(k)
    BY <2>1, Coming DEF SignalInv
  <2>3. Signal!ToCome(s)' = {l \in {dispatch'.number} : \E i \in DOMAIN dispatch'.left : dispatch'.left[i] = s}
                       \cup Signal!Waiting(k)'
    BY <1>12, <2>1, ComingNext
  <2>4. Signal!Waiting(k)' = Signal!Waiting(k)
    BY <1>1, QuietWaits
  <2>5. Signal!ToCome(s)' = Signal!Waiting(k)
    BY <1>4, <1>6, <1>16, <2>3, <2>4
  <2>6. Signal!ToCome(s) = {n} \cup Signal!Waiting(k)
    BY <1>0, <1>3, <2>2
  <2> QED
    BY <2>5, <2>6
<1>19. called => \A l \in Signal!ToCome(s)' : n < l
  <2> SUFFICES ASSUME called, NEW l \in Signal!ToCome(s)' PROVE n < l
    OBVIOUS
  <2>1. sub'[s].key = k
    BY <1>1, <1>3, <1>4, <1>14
  <2>2. Signal!ToCome(s)' = {j \in {dispatch'.number} : \E i \in DOMAIN dispatch'.left : dispatch'.left[i] = s}
                       \cup Signal!Waiting(k)'
    BY <1>12, <2>1, ComingNext
  <2>3. l \in Signal!Waiting(k)'
    BY <1>4, <1>6, <1>16, <2>2
  <2>4. l \in Signal!Waiting(k)
    BY <1>1, <2>3, QuietWaits
  <2> QED
    BY <1>14, <2>4 DEF Signal!Waiting
<1>20. InOrder'
  <2> SUFFICES ASSUME NEW t \in Subs
               PROVE  /\ \A i, j \in DOMAIN heard'[t] : i < j => heard'[t][i] < heard'[t][j]
                      /\ sub[t].state = "unused" => heard'[t] = <<>>
                      /\ Listening(t) => \A i \in DOMAIN heard'[t] :
                           /\ heard'[t][i] <= emitted[sub[t].key]
                           /\ \A l \in Signal!ToCome(t)' : heard'[t][i] < l
    BY <1>1, <1>7 DEF InOrder
  <2>1. /\ \A i, j \in DOMAIN heard[t] : i < j => heard[t][i] < heard[t][j]
        /\ sub[t].state = "unused" => heard[t] = <<>>
        /\ Listening(t) => \A i \in DOMAIN heard[t] :
             heard[t][i] <= emitted[sub[t].key] /\ \A l \in Signal!ToCome(t) : heard[t][i] < l
    BY DEF SignalInv, InOrder
  <2>2. CASE called /\ t = s
    <3>1. Listening(t) /\ sub[t].state # "unused" /\ sub[t].key = k
      BY <1>3, <1>4, <1>14, <2>2
    <3>2. n \in Signal!ToCome(t)
      BY <1>18, <2>2
    <3>3. \A i \in DOMAIN heard[t] : heard[t][i] < n /\ heard[t][i] \in Nat
      <4>1. \A i \in DOMAIN heard[t] : heard[t][i] \in Nat
        BY <1>9, <2>2, Elements
      <4> QED
        BY <2>1, <3>1, <3>2, <4>1
    <3>4. \A i, j \in DOMAIN heard'[t] : i < j => heard'[t][i] < heard'[t][j]
      <4> SUFFICES ASSUME NEW i \in DOMAIN heard'[t], NEW j \in DOMAIN heard'[t], i < j
                   PROVE  heard'[t][i] < heard'[t][j]
        OBVIOUS
      <4>0. Len(heard[s]) \in Nat
        BY <1>9, <2>2
      <4>1. i \in DOMAIN heard[t]
        <5>1. j \in DOMAIN heard[s] => j \in Nat /\ j < Len(heard[s]) + 1
          BY <1>10, <2>2
        <5>2. j \in DOMAIN heard[s] \/ j = Len(heard[s]) + 1
          BY <1>10, <2>2
        <5>3. i # Len(heard[s]) + 1
          BY <4>0, <5>1, <5>2
        <5> QED
          BY <1>10, <2>2, <5>3
      <4>2. CASE j \in DOMAIN heard[t]
        BY <1>10, <2>1, <2>2, <4>1, <4>2
      <4>3. CASE j = Len(heard[s]) + 1
        BY <1>10, <2>2, <3>3, <4>1, <4>3
      <4> QED
        BY <1>10, <2>2, <4>2, <4>3
    <3>5. \A i \in DOMAIN heard'[t] : \A l \in Signal!ToCome(t)' : heard'[t][i] < l
      BY <1>10, <1>18, <1>19, <2>1, <2>2, <3>1
    <3>6. \A i \in DOMAIN heard'[t] : heard'[t][i] <= emitted[sub[t].key]
      BY <1>10, <1>14, <2>1, <2>2, <3>1
    <3> QED
      BY <3>1, <3>4, <3>5, <3>6
  <2>3. CASE ~(called /\ t = s)
    <3>1. heard'[t] = heard[t]
      BY <1>8, <2>3
    <3>2. Listening(t) => Signal!ToCome(t)' = Signal!ToCome(t)
      <4>1. t = s => ~Listening(t)
        <5>1. t = s => ~called
          BY <2>3
        <5>2. t = s => ~cell[t]
          BY <5>1 DEF called
        <5> QED
          BY <5>2 DEF SignalInv, Placed
      <4> QED
        BY <1>17, <4>1
    <3> QED
      BY <2>1, <3>1, <3>2
  <2> QED
    BY <2>2, <2>3
<1>21. Complete'
  <2> SUFFICES ASSUME NEW t \in Subs
               PROVE  /\ \A j \in Keys : Signal!Active(t) /\ sub[t].key = j /\ Signal!Healthy(j) =>
                           Signal!Heard(t)' \cup Signal!ToCome(t)' = due[t]
                      /\ sub[t].state = "ended" => Signal!Heard(t)' = due[t]
    BY <1>1, <1>7 DEF Complete, Signal!Healthy
  <2>1. CASE called /\ t = s
    <3>1. sub[t].state # "ended"
      BY <1>4, <2>1 DEF Listening
    <3> QED
      BY <1>10, <1>18, <2>1, <3>1 DEF SignalInv, Complete
  <2>2. CASE ~(called /\ t = s)
    <3>1. Signal!Heard(t)' = Signal!Heard(t)
      BY <1>11, <2>2
    <3>2. Signal!Active(t) => Signal!ToCome(t)' = Signal!ToCome(t)
      <4>1. t = s => ~Signal!Active(t)
        BY <2>2 DEF SignalInv, Placed, called, Listening, Signal!Active
      <4> QED
        BY <1>17, <4>1
    <3> QED
      BY <3>1, <3>2 DEF SignalInv, Complete
  <2> QED
    BY <2>1, <2>2
<1> QED
  BY <1>12, <1>13, <1>15, <1>20, <1>21 DEF SignalInv

\* A callback that returns changes nothing here, and the last one ends the signal.
LEMMA ReturnKeeps ==
  ASSUME Signal!Slot \notin Subs, SignalInv, Signal!CallbackReturns \/ Signal!EndSignal
  PROVE  SignalInv'
<1>1. UNCHANGED <<handlers, cell, sub, rules, queue, emitted, heard, due>>
  BY DEF Signal!CallbackReturns, Signal!EndSignal, Signal!program, Signal!bus
<1>2. /\ dispatch # Signal!NoSignal
      /\ \/ /\ dispatch'.left = dispatch.left /\ dispatch'.key = dispatch.key
            /\ dispatch'.number = dispatch.number /\ dispatch'.inCallback = FALSE
         \/ dispatch.left = << >> /\ dispatch' = Signal!NoSignal
      /\ dispatch' \in [key : Key, number : Nat, left : Seq(Cells), inCallback : BOOLEAN]
  <2>1. dispatch \in [key : Key, number : Nat, left : Seq(Cells), inCallback : BOOLEAN]
    BY DEF SignalInv, Shaped
  <2>2. CASE Signal!CallbackReturns
    <3>1. dispatch.inCallback /\ dispatch' = [dispatch EXCEPT !.inCallback = FALSE]
      BY <2>2 DEF Signal!CallbackReturns
    <3>2. dispatch # Signal!NoSignal
      BY <3>1 DEF Signal!NoSignal
    <3> QED
      BY <2>1, <3>1, <3>2
  <2>3. CASE Signal!EndSignal
    <3>1. << >> \in Seq(Cells)
      OBVIOUS
    <3> QED
      BY <2>1, <2>3, <3>1 DEF Signal!EndSignal, Signal!NoSignal, Key
  <2> QED
    BY <2>2, <2>3
<1>3. \A t : Listening(t)' = Listening(t) /\ Signal!Active(t)' = Signal!Active(t) /\ Signal!Heard(t)' = Signal!Heard(t)
  BY <1>1 DEF Listening, Signal!Active, Signal!Heard
<1>4. \A j : Signal!Healthy(j)' = Signal!Healthy(j)
  BY <1>1 DEF Signal!Healthy
<1>5. Shaped'
  BY <1>1, <1>2 DEF SignalInv, Shaped
<1>6. Placed'
  BY <1>1, <1>3, <1>4 DEF SignalInv, Placed
<1>7. Numbered'
  BY <1>1, <1>2 DEF SignalInv, Numbered
<1>8. \A t \in Subs : Signal!ToCome(t)' = Signal!ToCome(t)
  <2> SUFFICES ASSUME NEW t \in Subs PROVE Signal!ToCome(t)' = Signal!ToCome(t)
    OBVIOUS
  <2>1. PICK j : j = sub[t].key
    OBVIOUS
  <2>2. Signal!ToCome(t) = {l \in {dispatch.number} : \E i \in DOMAIN dispatch.left : dispatch.left[i] = t}
                      \cup Signal!Waiting(j)
    BY <2>1, Coming DEF SignalInv
  <2>3. sub'[t].key = j
    BY <1>1, <2>1
  <2>4. Signal!ToCome(t)' = {l \in {dispatch'.number} : \E i \in DOMAIN dispatch'.left : dispatch'.left[i] = t}
                       \cup Signal!Waiting(j)'
    BY <1>5, <2>3, ComingNext
  <2>5. Signal!Waiting(j)' = Signal!Waiting(j)
    BY <1>1, QuietWaits
  <2>6. CASE dispatch'.left = dispatch.left /\ dispatch'.number = dispatch.number
    BY <2>2, <2>4, <2>5, <2>6
  <2>7. CASE dispatch.left = << >> /\ dispatch' = Signal!NoSignal
    <3>1. ~\E i \in DOMAIN dispatch.left : dispatch.left[i] = t
      BY <2>7
    <3>2. ~\E i \in DOMAIN dispatch'.left : dispatch'.left[i] = t
      BY <2>7 DEF Signal!NoSignal
    <3> QED
      BY <2>2, <2>4, <2>5, <3>1, <3>2
  <2> QED
    BY <1>2, <2>6, <2>7
<1>9. InOrder'
  <2> SUFFICES ASSUME NEW t \in Subs
               PROVE  /\ \A i, j \in DOMAIN heard[t] : i < j => heard[t][i] < heard[t][j]
                      /\ sub[t].state = "unused" => heard[t] = <<>>
                      /\ Listening(t) => \A i \in DOMAIN heard[t] :
                           /\ heard[t][i] <= emitted[sub[t].key]
                           /\ \A l \in Signal!ToCome(t)' : heard[t][i] < l
    BY <1>1, <1>3 DEF InOrder
  <2> QED
    BY <1>8 DEF SignalInv, InOrder
<1>10. Complete'
  <2> SUFFICES ASSUME NEW t \in Subs
               PROVE  /\ \A j \in Keys : Signal!Active(t) /\ sub[t].key = j /\ Signal!Healthy(j) =>
                           Signal!Heard(t) \cup Signal!ToCome(t)' = due[t]
                      /\ sub[t].state = "ended" => Signal!Heard(t) = due[t]
    BY <1>1, <1>3, <1>4 DEF Complete
  <2> QED
    BY <1>8 DEF SignalInv, Complete
<1> QED
  BY <1>5, <1>6, <1>7, <1>9, <1>10 DEF SignalInv

\* Every step keeps what was heard and what is still to come.
LEMMA SignalStep == Signal!Slot \notin Subs /\ SignalInv /\ [Signal!Next]_(Signal!vars) => SignalInv'
<1> SUFFICES ASSUME Signal!Slot \notin Subs, SignalInv, [Signal!Next]_(Signal!vars) PROVE SignalInv'
  OBVIOUS
<1>1. ASSUME NEW k \in Keys, Signal!Emit(k) PROVE SignalInv'
  BY <1>1, EmitKeeps
<1>2. ASSUME NEW k \in Keys, NEW s \in Subs, Signal!Subscribe(s, k) PROVE SignalInv'
  <2>1. /\ sub[s] = Signal!Unused /\ Signal!Joins(k, s)
        /\ rules' = (IF Len(handlers'[k]) = 1 THEN rules \cup {k} ELSE rules)
        /\ cell' = [cell EXCEPT ![s] = TRUE]
        /\ sub' = [sub EXCEPT ![s] = [state |-> "active", key |-> k, slot |-> Len(handlers'[k])]]
        /\ due' = [due EXCEPT ![s] = Signal!Waiting(k)]
        /\ UNCHANGED <<queue, emitted, dispatch, heard>>
    BY <1>2 DEF Signal!Subscribe, Signal!bus
  <2>2. handlers[k] \in Seq(Cells) /\ s \in Cells
    BY DEF SignalInv, Shaped, Cells
  <2>3. handlers'[k] = Append(handlers[k], s) /\ \A j \in Keys : j # k => handlers'[j] = handlers[j]
    BY <2>1 DEF Signal!Joins, SignalInv, Shaped
  <2>4. Len(handlers'[k]) = Len(handlers[k]) + 1 /\ Len(handlers[k]) \in Nat
    BY <2>2, <2>3
  <2>5. Len(handlers[k]) = 0 => handlers[k] = << >>
    BY <2>2
  <2>6. ASSUME NEW j \in Keys, Signal!Healthy(j)', handlers'[j] # <<>> PROVE j \in rules'
    <3>1. Signal!Healthy(j)
      <4> SUFFICES ASSUME NEW t \in Subs, sub[t].state = "failed" PROVE sub[t].key # j
        BY DEF Signal!Healthy
      <4>1. t # s
        BY <2>1 DEF Signal!Unused
      <4>2. sub'[t] = sub[t]
        BY <2>1, <4>1 DEF SignalInv, Shaped
      <4> QED
        BY <2>6, <4>2 DEF Signal!Healthy
    <3>2. CASE j # k
      <4>1. j \in rules
        BY <2>3, <2>6, <3>1, <3>2 DEF SignalInv, Placed
      <4> QED
        BY <2>1, <4>1
    <3>3. CASE j = k /\ handlers[k] = << >>
      BY <2>1, <2>4, <3>3
    <3>4. CASE j = k /\ handlers[k] # << >>
      <4>1. j \in rules
        BY <3>1, <3>4 DEF SignalInv, Placed
      <4> QED
        BY <2>1, <4>1
    <3> QED
      BY <3>2, <3>3, <3>4
  <2>7. /\ DOMAIN due' = Subs /\ \A t \in Subs : t # s => due'[t] = due[t]
        /\ due'[s] = Signal!Waiting(k)
    BY <2>1 DEF SignalInv, Shaped
  <2>8. sub' = [sub EXCEPT ![s] = [state |-> "active", key |-> k, slot |-> Len(handlers[k]) + 1]]
    BY <2>1, <2>4
  <2> QED
    BY <2>1, <2>6, <2>7, <2>8, JoinKeeps
<1>3. ASSUME NEW k \in Keys, NEW s \in Subs, Signal!SubscribeFails(s, k) PROVE SignalInv'
  <2>1. /\ sub[s] = Signal!Unused /\ Signal!Joins(k, s) /\ handlers[k] = << >>
        /\ cell' = [cell EXCEPT ![s] = TRUE]
        /\ sub' = [sub EXCEPT ![s] = [state |-> "failed", key |-> k, slot |-> 1]]
        /\ UNCHANGED <<rules, queue, emitted, dispatch, heard, due>>
    BY <1>3 DEF Signal!SubscribeFails, Signal!bus
  <2>2. Len(handlers[k]) + 1 = 1
    BY <2>1
  <2>3. \A j \in Keys : j # k => handlers'[j] = handlers[j]
    BY <2>1 DEF Signal!Joins, SignalInv, Shaped
  <2>4. sub'[s].state = "failed" /\ sub'[s].key = k /\ \A t \in Subs : t # s => sub'[t] = sub[t]
    BY <2>1 DEF SignalInv, Shaped
  <2>5. ASSUME NEW j \in Keys, Signal!Healthy(j)', handlers'[j] # <<>> PROVE j \in rules'
    <3>1. j # k
      BY <2>4, <2>5 DEF Signal!Healthy
    <3>2. Signal!Healthy(j)
      <4> SUFFICES ASSUME NEW t \in Subs, sub[t].state = "failed" PROVE sub[t].key # j
        BY DEF Signal!Healthy
      <4>1. t # s
        BY <2>1 DEF Signal!Unused
      <4> QED
        BY <2>4, <2>5, <4>1 DEF Signal!Healthy
    <3> QED
      BY <2>1, <2>3, <2>5, <3>1, <3>2 DEF SignalInv, Placed
  <2>6. DOMAIN due' = Subs /\ \A t \in Subs : t # s => due'[t] = due[t]
    BY <2>1 DEF SignalInv, Shaped
  <2>7. sub' = [sub EXCEPT ![s] = [state |-> "failed", key |-> k, slot |-> Len(handlers[k]) + 1]]
    BY <2>1, <2>2
  <2> QED
    BY <2>1, <2>5, <2>6, <2>7, JoinKeeps
<1>4. ASSUME NEW s \in Subs, Signal!Unsubscribe(s) PROVE SignalInv'
  BY <1>4, EndKeeps
<1>5. CASE Signal!BeginSignal
  BY <1>5, BeginKeeps
<1>6. CASE Signal!NextHandler
  BY <1>6, CallKeeps
<1>7. CASE Signal!CallbackReturns \/ Signal!EndSignal
  BY <1>7, ReturnKeeps
<1>8. CASE UNCHANGED Signal!vars
  <2>1. UNCHANGED <<handlers, cell, sub, rules, queue, dispatch, emitted, heard, due>>
    BY <1>8 DEF Signal!vars, Signal!program, Signal!bus
  <2>2. /\ \A t : /\ Listening(t)' = Listening(t) /\ Signal!Active(t)' = Signal!Active(t)
                  /\ Signal!Heard(t)' = Signal!Heard(t) /\ Signal!ToCome(t)' = Signal!ToCome(t)
        /\ \A j : Signal!Healthy(j)' = Signal!Healthy(j)
    BY <2>1 DEF Listening, Signal!Active, Signal!Heard, Signal!ToCome, Signal!Waiting, Signal!Healthy
  <2>3. Shaped' /\ Placed' /\ Numbered'
    BY <2>1, <2>2 DEF SignalInv, Shaped, Placed, Numbered
  <2>4. InOrder' /\ Complete'
    BY <2>1, <2>2 DEF SignalInv, InOrder, Complete
  <2> QED
    BY <2>3, <2>4 DEF SignalInv
<1> QED
  BY <1>1, <1>2, <1>3, <1>4, <1>5, <1>6, <1>7, <1>8 DEF Signal!Next

\* Every subscription hears each signal emitted while it exists, once and in order,
\* for any keys, subscriptions and numbers of signals, however callbacks subscribe
\* and unsubscribe in the middle of a dispatch (dbus_wrapper, HandleSignal).
THEOREM Delivered == SpecAll => []SignalsDelivered
<1>1. SignalInv => SignalsDelivered
  <2> SUFFICES ASSUME SignalInv, NEW s \in Subs
               PROVE  /\ \A i, j \in DOMAIN heard[s] : i < j => heard[s][i] < heard[s][j]
                      /\ Signal!Active(s) /\ Signal!Healthy(sub[s].key) =>
                           /\ Signal!Heard(s) \cup Signal!ToCome(s) = due[s]
                           /\ \A m \in Signal!Heard(s), n \in Signal!ToCome(s) : m < n
                      /\ sub[s].state = "ended" => Signal!Heard(s) = due[s]
    BY DEF SignalsDelivered, Signal!SignalsDelivered
  <2>1. Signal!Active(s) => Listening(s) /\ sub[s].key \in Keys
    BY DEF Signal!Active, Listening, SignalInv, Placed
  <2> QED
    BY <2>1 DEF SignalInv, InOrder, Complete, Signal!Heard
<1>2. Signal!Init => SignalInv
  BY SignalInit, DaemonAssumption
<1>3. SignalInv /\ [Signal!Next]_(Signal!vars) => SignalInv'
  BY SignalStep, DaemonAssumption
<1> QED
  BY <1>1, <1>2, <1>3, Parts, PTL DEF SpecAll
-----------------------------------------------------------------------------
(* The main loop *)

\* Whichever part moves, the loop and those who give it work make a step of theirs or none.
LEMMA LoopSteps ==
  /\ InitAll => Init
  /\ [NextAll]_allVars => [Next]_vars
<1>1. InitAll => Init
  BY DEF InitAll
<1>2. [NextAll]_allVars => Next \/ UNCHANGED vars
  BY DEF NextAll, InLoop, MoveAudio, MoveSignal, MoveObject, MoveDisk, MoveAccount,
         MovePower, MoveLocale, MoveAccess, MoveEthernet, allVars, others
<1> QED
  BY <1>1, <1>2

\* Where the loop can be once it has decided to quit.
QuitAt == quit => pc \in {"check", "cleanup", "failing", "failfast", "ended"}

\* Outside the loop over the messages the queue holds what blocking calls have
\* read since it was emptied; in the loop that is nothing.
Drained == aside = IF pc \in {"bus", "handle"} THEN 0 ELSE queued

LoopInv == TypeOK /\ QuitAt

\* Every step keeps the counters in order and every variable in its type.
LEMMA LoopTypeKeeps == TypeOK /\ [Next]_vars => TypeOK'
<1> SUFFICES ASSUME TypeOK, [Next]_vars PROVE TypeOK'
  OBVIOUS
<1> USE LoopAssumption DEF TypeOK, bus, signals, Signals, Blocks, Release, Reads, Handled
<1>1. CASE Initialize
  BY <1>1 DEF Initialize
<1>2. CASE Acquire
  BY <1>2 DEF Acquire
<1>3. CASE Poll
  <2>1. revents' \in [bus : BOOLEAN, pipe : BOOLEAN, glib : SUBSET Sources]
    <3>1. Foremost(Polled) \in SUBSET Sources
      BY DEF Polled, Foremost
    <3>2. (unread > 0) \in BOOLEAN /\ pipe \in BOOLEAN
      OBVIOUS
    <3> QED BY <1>3, <3>1, <3>2 DEF Poll
  <2> QED BY <1>3, <2>1 DEF Poll
<1>4. ASSUME NEW s \in Sources, DispatchGLib(s) PROVE TypeOK'
  BY <1>4 DEF DispatchGLib
<1>5. CASE ReadPipe
  BY <1>5 DEF ReadPipe
<1>6. CASE NoPipe
  BY <1>6 DEF NoPipe
<1>7. CASE Pop
  BY <1>7 DEF Pop
<1>8. CASE HandleMessage
  BY <1>8 DEF HandleMessage
<1>9. CASE CheckSignal
  BY <1>9 DEF CheckSignal
<1>10. CASE CleanUp
  BY <1>10 DEF CleanUp
<1>11. CASE FailFastFatalError
  BY <1>11 DEF FailFastFatalError
<1>12. CASE Send
  BY <1>12 DEF Send
<1>13. ASSUME NEW s \in Sources, BecomesReady(s) PROVE TypeOK'
  BY <1>13 DEF BecomesReady
<1>14. ASSUME NEW s \in Signals, SignalHandler(s) PROVE TypeOK'
  BY <1>14 DEF SignalHandler, Interrupts
<1>15. ASSUME NEW t \in Threads, Invoke(t) \/ InvokeReturns(t) PROVE TypeOK'
  BY <1>15 DEF Invoke, InvokeReturns
<1>16. CASE UNCHANGED vars
  BY <1>16 DEF vars
<1> QED BY <1>1, <1>2, <1>3, <1>4, <1>5, <1>6, <1>7, <1>8, <1>9, <1>10,
           <1>11, <1>12, <1>13, <1>14, <1>15, <1>16 DEF Next, Loop

\* Every step keeps the loop out of its body once it has decided to quit.
LEMMA QuitKeeps == QuitAt /\ [Next]_vars => QuitAt'
<1> SUFFICES ASSUME QuitAt, [Next]_vars PROVE QuitAt'
  OBVIOUS
<1> USE DEF QuitAt
<1>1. CASE Initialize \/ Acquire \/ Poll \/ NoPipe \/ Pop \/ HandleMessage
  BY <1>1 DEF Initialize, Acquire, Poll, NoPipe, Pop, HandleMessage
<1>2. CASE ReadPipe \/ CleanUp \/ FailFastFatalError
  BY <1>2 DEF ReadPipe, CleanUp, FailFastFatalError
<1>3. CASE CheckSignal
  BY <1>3 DEF CheckSignal
<1>4. ASSUME NEW s \in Sources, DispatchGLib(s) \/ BecomesReady(s) PROVE QuitAt'
  BY <1>4 DEF DispatchGLib, BecomesReady
<1>5. ASSUME NEW s \in Signals, SignalHandler(s) PROVE QuitAt'
  BY <1>5 DEF SignalHandler, Interrupts
<1>6. ASSUME NEW t \in Threads, Invoke(t) \/ InvokeReturns(t) PROVE QuitAt'
  BY <1>6 DEF Invoke, InvokeReturns
<1>7. CASE Send \/ UNCHANGED vars
  BY <1>7 DEF Send, vars
<1> QED BY <1>1, <1>2, <1>3, <1>4, <1>5, <1>6, <1>7 DEF Next, Loop

\* The loop over the messages starts with a count of zero and does not end before
\* the queue is empty; outside it only counted calls fill the queue.
LEMMA DrainedKeeps == TypeOK /\ Drained /\ [Next]_vars => Drained'
<1> SUFFICES ASSUME TypeOK, Drained, [Next]_vars PROVE Drained'
  OBVIOUS
<1> USE DEF Drained, bus, Blocks
<1>1. CASE Initialize
  BY <1>1 DEF Initialize
<1>2. CASE Acquire \/ Poll \/ ReadPipe \/ NoPipe
  BY <1>2 DEF Acquire, Poll, ReadPipe, NoPipe
<1>3. CASE Pop
  <2>1. queued' \in Nat /\ aside' = 0
    BY <1>3, LoopAssumption DEF Pop, Reads, TypeOK
  <2> QED BY <1>3, <2>1 DEF Pop
<1>4. CASE HandleMessage
  BY <1>4 DEF HandleMessage
<1>5. CASE CheckSignal \/ CleanUp \/ FailFastFatalError
  BY <1>5 DEF CheckSignal, CleanUp, FailFastFatalError
<1>6. ASSUME NEW s \in Sources, DispatchGLib(s) \/ BecomesReady(s) PROVE Drained'
  BY <1>6 DEF DispatchGLib, BecomesReady
<1>7. ASSUME NEW s \in Signals, SignalHandler(s) PROVE Drained'
  BY <1>7 DEF SignalHandler, Interrupts
<1>8. ASSUME NEW t \in Threads, Invoke(t) \/ InvokeReturns(t) PROVE Drained'
  BY <1>8 DEF Invoke, InvokeReturns
<1>9. CASE Send \/ UNCHANGED vars
  BY <1>9 DEF Send, vars
<1> QED BY <1>1, <1>2, <1>3, <1>4, <1>5, <1>6, <1>7, <1>8, <1>9 DEF Next, Loop

\* The start satisfies the invariants.
LEMMA LoopInit == Init => LoopInv /\ Drained
<1> SUFFICES ASSUME Init PROVE LoopInv /\ Drained
  OBVIOUS
<1>1. TypeOK
  <2>1. quit \in BOOLEAN /\ pipe \in BOOLEAN
    BY DEF Init
  <2>2. revents \in [bus : BOOLEAN, pipe : BOOLEAN, glib : SUBSET Sources]
    BY DEF Init, NoEvents
  <2> QED BY <2>1, <2>2, LoopAssumption DEF Init, TypeOK
<1>2. QuitAt
  BY DEF Init, QuitAt
<1>3. Drained
  BY DEF Init, Drained
<1> QED BY <1>1, <1>2, <1>3 DEF LoopInv

\* A step of the loop keeps the invariant, and no service touches it.
LEMMA LoopStep == LoopInv /\ [NextAll]_allVars => LoopInv'
  BY LoopTypeKeeps, QuitKeeps, LoopSteps DEF LoopInv

\* Counters stay in order, whatever blocking calls read in between, and every
\* variable keeps its type.
THEOREM LoopTypeCorrect == SpecAll => []TypeOK
<1>1. LoopInv => TypeOK
  BY DEF LoopInv
<1>2. Init => LoopInv
  BY LoopInit
<1> QED BY <1>1, <1>2, LoopSteps, LoopStep, PTL DEF SpecAll

\* After the decision to quit no message is handled and no callback dispatched.
THEOREM QuitFinal == SpecAll => QuitIsFinal
<1>1. LoopInv /\ [Next]_vars
        => [quit => pc # "handle" /\ queued <= queued' /\ ready \subseteq ready']_vars
  <2> SUFFICES ASSUME LoopInv, Next, quit
               PROVE  pc # "handle" /\ queued <= queued' /\ ready \subseteq ready'
    OBVIOUS
  <2>1. pc \notin {"init", "poll", "glib", "bus", "handle"} /\ queued \in Nat
    BY DEF LoopInv, QuitAt, TypeOK
  <2> SUFFICES queued' = queued /\ ready \subseteq ready'
    BY <2>1
  <2>2. CASE CheckSignal \/ CleanUp \/ FailFastFatalError
    BY <2>2 DEF CheckSignal, CleanUp, FailFastFatalError, bus
  <2>3. CASE Send
    BY <2>3 DEF Send
  <2>4. ASSUME NEW s \in Sources, BecomesReady(s)
        PROVE  queued' = queued /\ ready \subseteq ready'
    BY <2>4 DEF BecomesReady, bus
  <2>5. ASSUME NEW s \in Signals, SignalHandler(s)
        PROVE  queued' = queued /\ ready \subseteq ready'
    BY <2>5 DEF SignalHandler, bus
  <2>6. ASSUME NEW t \in Threads, Invoke(t) \/ InvokeReturns(t)
        PROVE  queued' = queued /\ ready \subseteq ready'
    <3>1. queued' = queued /\ ready' = ready
      BY <2>6 DEF Invoke, InvokeReturns, bus
    <3> QED BY <3>1
  <2>7. pc # "update"
    BY DEF LoopInv, QuitAt
  <2> QED BY <2>1, <2>2, <2>3, <2>4, <2>5, <2>6, <2>7
          DEF Next, Loop, Initialize, Acquire, Poll, DispatchGLib, ReadPipe, NoPipe,
              Pop, HandleMessage
<1>2. [NextAll]_allVars => [Next]_vars
  BY LoopSteps
<1>3. Init => LoopInv
  BY LoopInit
<1> QED BY <1>1, <1>2, <1>3, LoopSteps, LoopStep, PTL DEF SpecAll, QuitIsFinal

\* A loop that goes to sleep leaves only those messages in the queue that blocking
\* calls of the construction and of GLib callbacks have read since it last looked.
THEOREM NeverStranded == SpecAll => []NothingStranded
<1>1. TypeOK /\ Drained => NothingStranded
  BY DEF Drained, NothingStranded
<1>2. TypeOK /\ Drained /\ [Next]_vars => Drained'
  BY DrainedKeeps
<1>3. Init => Drained
  BY LoopInit
<1> QED BY <1>1, <1>2, <1>3, LoopSteps, LoopTypeCorrect, PTL DEF SpecAll

\* Who owns the main context when no thread but the loop's uses it.
LoopOwns == context = IF pc \in {"poll", "glib"} THEN "loop" ELSE "free"

\* If no other thread reports to the main loop, the loop never sleeps without
\* the GLib sources: CallbacksRunWithContext then promises what CallbacksRun does.
THEOREM NeverLeftOut ==
  ASSUME Threads = {}
  PROVE  SpecAll => []~LeftOut
<1>1. Init => LoopOwns
  BY DEF Init, LoopOwns
<1>2. LoopOwns /\ [Next]_vars => LoopOwns'
  <2> SUFFICES ASSUME LoopOwns, [Next]_vars PROVE LoopOwns'
    OBVIOUS
  <2> USE DEF LoopOwns, Release
  <2>1. CASE Initialize \/ Acquire \/ Poll
    BY <2>1 DEF Initialize, Acquire, Poll
  <2>2. CASE ReadPipe \/ NoPipe
    BY <2>2 DEF ReadPipe, NoPipe
  <2>3. CASE Pop \/ HandleMessage \/ CheckSignal
    BY <2>3 DEF Pop, HandleMessage, CheckSignal
  <2>4. CASE CleanUp \/ FailFastFatalError
    BY <2>4 DEF CleanUp, FailFastFatalError
  <2>5. ASSUME NEW s \in Sources, DispatchGLib(s) \/ BecomesReady(s) PROVE LoopOwns'
    BY <2>5 DEF DispatchGLib, BecomesReady
  <2>6. ASSUME NEW s \in Signals, SignalHandler(s) PROVE LoopOwns'
    BY <2>6 DEF SignalHandler, Interrupts
  <2>7. CASE Send \/ UNCHANGED vars
    BY <2>7 DEF Send, vars
  <2> QED BY <2>1, <2>2, <2>3, <2>4, <2>5, <2>6, <2>7, Threads = {} DEF Next, Loop
<1>3. LoopOwns => ~LeftOut
  BY DEF LoopOwns, LeftOut
<1> QED BY <1>1, <1>2, <1>3, LoopSteps, PTL DEF SpecAll
-----------------------------------------------------------------------------
(* The plans of the installer, whose proofs and lemmas about induction are in DiskPlanProofs *)

Plans == INSTANCE DiskPlanProofs WITH phase <- step

\* The plans of the daemon are those of DiskPlanProofs: the two instances of DiskPlan
\* stand for the same formulas.
LEMMA PlansAre ==
  /\ Plans!DisksAre /\ Plans!ParametersAre
  /\ InitAll => Plans!Init
  /\ [NextAll]_allVars => [Plans!Next]_(Plans!vars)
<1> USE DEF Disk!StorageDevices, Plans!StorageDevices, Disk!Listed, Plans!Listed, Disk!NoKeys,
      Plans!NoKeys, Disk!Regions, Plans!Regions, Disk!IsFree, Plans!IsFree, Disk!Sized,
      Plans!Sized, Disk!Filesystems, Plans!Filesystems, Disk!Mounts, Plans!Mounts, Disk!MiB,
      Plans!MiB, Disk!DeviceSize, Plans!DeviceSize, Disk!VerifyMountpoints,
      Plans!VerifyMountpoints, Disk!Operate, Plans!Operate, Disk!NewTable, Plans!NewTable,
      Disk!With, Plans!With, Disk!NextNumber, Plans!NextNumber, Disk!todo, Plans!todo,
      Disk!ResizedTable, Plans!ResizedTable, Disk!Removed, Plans!Removed, Disk!Minus,
      Plans!Minus, Disk!TargetsOf, Plans!TargetsOf, Disk!ManualKeys, Plans!ManualKeys,
      Disk!Cardinality, Plans!Cardinality, Disk!SectorsPerMiB, Plans!SectorsPerMiB,
      Disk!Sectors, Plans!Sectors, Disk!Region, Plans!Region, Disk!IsRootDevice,
      Plans!IsRootDevice, Disk!Hidden, Plans!Hidden, Disk!Shown, Plans!Shown, Disk!Texts,
      Plans!Texts, Disk!Unnamed, Plans!Unnamed, Disk!Named, Plans!Named, Disk!Simulate,
      Plans!Simulate, Disk!Created, Plans!Created, Disk!FreeAfter, Plans!FreeAfter, Disk!Op,
      Plans!Op, Disk!Resized, Plans!Resized, Disk!Spliced, Plans!Spliced, Disk!New, Plans!New,
      Disk!Total, Plans!Total, Disk!Overhead, Plans!Overhead, Disk!MountedAt, Plans!MountedAt,
      Disk!Positions, Plans!Positions, Disk!Rest, Plans!Rest, Disk!Gap, Plans!Gap,
      Disk!WithSize, Plans!WithSize, Disk!Target, Plans!Target, Disk!Entry, Plans!Entry,
      Disk!Name, Plans!Name, Disk!Coalesced, Plans!Coalesced, Disk!Visible, Plans!Visible,
      Disk!Probed, Plans!Probed, Disk!Free, Plans!Free, Disk!Part, Plans!Part, Disk!Joined,
      Plans!Joined, Disk!Last, Plans!Last, Disk!Front, Plans!Front, Disk!ExtendedOf,
      Plans!ExtendedOf, Disk!Logical, Plans!Logical, Disk!FreeNumbers, Plans!FreeNumbers,
      Disk!After, Plans!After, Disk!Numbered, Plans!Numbered, Disk!Renumbered, Plans!Renumbered
<1>1. Plans!DisksAre /\ Plans!ParametersAre
  BY DaemonAssumption DEF Disk!DisksAre, Plans!DisksAre, Disk!ParametersAre, Plans!ParametersAre
<1>2. InitAll => Plans!Init
  BY DEF InitAll, Disk!Init, Plans!Init
<1>3. UNCHANGED diskVars => UNCHANGED Plans!vars
  BY DEF diskVars, Plans!vars, Plans!request, Plans!work
<1>4. [NextAll]_allVars => Disk!Next \/ UNCHANGED diskVars
  BY DEF NextAll, InLoop, MoveAudio, MoveSignal, MoveObject, MoveDisk, MoveAccount,
         MovePower, MoveLocale, MoveAccess, MoveEthernet, allVars, others
<1> USE DEF Disk!request, Plans!request, Disk!work, Plans!work
<1>5. Disk!Planning => Plans!Planning
  BY DEF Disk!Planning, Plans!Planning, Disk!PlanCreate, Plans!PlanCreate, Disk!PlanResize,
         Plans!PlanResize, Disk!PlanRemove, Plans!PlanRemove, Disk!PlanMountpoint,
         Plans!PlanMountpoint, Disk!PlanMount, Plans!PlanMount, Disk!PlanFilesystem,
         Plans!PlanFilesystem
<1>6. Disk!ValidateInstallStorageData => Plans!ValidateInstallStorageData
  BY DEF Disk!ValidateInstallStorageData, Plans!ValidateInstallStorageData
<1>7. Disk!Create => Plans!Create
  BY DEF Disk!Create, Plans!Create
<1>8. Disk!Resize => Plans!Resize
  BY DEF Disk!Resize, Plans!Resize
<1>9. Disk!RemovePartition => Plans!RemovePartition
  BY DEF Disk!RemovePartition, Plans!RemovePartition
<1>10. Disk!SetMountpoint => Plans!SetMountpoint
  BY DEF Disk!SetMountpoint, Plans!SetMountpoint
<1>11. Disk!SetFilesystem => Plans!SetFilesystem
  BY DEF Disk!SetFilesystem, Plans!SetFilesystem
<1>12. Disk!Commit => Plans!Commit
  BY DEF Disk!Commit, Plans!Commit
<1>13. Disk!Erase => Plans!Erase
  BY DEF Disk!Erase, Plans!Erase
<1>14. Disk!Format => Plans!Format
  BY DEF Disk!Format, Plans!Format
<1>15. Disk!Formatted => Plans!Formatted
  BY DEF Disk!Formatted, Plans!Formatted
<1>16. Disk!Fail => Plans!Fail
  BY DEF Disk!Fail, Plans!Fail
<1>17. Disk!Next => Plans!Next
  BY <1>5, <1>6, <1>7, <1>8, <1>9, <1>10, <1>11, <1>12, <1>13, <1>14, <1>15, <1>16 DEF Disk!Next, Plans!Next
<1> QED
  BY <1>1, <1>2, <1>3, <1>4, <1>17

\* Whatever a plan of the installer creates, resizes and removes, the list that it is
\* simulated on has the size of the list shown, and the worker's table that of the disk.
THEOREM PlansAddUp == SpecAll => []SizesAddUp
<1>1. Plans!SizesAddUp => SizesAddUp
  BY DEF SizesAddUp, Disk!SizesAddUp, Plans!SizesAddUp, Disk!Total, Plans!Total
<1>2. SpecAll => Plans!Spec
  BY PlansAre, PTL DEF SpecAll, Plans!Spec
<1> QED
  BY <1>1, <1>2, PlansAre, Plans!DiskStaysFull, PTL

\* Whatever becomes of a plan that does not erase the disk, its partitions stay, but for
\* those that an operation of the plan removes or makes a filesystem on, and for logical
\* ones behind one that it removes, when another operation would lose a logical one too.
THEOREM PlansLoseOnlyNamed == SpecAll => []OnlyNamedLost
<1>1. Plans!OnlyNamedLost => OnlyNamedLost
  BY DEF OnlyNamedLost, Disk!OnlyNamedLost, Plans!OnlyNamedLost, Disk!IsFree, Plans!IsFree,
         Disk!Part, Plans!Part, Disk!Loses, Plans!Loses, Disk!Moved, Plans!Moved,
         Disk!Logical, Plans!Logical
<1>2. SpecAll => Plans!Spec
  BY PlansAre, PTL DEF SpecAll, Plans!Spec
<1> QED
  BY <1>1, <1>2, PlansAre, Plans!NamedOnlyLost, PTL

\* A plan performed without a failure gives the boot and root partitions that its
\* validation found, formatted only if the plan makes them or their filesystems; but for
\* the numbers that logical partitions may have got when the plan removed one before them.
THEOREM PlansExecuted == SpecAll => []ExecutedAsPlanned
<1>1. Plans!ExecutedAsPlanned => ExecutedAsPlanned
  BY DEF ExecutedAsPlanned, Disk!ExecutedAsPlanned, Plans!ExecutedAsPlanned, Disk!Part,
         Plans!Part, Disk!Unnamed, Plans!Unnamed, Disk!Meant, Plans!Meant, Disk!Moved,
         Plans!Moved, Disk!Logical, Plans!Logical
<1>2. SpecAll => Plans!Spec
  BY PlansAre, PTL DEF SpecAll, Plans!Spec
<1> QED
  BY <1>1, <1>2, PlansAre, Plans!PlanExecuted, PTL
-----------------------------------------------------------------------------
(* The best profile *)

\* Whichever part moves, the Ethernet device makes a step of its own or none.
LEMMA EthernetSteps ==
  /\ InitAll => Ethernet!Init
  /\ [NextAll]_allVars => [Ethernet!Next]_(Ethernet!vars)
<1>1. InitAll => Ethernet!Init
  BY DEF InitAll
<1>2. UNCHANGED ethernetVars => UNCHANGED Ethernet!vars
  BY DEF ethernetVars, Ethernet!vars
<1>3. [NextAll]_allVars => Ethernet!Next \/ UNCHANGED ethernetVars
  BY DEF NextAll, InLoop, MoveAudio, MoveSignal, MoveObject, MoveDisk, MoveAccount,
         MovePower, MoveLocale, MoveAccess, MoveEthernet, allVars, others
<1> QED
  BY <1>1, <1>2, <1>3

Picks == [best : 0 .. Len(offered), auto : 0 .. Len(offered), iface : 0 .. Len(offered)]

Offered == Len(offered) \in Nat /\ DOMAIN offered = 1 .. Len(offered)
           /\ \A i \in DOMAIN offered : offered[i] \in Ethernet!Profile

\* The turns of the loop, one after the other.
LEMMA FoundTurns ==
  ASSUME Offered
  PROVE  /\ Ethernet!Found[0] = Ethernet!Unpicked
         /\ \A n \in 0 .. Len(offered) - 1 :
              Ethernet!Found[n + 1] = Ethernet!Pick(Ethernet!Found[n], n + 1)
         /\ \A n \in 0 .. Len(offered) : Ethernet!Found[n] \in Picks
<1> DEFINE L == Len(offered)
           D == [n \in Nat |-> [acc \in Picks |-> IF n \in 1 .. L THEN Ethernet!Pick(acc, n) ELSE acc]]
<1>0. L \in Nat
  BY DEF Offered
<1>1. Ethernet!Unpicked \in Picks
  BY <1>0 DEF Ethernet!Unpicked, Picks
<1>2. \A acc \in Picks, n \in 1 .. L : Ethernet!Pick(acc, n) \in Picks
  BY <1>0 DEF Ethernet!Pick, Picks
<1>3. D \in [Nat -> [Picks -> Picks]]
  BY <1>2
<1> HIDE DEF D
<1>4. PICK g : Plans!Iterate(g, Picks, Ethernet!Unpicked, D)
  BY <1>1, <1>3, Plans!Iterates
<1>5. g \in [Nat -> Picks] /\ g[0] = Ethernet!Unpicked /\ \A n \in Nat : g[n + 1] = D[n + 1][g[n]]
  BY <1>4 DEF Plans!Iterate
<1>6. \A n \in 0 .. L - 1 : g[n + 1] = Ethernet!Pick(g[n], n + 1)
  <2> SUFFICES ASSUME NEW n \in 0 .. L - 1 PROVE g[n + 1] = Ethernet!Pick(g[n], n + 1)
    OBVIOUS
  <2>1. n \in Nat /\ n + 1 \in 1 .. L /\ n + 1 \in Nat /\ g[n] \in Picks
    BY <1>0, <1>5
  <2>2. D[n + 1][g[n]] = Ethernet!Pick(g[n], n + 1)
    BY <2>1 DEF D
  <2> QED
    BY <1>5, <2>1, <2>2
<1> DEFINE h == [n \in 0 .. L |-> g[n]]
<1>7. h = [n \in 0 .. L |-> IF n = 0 THEN Ethernet!Unpicked ELSE Ethernet!Pick(h[n - 1], n)]
  <2>1. \A n \in 0 .. L : n # 0 => n - 1 \in 0 .. L - 1 /\ (n - 1) + 1 = n
    BY <1>0
  <2>2. \A n \in 0 .. L : n # 0 => h[n - 1] = g[n - 1]
    BY <1>0
  <2>3. \A n \in 0 .. L : h[n] = IF n = 0 THEN Ethernet!Unpicked ELSE Ethernet!Pick(h[n - 1], n)
    BY <1>5, <1>6, <2>1, <2>2
  <2> QED
    BY <2>3
<1> HIDE DEF h
<1>8. Ethernet!Found = [n \in 0 .. L |->
         IF n = 0 THEN Ethernet!Unpicked ELSE Ethernet!Pick(Ethernet!Found[n - 1], n)]
  <2>1. \E f : f = [n \in 0 .. L |->
          IF n = 0 THEN Ethernet!Unpicked ELSE Ethernet!Pick(f[n - 1], n)]
    BY <1>7
  <2> QED
    BY <2>1 DEF Ethernet!Found
<1>9. \A n \in 0 .. L - 1 : n + 1 \in 0 .. L /\ n + 1 # 0 /\ (n + 1) - 1 = n
  BY <1>0
<1>10. /\ Ethernet!Found[0] = Ethernet!Unpicked
       /\ \A n \in 0 .. L - 1 : Ethernet!Found[n + 1] = Ethernet!Pick(Ethernet!Found[n], n + 1)
  BY <1>0, <1>8, <1>9
<1> DEFINE P == {n \in Nat : n <= L => Ethernet!Found[n] \in Picks}
<1>11. 0 \in P
  BY <1>1, <1>10
<1>12. ASSUME NEW n \in Nat, n \in P PROVE n + 1 \in P
  BY <1>0, <1>2, <1>10, <1>12
<1> HIDE DEF P
<1>13. \A n \in Nat : n \in P
  BY <1>11, <1>12, Plans!Induction
<1> QED
  BY <1>0, <1>10, <1>13 DEF P

\* What the accumulator knows of the first n profiles.
Picked(acc, n) ==
  /\ acc.best \in 0 .. n /\ acc.auto \in 0 .. n /\ acc.iface \in 0 .. n
  /\ acc.best = 0 => n = 0
  /\ acc.auto = 0 => \A i \in 1 .. n : ~offered[i].autoconnect
  /\ acc.auto # 0 =>
       /\ offered[acc.auto].autoconnect
       /\ offered[acc.auto].bound \/ \A i \in 1 .. n : ~(offered[i].autoconnect /\ offered[i].bound)
  /\ acc.iface = 0 => \A i \in 1 .. n : ~offered[i].bound
  /\ acc.iface # 0 => offered[acc.iface].bound

\* A turn of the loop keeps what is known, of one profile more.
LEMMA PickPicks ==
  ASSUME Offered, NEW n \in 0 .. Len(offered) - 1, NEW acc \in Picks, Picked(acc, n)
  PROVE  Picked(Ethernet!Pick(acc, n + 1), n + 1)
<1> DEFINE p == offered[n + 1]
           new == Ethernet!Pick(acc, n + 1)
<1>1. /\ new.best = (IF acc.best = 0 THEN n + 1 ELSE acc.best)
      /\ new.auto = (IF p.autoconnect /\ (p.bound \/ acc.auto = 0) THEN n + 1 ELSE acc.auto)
      /\ new.iface = (IF acc.iface = 0 /\ p.bound THEN n + 1 ELSE acc.iface)
  BY DEF Ethernet!Pick
<1>2. /\ n \in Nat /\ n + 1 # 0 /\ 1 .. (n + 1) = (1 .. n) \cup {n + 1}
      /\ \A i \in 0 .. n : i \in 0 .. (n + 1)
      /\ n + 1 \in 0 .. (n + 1)
  BY DEF Offered
<1> HIDE DEF new
<1>3. /\ new.best \in 0 .. n + 1 /\ new.auto \in 0 .. n + 1 /\ new.iface \in 0 .. n + 1
      /\ (new.best = 0 => n + 1 = 0)
  BY <1>1, <1>2 DEF Picked
<1>4. new.auto = 0 => \A i \in 1 .. n + 1 : ~offered[i].autoconnect
  BY <1>1, <1>2 DEF Picked
<1>5. new.auto # 0 =>
       /\ offered[new.auto].autoconnect
       /\ offered[new.auto].bound
            \/ \A i \in 1 .. n + 1 : ~(offered[i].autoconnect /\ offered[i].bound)
  BY <1>1, <1>2 DEF Picked
<1>6. /\ new.iface = 0 => \A i \in 1 .. n + 1 : ~offered[i].bound
      /\ new.iface # 0 => offered[new.iface].bound
  BY <1>1, <1>2 DEF Picked
<1> QED
  BY <1>3, <1>4, <1>5, <1>6 DEF Picked, new

\* The profile picked is one of those offered, and none ranks above it.
LEMMA BestPreferred ==
  ASSUME Offered, offered # << >>
  PROVE  /\ Ethernet!Best \in 1 .. Len(offered)
         /\ \A i \in DOMAIN offered : Ethernet!Rank(offered[i]) <= Ethernet!Rank(offered[Ethernet!Best])
<1> DEFINE L == Len(offered)
           P == {n \in Nat : n <= L => Picked(Ethernet!Found[n], n)}
<1>0. L \in Nat /\ L # 0
  BY DEF Offered
<1>1. 0 \in P
  BY FoundTurns DEF Picked, Ethernet!Unpicked
<1>2. ASSUME NEW n \in Nat, n \in P PROVE n + 1 \in P
  <2> SUFFICES ASSUME n + 1 <= L PROVE Picked(Ethernet!Found[n + 1], n + 1)
    OBVIOUS
  <2>1. n \in 0 .. L - 1 /\ n \in 0 .. L
    BY <1>0
  <2>2. /\ Ethernet!Found[n + 1] = Ethernet!Pick(Ethernet!Found[n], n + 1)
        /\ Ethernet!Found[n] \in Picks /\ Picked(Ethernet!Found[n], n)
    BY <1>2, <2>1, FoundTurns
  <2> QED
    BY <2>1, <2>2, PickPicks
<1> HIDE DEF P
<1>3. Picked(Ethernet!Found[L], L)
  <2>1. \A n \in Nat : n \in P
    BY <1>1, <1>2, Plans!Induction
  <2> QED
    BY <1>0, <2>1 DEF P
<1> DEFINE found == Ethernet!Found[L]
<1>4. Ethernet!Best = (IF found.auto # 0 THEN found.auto
                       ELSE IF found.iface # 0 THEN found.iface ELSE found.best)
  BY DEF Ethernet!Best
<1> HIDE DEF found
<1>5. Ethernet!Best \in 1 .. L
  BY <1>0, <1>3, <1>4 DEF Picked, found
<1>6. ASSUME NEW i \in 1 .. L
      PROVE  Ethernet!Rank(offered[i]) <= Ethernet!Rank(offered[Ethernet!Best])
  <2>1. Picked(found, L)
    BY <1>3 DEF found
  <2>2. \A p : /\ Ethernet!Rank(p) = (IF p.autoconnect THEN 2 ELSE 0) + (IF p.bound THEN 1 ELSE 0)
               /\ Ethernet!Rank(p) \in 0 .. 3
    BY DEF Ethernet!Rank
  <2>3. CASE found.auto # 0
    <3>1. /\ Ethernet!Best = found.auto /\ offered[Ethernet!Best].autoconnect
          /\ offered[Ethernet!Best].bound \/ ~(offered[i].autoconnect /\ offered[i].bound)
      BY <1>4, <2>1, <2>3 DEF Picked
    <3> QED
      BY <2>2, <3>1
  <2>4. CASE found.auto = 0 /\ found.iface # 0
    <3>1. Ethernet!Best = found.iface /\ offered[Ethernet!Best].bound /\ ~offered[i].autoconnect
      BY <1>4, <2>1, <2>4 DEF Picked
    <3> QED
      BY <2>2, <3>1
  <2>5. CASE found.auto = 0 /\ found.iface = 0
    <3>1. ~offered[i].bound /\ ~offered[i].autoconnect
      BY <2>1, <2>5 DEF Picked
    <3> QED
      BY <2>2, <3>1
  <2> QED
    BY <2>3, <2>4, <2>5
<1> QED
  BY <1>5, <1>6 DEF Offered

\* The offers are a sequence, and the active profile is its best.
EthernetInv == Offered /\ active \in 0 .. Len(offered) /\ Ethernet!ProfilePreferred

\* Profiles are offered as a sequence.
LEMMA OfferedIs == \A o \in Ethernet!Offers : /\ Len(o) \in Nat /\ DOMAIN o = 1 .. Len(o)
                                              /\ \A i \in DOMAIN o : o[i] \in Ethernet!Profile
<1> SUFFICES ASSUME NEW o \in Ethernet!Offers
             PROVE  Len(o) \in Nat /\ DOMAIN o = 1 .. Len(o) /\ \A i \in DOMAIN o : o[i] \in Ethernet!Profile
  OBVIOUS
<1>1. PICK n \in 0 .. MaxProfiles : o \in [1 .. n -> Ethernet!Profile]
  BY DEF Ethernet!Offers
<1>2. o \in Seq(Ethernet!Profile) /\ n \in Nat
  BY <1>1
<1> QED
  BY <1>1, <1>2

\* At first none is chosen.
LEMMA EthernetInit == Ethernet!Init => EthernetInv
  BY OfferedIs DEF Ethernet!Init, EthernetInv, Offered, Ethernet!ProfilePreferred

\* What is chosen is a best one.
LEMMA EthernetStep == EthernetInv /\ [Ethernet!Next]_(Ethernet!vars) => EthernetInv'
<1> SUFFICES ASSUME EthernetInv, [Ethernet!Next]_(Ethernet!vars) PROVE EthernetInv'
  OBVIOUS
<1>1. CASE Ethernet!Enable
  BY <1>1, BestPreferred DEF Ethernet!Enable, EthernetInv, Offered, Ethernet!ProfilePreferred
<1>2. CASE Ethernet!Disable
  BY <1>2 DEF Ethernet!Disable, EthernetInv, Offered, Ethernet!ProfilePreferred
<1>3. CASE Ethernet!OffersChange
  BY <1>3, OfferedIs DEF Ethernet!OffersChange, EthernetInv, Offered, Ethernet!ProfilePreferred
<1>4. CASE UNCHANGED Ethernet!vars
  BY <1>4 DEF Ethernet!vars, EthernetInv, Offered, Ethernet!ProfilePreferred
<1> QED
  BY <1>1, <1>2, <1>3, <1>4 DEF Ethernet!Next

\* Whatever profiles are offered and in whichever order, the one that enabling the
\* device activates is the best of them (network_manager_service, EthernetSetEnabled).
THEOREM BestProfile == SpecAll => []ProfilePreferred
<1>1. EthernetInv => ProfilePreferred
  BY DEF EthernetInv, ProfilePreferred
<1>2. Ethernet!Init => EthernetInv
  BY EthernetInit
<1>3. EthernetInv /\ [Ethernet!Next]_(Ethernet!vars) => EthernetInv'
  BY EthernetStep
<1> QED
  BY <1>1, <1>2, <1>3, EthernetSteps, PTL DEF SpecAll
-----------------------------------------------------------------------------
(* PulseAudio's devices and streams, whose proofs are in AudioServiceProofs *)

Mirror == INSTANCE AudioServiceProofs WITH Sources <- Microphones

\* The two instances of AudioService stand for the same formulas: for the same orders of a set,
LEMMA SameOrder == \A f : Audio!InSomeOrder(f) = Mirror!InSomeOrder(f)
  BY DEF Audio!SetToSeq, Mirror!SetToSeq, Audio!IsInjective, Mirror!IsInjective,
     Audio!Cardinality, Mirror!Cardinality, Audio!InSomeOrder, Mirror!InSomeOrder

\* for the same message handled,
LEMMA SameHandled == \A w, m : Audio!Handled(w, m) = Mirror!Handled(w, m)
<1>1. \A w, dev, port :
         Audio!HandleActiveOutputPortChanged(w, dev, port) = Mirror!HandleActiveOutputPortChanged(w, dev, port)
  BY DEF Audio!SetToSeq, Mirror!SetToSeq, Audio!IsInjective, Mirror!IsInjective,
     Audio!Cardinality, Mirror!Cardinality, Audio!InSomeOrder, Mirror!InSomeOrder,
     Audio!HandleActiveOutputPortChanged, Mirror!HandleActiveOutputPortChanged, Audio!Path,
     Mirror!Path, Audio!StreamsOn, Mirror!StreamsOn, Audio!MoveStreams, Mirror!MoveStreams
<1>2. \A w, dev, info : Audio!Updated(w, dev, info) = Mirror!Updated(w, dev, info)
  BY DEF Audio!PathsOf, Mirror!PathsOf, Audio!Path, Mirror!Path, Audio!NoPort, Mirror!NoPort,
     Audio!With, Mirror!With, Audio!DeviceOf, Mirror!DeviceOf, Audio!Updated, Mirror!Updated
<1>3. \A w, dev, info : Audio!AddOrUpdateDevice(w, dev, info) = Mirror!AddOrUpdateDevice(w, dev, info)
  BY <1>1, <1>2 DEF Audio!AddOrUpdateDevice, Mirror!AddOrUpdateDevice,
     Audio!AddOrUpdateInputDevice, Mirror!AddOrUpdateInputDevice, Audio!AddOrUpdateOutputDevice,
     Mirror!AddOrUpdateOutputDevice, Audio!PortOf, Mirror!PortOf, Audio!NoPort, Mirror!NoPort
<1>4. \A w, s, sink : Audio!AddOrUpdateStream(w, s, sink) = Mirror!AddOrUpdateStream(w, s, sink)
  BY DEF Audio!AddOrUpdateStream, Mirror!AddOrUpdateStream, Audio!NoPath, Mirror!NoPath,
     Audio!NoPort, Mirror!NoPort, Audio!With, Mirror!With, Audio!Path, Mirror!Path
<1>5. \A w, default : Audio!HandleServerInfo(w, default) = Mirror!HandleServerInfo(w, default)
  BY DEF Audio!HandleServerInfo, Mirror!HandleServerInfo, Audio!NoPath, Mirror!NoPath,
     Audio!NoPort, Mirror!NoPort, Audio!Dirs, Mirror!Dirs
<1>6. \A w, facility, what, index :
         Audio!HandleEvent(w, facility, what, index) = Mirror!HandleEvent(w, facility, what, index)
  BY DEF Audio!HandleEvent, Mirror!HandleEvent, Audio!QueryServerInfo, Mirror!QueryServerInfo,
     Audio!QueryDevice, Mirror!QueryDevice, Audio!QueryStream, Mirror!QueryStream, Audio!Ask,
     Mirror!Ask, Audio!RemoveStream, Mirror!RemoveStream, Audio!RemoveDevicesByIndex,
     Mirror!RemoveDevicesByIndex, Audio!Without, Mirror!Without, Audio!DeviceOf,
     Mirror!DeviceOf, Audio!HandleDeviceChanged, Mirror!HandleDeviceChanged,
     Audio!HandleStreamChanged, Mirror!HandleStreamChanged
<1> QED
  BY <1>3, <1>4, <1>5, <1>6 DEF Audio!Handled, Mirror!Handled, Audio!SetDefault,
     Mirror!SetDefault, Audio!Ask, Mirror!Ask

\* for the same messages, one after the other,
LEMMA SameFirst == \A w, ms : Audio!HandledFirst(w, ms) = Mirror!HandledFirst(w, ms)
<1> SUFFICES ASSUME NEW w, NEW ms PROVE Audio!HandledFirst(w, ms) = Mirror!HandledFirst(w, ms)
  OBVIOUS
<1> DEFINE Turns(f) == f = [n \in 0 .. Len(ms) |-> IF n = 0 THEN w
                                                  ELSE Audio!Handled(f[n - 1], ms[n])]
           Same(f) == f = [n \in 0 .. Len(ms) |-> IF n = 0 THEN w
                                                 ELSE Mirror!Handled(f[n - 1], ms[n])]
<1>1. \A f : Turns(f) <=> Same(f)
  <2>1. \A f : [n \in 0 .. Len(ms) |-> IF n = 0 THEN w ELSE Audio!Handled(f[n - 1], ms[n])]
              = [n \in 0 .. Len(ms) |-> IF n = 0 THEN w ELSE Mirror!Handled(f[n - 1], ms[n])]
    BY SameHandled
  <2> QED
    BY <2>1
<1>2. Audio!HandledFirst(w, ms) = CHOOSE f : Turns(f)
  BY DEF Audio!HandledFirst
<1>3. Mirror!HandledFirst(w, ms) = CHOOSE f : Same(f)
  BY DEF Mirror!HandledFirst
<1> HIDE DEF Turns, Same
<1>4. (CHOOSE f : Turns(f)) = CHOOSE f : Same(f)
  BY <1>1
<1> QED
  BY <1>2, <1>3, <1>4

\* and for what their reader and its clients then know;
LEMMA SameReceived ==
  /\ \A w, ms : Audio!Receive(w, ms) <=> Mirror!Receive(w, ms)
  /\ \A p, ms : Audio!Happens(p, ms) <=> Mirror!Happens(p, ms)
<1>1. \A w, ms : Audio!Receive(w, ms) <=> Mirror!Receive(w, ms)
  BY SameFirst DEF Audio!Receive, Mirror!Receive, Audio!Dirs, Mirror!Dirs, Audio!NoPath,
     Mirror!NoPath, Audio!NoPort, Mirror!NoPort, Audio!Pending, Mirror!Pending, Audio!Reports,
     Mirror!Reports, Audio!DeviceOf, Mirror!DeviceOf
<1>2. \A p, ms : Audio!Happens(p, ms) <=> Mirror!Happens(p, ms)
  BY <1>1 DEF Audio!Happens, Mirror!Happens, Audio!Alive, Mirror!Alive
<1> QED
  BY <1>1, <1>2

\* so that a device that vanishes, for instance, vanishes there too.
LEMMA SameVanishes == \A d, x : Audio!Vanishes(d, x) => Mirror!Vanishes(d, x)
<1> SUFFICES ASSUME NEW d, NEW x, Audio!Vanishes(d, x) PROVE Mirror!Vanishes(d, x)
  OBVIOUS
<1> USE DEF Audio!Here, Mirror!Here, Audio!NoName, Mirror!NoName, Audio!NoPath, Mirror!NoPath,
      Audio!NoPort, Mirror!NoPort, Audio!Without, Mirror!Without, Audio!Default, Mirror!Default
<1> DEFINE next == IF x = Audio!NoPath THEN Audio!NoName ELSE pulse.devices[x].name
           default == IF pulse.default[d[1]] = pulse.devices[d].name
                      THEN [pulse.default EXCEPT ![d[1]] = next] ELSE pulse.default
           moved == IF d[1] = "in" THEN {}
                    ELSE {s \in DOMAIN pulse.streams : pulse.streams[s] = d[2]}
           what == IF x = Audio!NoPath THEN "remove" ELSE "change"
           p == [pulse EXCEPT
                   !.devices = Audio!Without(@, {d}), !.default = default,
                   !.streams = IF x = Audio!NoPath THEN Audio!Without(@, moved)
                               ELSE [s \in DOMAIN @ |-> IF s \in moved THEN x[2] ELSE @[s]]]
           f == [s \in moved |-> <<"event", "stream", what, s>>]
           g == Audio!Default(pulse.default, default)
           e == <<<<"event", d[1], "remove", d[2]>>>>
<1>1. Audio!Happens(p, Audio!InSomeOrder(f) \o g \o e)
  BY DEF Audio!Vanishes
<1>2. ASSUME NEW q, NEW h, NEW k, NEW l, Audio!Happens(q, Audio!InSomeOrder(h) \o k \o l)
      PROVE  Mirror!Happens(q, Mirror!InSomeOrder(h) \o k \o l)
  BY <1>2, SameOrder, SameReceived
<1>3. Mirror!Happens(p, Mirror!InSomeOrder(f) \o g \o e)
  <2> HIDE DEF p, f, g, e
  <2> QED
    BY <1>1, <1>2
<1> QED
  BY <1>3 DEF Audio!Vanishes, Mirror!Vanishes

\* PulseAudio does the same by itself,
LEMMA SameEnvironment == Audio!Environment => Mirror!Environment
<1>1. \A d, i : Audio!Appears(d, i) => Mirror!Appears(d, i)
  BY SameReceived DEF Audio!Appears, Mirror!Appears, Audio!Owner, Mirror!Owner, Audio!NoName,
     Mirror!NoName, Audio!With, Mirror!With, Audio!Default, Mirror!Default
<1>2. \A d, i : Audio!PortChanges(d, i) => Mirror!PortChanges(d, i)
  BY SameReceived DEF Audio!PortChanges, Mirror!PortChanges, Audio!Here, Mirror!Here
<1>3. \A s, k : Audio!StreamStarts(s, k) => Mirror!StreamStarts(s, k)
  BY SameReceived DEF Audio!StreamStarts, Mirror!StreamStarts, Audio!Here, Mirror!Here,
     Audio!With, Mirror!With
<1>4. \A s, k : Audio!StreamMoves(s, k) => Mirror!StreamMoves(s, k)
  BY SameReceived DEF Audio!StreamMoves, Mirror!StreamMoves, Audio!Here, Mirror!Here
<1>5. \A s : Audio!StreamEnds(s) => Mirror!StreamEnds(s)
  BY SameReceived DEF Audio!StreamEnds, Mirror!StreamEnds, Audio!Without, Mirror!Without
<1>6. \A d : Audio!DefaultChanges(d) => Mirror!DefaultChanges(d)
  BY SameReceived DEF Audio!DefaultChanges, Mirror!DefaultChanges, Audio!Here, Mirror!Here
<1>7. Audio!Exits => Mirror!Exits
  BY SameReceived DEF Audio!Exits, Mirror!Exits
<1>8. Audio!Devices = Mirror!Devices /\ Audio!Infos = Mirror!Infos /\ Audio!NoPath = Mirror!NoPath
  BY DEF Audio!Devices, Mirror!Devices, Audio!Infos, Mirror!Infos, Audio!Ports, Mirror!Ports,
     Audio!NoPort, Mirror!NoPort, Audio!NoPath, Mirror!NoPath
<1> QED
  BY <1>1, <1>2, <1>3, <1>4, <1>5, <1>6, <1>7, <1>8, SameVanishes DEF Audio!Environment,
     Mirror!Environment

\* the service asks and is answered in the same way,
LEMMA SameService ==
  /\ Audio!Answer => Mirror!Answer
  /\ Audio!ContextReady => Mirror!ContextReady
  /\ Audio!ContextFailed => Mirror!ContextFailed
  /\ \A path : Audio!SetActiveDevice(path) => Mirror!SetActiveDevice(path)
  /\ \A s, path : Audio!SetStreamDevice(s, path) => Mirror!SetStreamDevice(s, path)
<1>1. \A r : Audio!Answered(r) = Mirror!Answered(r)
  BY DEF Audio!SetToSeq, Mirror!SetToSeq, Audio!IsInjective, Mirror!IsInjective,
     Audio!Cardinality, Mirror!Cardinality, Audio!InSomeOrder, Mirror!InSomeOrder,
     Audio!DeviceEntries, Mirror!DeviceEntries, Audio!StreamEntries, Mirror!StreamEntries,
     Audio!Answered, Mirror!Answered, Audio!Nothing, Mirror!Nothing, Audio!Here, Mirror!Here,
     Audio!Owner, Mirror!Owner
<1>2. Audio!Answer => Mirror!Answer
  BY <1>1, SameReceived DEF Audio!Answer, Mirror!Answer, Audio!Alive, Mirror!Alive
<1>3. Audio!ContextReady => Mirror!ContextReady
  BY DEF Audio!ContextReady, Mirror!ContextReady, Audio!Alive, Mirror!Alive, Audio!Initial,
     Mirror!Initial, Audio!SyncInitialPulseState, Mirror!SyncInitialPulseState
<1>4. Audio!ContextFailed => Mirror!ContextFailed
  BY DEF Audio!ContextFailed, Mirror!ContextFailed, Audio!Alive, Mirror!Alive
<1>5. \A path : Audio!SetActiveDevice(path) => Mirror!SetActiveDevice(path)
  BY DEF Audio!SetToSeq, Mirror!SetToSeq, Audio!IsInjective, Mirror!IsInjective,
     Audio!Cardinality, Mirror!Cardinality, Audio!InSomeOrder, Mirror!InSomeOrder,
     Audio!SetActiveDevice, Mirror!SetActiveDevice, Audio!Sets, Mirror!Sets, Audio!ActiveChosen,
     Mirror!ActiveChosen, Audio!ActivatePort, Mirror!ActivatePort, Audio!Ask, Mirror!Ask,
     Audio!MoveStreams, Mirror!MoveStreams, Audio!DeviceOf, Mirror!DeviceOf, Audio!NoPath,
     Mirror!NoPath, Audio!NoPort, Mirror!NoPort, Audio!Pending, Mirror!Pending
<1>6. \A s, path : Audio!SetStreamDevice(s, path) => Mirror!SetStreamDevice(s, path)
  BY DEF Audio!SetStreamDevice, Mirror!SetStreamDevice, Audio!MoveStreamToDevice,
     Mirror!MoveStreamToDevice, Audio!Ask, Mirror!Ask, Audio!Sets, Mirror!Sets
<1> QED
  BY <1>2, <1>3, <1>4, <1>5, <1>6

\* and whichever part moves, the audio service makes a step of its own or none.
LEMMA AudioSteps ==
  /\ Mirror!ParametersAre
  /\ InitAll => Mirror!Init
  /\ [NextAll]_allVars => [Mirror!Next]_(Mirror!vars)
<1>1. Mirror!ParametersAre
  BY DaemonAssumption DEF Audio!ParametersAre, Mirror!ParametersAre, Audio!NoName,
     Mirror!NoName, Audio!IsFiniteSet, Mirror!IsFiniteSet
<1>2. InitAll => Mirror!Init
  BY DEF InitAll, Audio!Init, Mirror!Init, Audio!FirstInfos, Mirror!FirstInfos, Audio!Infos,
     Mirror!Infos, Audio!Ports, Mirror!Ports, Audio!NoPort, Mirror!NoPort, Audio!NoName,
     Mirror!NoName, Audio!NoPath, Mirror!NoPath, Audio!Devices, Mirror!Devices, Audio!Dirs,
     Mirror!Dirs, Audio!With, Mirror!With, Audio!Without, Mirror!Without, Audio!NoClient,
     Mirror!NoClient
<1>3. UNCHANGED audioVars => UNCHANGED Mirror!vars
  BY DEF audioVars, Mirror!vars
<1>4. [NextAll]_allVars => Audio!Next \/ UNCHANGED audioVars
  BY DEF NextAll, InLoop, MoveAudio, MoveSignal, MoveObject, MoveDisk, MoveAccount,
         MovePower, MoveLocale, MoveAccess, MoveEthernet, allVars, others
<1>5. Audio!AllPaths = Mirror!AllPaths /\ Audio!NoPath = Mirror!NoPath
  BY DEF Audio!AllPaths, Mirror!AllPaths, Audio!Path, Mirror!Path, Audio!Devices,
     Mirror!Devices, Audio!Ports, Mirror!Ports, Audio!NoPort, Mirror!NoPort, Audio!NoPath,
     Mirror!NoPath
<1>6. Audio!Next => Mirror!Next
  BY <1>5, SameService, SameEnvironment DEF Audio!Next, Mirror!Next
<1> QED
  BY <1>1, <1>2, <1>3, <1>4, <1>6

\* When the service has handled everything its objects are PulseAudio's ports and sink inputs, the
\* paths they show are no leftovers, and a device that a client made active was PulseAudio's
\* default, for any devices, streams, names and ports, and however events cross the queries and
\* clients' requests (audio_pulse/audio_service.cpp, HandleSubscribeCallback).
THEOREM AudioFollowed == SpecAll => []AudioMirrored
<1> DEFINE Right == Mirror!ObjectsMirrorPulse /\ Mirror!PathsAreCurrent /\ Mirror!ActiveDeviceSet
<1>1. Right => AudioMirrored
  BY DEF AudioMirrored, Audio!ObjectsMirrorPulse, Mirror!ObjectsMirrorPulse,
     Audio!PathsAreCurrent, Mirror!PathsAreCurrent, Audio!ActiveDeviceSet,
     Mirror!ActiveDeviceSet, Audio!Quiet, Mirror!Quiet, Audio!Alive, Mirror!Alive,
     Audio!PathsOf, Mirror!PathsOf, Audio!Path, Mirror!Path, Audio!NoPort, Mirror!NoPort,
     Audio!NoPath, Mirror!NoPath, Audio!Dirs, Mirror!Dirs, Audio!Owner, Mirror!Owner,
     Audio!ActivePath, Mirror!ActivePath
<1>2. SpecAll => Mirror!Spec
  BY AudioSteps, PTL DEF SpecAll, Mirror!Spec
<1>3. SpecAll => []Right
  BY <1>2, AudioSteps, Mirror!AudioFollows, PTL
<1> HIDE DEF Right
<1> QED
  BY <1>1, <1>3, PTL
-----------------------------------------------------------------------------
(* The types of every part *)

\* The rules are of keys, and every cell is full or empty.
CellsTyped == rules \subseteq Keys /\ cell \in [Subs -> BOOLEAN]

\* Joining and ending leave rules to keys and cells to subscriptions.
LEMMA CellsStep == CellsTyped /\ [Signal!Next]_(Signal!vars) => CellsTyped'
<1> SUFFICES ASSUME CellsTyped, [Signal!Next]_(Signal!vars) PROVE CellsTyped'
  OBVIOUS
<1> USE DEF CellsTyped
<1>1. ASSUME NEW k \in Keys, Signal!Emit(k) PROVE CellsTyped'
  BY <1>1 DEF Signal!Emit, Signal!program
<1>2. ASSUME NEW k \in Keys, NEW s \in Subs, Signal!Subscribe(s, k) PROVE CellsTyped'
  BY <1>2 DEF Signal!Subscribe
<1>3. ASSUME NEW k \in Keys, NEW s \in Subs, Signal!SubscribeFails(s, k) PROVE CellsTyped'
  BY <1>3 DEF Signal!SubscribeFails
<1>4. ASSUME NEW s \in Subs, Signal!Unsubscribe(s) PROVE CellsTyped'
  BY <1>4 DEF Signal!Unsubscribe, Signal!Ends
<1>5. CASE Signal!BeginSignal \/ Signal!NextHandler \/ Signal!CallbackReturns \/ Signal!EndSignal
  BY <1>5 DEF Signal!BeginSignal, Signal!NextHandler, Signal!CallbackReturns, Signal!EndSignal,
     Signal!program
<1>6. CASE UNCHANGED Signal!vars
  BY <1>6 DEF Signal!vars, Signal!program
<1> QED
  BY <1>1, <1>2, <1>3, <1>4, <1>5, <1>6 DEF Signal!Next

\* The lists, cells and states of the subscriptions keep their types.
LEMMA SignalTypes == SpecAll => []Signal!TypeOK
<1>1. Signal!Init => SignalInv /\ CellsTyped
  BY SignalInit, DaemonAssumption DEF Signal!Init, CellsTyped
<1>2. SignalInv /\ [Signal!Next]_(Signal!vars) => SignalInv'
  BY SignalStep, DaemonAssumption
<1>3. SignalInv /\ CellsTyped => Signal!TypeOK
  <2> SUFFICES ASSUME SignalInv, CellsTyped PROVE Signal!TypeOK
    OBVIOUS
  <2>1. ASSUME NEW k \in Keys, NEW i \in DOMAIN handlers[k]
        PROVE  handlers[k][i] \in Subs \cup {Signal!Slot}
    <3>1. handlers[k] \in Seq(Cells)
      BY DEF SignalInv, Shaped
    <3> QED
      BY <3>1, Elements DEF Cells
  <2>2. \A s \in Subs : sub[s].state \in {"unused", "active", "failed", "ended"}
    BY DEF SignalInv, Shaped
  <2> QED
    BY <2>1, <2>2 DEF CellsTyped, Signal!TypeOK
<1> QED
  BY <1>1, <1>2, <1>3, CellsStep, Parts, PTL DEF SpecAll

\* Properties have values, and the calls are counted up to the bound.
ValuesTyped ==
  /\ value \in [Objects -> [Props -> Values]]
  /\ announced \in [Objects -> [Props -> Values]]
  /\ calls \in 0 .. MaxCalls

\* Setting, refusing and putting back leave each property a value.
LEMMA ValuesStep == ValuesTyped /\ [Object!Next]_(Object!vars) => ValuesTyped'
<1> SUFFICES ASSUME ValuesTyped, [Object!Next]_(Object!vars) PROVE ValuesTyped'
  OBVIOUS
<1> USE DEF ValuesTyped
<1>1. ASSUME NEW o \in Objects, NEW p \in Props, NEW v \in Values, Object!Set(o, p, v)
      PROVE  value' \in [Objects -> [Props -> Values]] /\ announced' \in [Objects -> [Props -> Values]]
  BY <1>1 DEF Object!Set
<1>2. ASSUME NEW o \in Objects, Object!Register(o) PROVE ValuesTyped'
  <2>1. Object!Initial \in Values
    BY DaemonAssumption DEF Object!Initial, BoundsAre
  <2>2. [p \in Props |-> Object!Initial] \in [Props -> Values]
    BY <2>1
  <2> QED
    BY <1>2, <2>2 DEF Object!Register
<1>3. ASSUME NEW o \in Objects, Object!Unregister(o) PROVE ValuesTyped'
  BY <1>3 DEF Object!Unregister
<1>4. ASSUME NEW o \in Objects, NEW p \in Props, NEW v \in Values, Object!Assign(o, p, v)
      PROVE  ValuesTyped'
  BY <1>1, <1>4 DEF Object!Assign
<1>5. ASSUME NEW c \in Object!Calls, Object!Immediate(c) PROVE ValuesTyped'
  BY <1>5, DaemonAssumption DEF Object!Immediate, Object!objects, BoundsAre
<1>6. ASSUME NEW c \in Object!Calls, Object!SetProperty(c) PROVE ValuesTyped'
  <2>1. c.object \in Objects /\ c.prop \in Props /\ c.value \in Values
    BY <1>6 DEF Object!Calls, Object!SetProperty, Object!Changes, Object!Wrong
  <2>2. calls' \in 0 .. MaxCalls
    BY <1>6, DaemonAssumption DEF Object!SetProperty, BoundsAre
  <2> QED
    BY <1>1, <1>6, <2>1, <2>2 DEF Object!SetProperty
<1>7. CASE Object!CallbackReturns
  BY <1>7 DEF Object!CallbackReturns, Object!Announce
<1>8. CASE Object!CallbackThrows \/ Object!CallbackCatches
  BY <1>8 DEF Object!CallbackThrows, Object!CallbackCatches, Object!objects
<1>9. CASE UNCHANGED Object!vars
  BY <1>9 DEF Object!vars, Object!objects
<1> QED
  BY <1>2, <1>3, <1>4, <1>5, <1>6, <1>7, <1>8, <1>9 DEF Object!Next

\* No more replies than calls.
LEMMA ObjectTypes == SpecAll => []Object!TypeOK
<1>1. Object!Init => ObjectInv /\ ValuesTyped
  <2>1. Object!Initial \in Values /\ 0 \in 0 .. MaxCalls
    BY DaemonAssumption DEF Object!Initial, BoundsAre
  <2> QED
    BY <2>1, ObjectInit DEF Object!Init, ValuesTyped
<1>2. ObjectInv /\ ValuesTyped => Object!TypeOK
  BY DEF ObjectInv, Announced, Answering, ValuesTyped, Object!TypeOK
<1> QED
  BY <1>1, <1>2, ObjectStep, ValuesStep, Parts, PTL DEF SpecAll

\* What UPower reports is a battery, and a client is told of no other.
LEMMA PowerTypes == SpecAll => []Power!TypeOK
<1> DEFINE Told == told \subseteq Batteries
<1>1. Power!Init => PowerInv /\ Told
  BY PowerInit DEF Power!Init
<1>2. PowerInv /\ Told /\ [Power!Next]_(Power!vars) => Told'
  <2> SUFFICES ASSUME PowerInv, Told, [Power!Next]_(Power!vars) PROVE Told'
    OBVIOUS
  <2>1. upower \subseteq Batteries /\ upowerQueue \in Seq({"added", "removed"} \X Batteries)
    BY DEF PowerInv
  <2>2. ASSUME NEW d \in Batteries, Power!Plugged(d) \/ Power!Unplugged(d) PROVE Told'
    BY <2>2 DEF Power!Plugged, Power!Unplugged, Power!Reports
  <2>3. CASE Power!DiscoverDevices \/ Power!DiscoveryFails
    BY <2>1, <2>3 DEF Power!DiscoverDevices, Power!DiscoveryFails
  <2>4. CASE Power!SubscribeToPowerManagerSignals \/ Power!CleanupPowerManager
    BY <2>4 DEF Power!SubscribeToPowerManagerSignals, Power!CleanupPowerManager
  <2>5. CASE Power!AddDevice
    <3>1. Head(upowerQueue)[2] \in Batteries
      BY <2>1, <2>5 DEF Power!AddDevice
    <3> QED
      BY <2>5, <3>1 DEF Power!AddDevice
  <2>6. CASE Power!RemoveDevice
    BY <2>6 DEF Power!RemoveDevice
  <2>7. CASE UNCHANGED Power!vars
    BY <2>7 DEF Power!vars
  <2> QED
    BY <2>2, <2>3, <2>4, <2>5, <2>6, <2>7 DEF Power!Next
<1>3. PowerInv /\ Told => Power!TypeOK
  BY DEF PowerInv, Power!TypeOK
<1> HIDE DEF Told
<1> QED
  BY <1>1, <1>2, <1>3, PowerStep, Parts, PTL DEF SpecAll

\* The locale cached, and told, is one of locale1's, or none yet.
LEMMA LocaleTypes == SpecAll => []Locale!TypeOK
<1> DEFINE Known == cached \in Locales \cup {Locale!Unset}
<1>1. Locale!Init => LocaleInv /\ Known
  BY LocaleInit DEF Locale!Init
<1>2. LocaleInv /\ Known /\ [Locale!Next]_(Locale!vars) => Known'
  <2> SUFFICES ASSUME LocaleInv, Known, [Locale!Next]_(Locale!vars) PROVE Known'
    OBVIOUS
  <2>1. current \in Locales \cup {Locale!NoLang} /\ localeQueue \in Seq(Locales \cup {Locale!NoLang})
    BY DEF LocaleInv
  <2>2. ASSUME NEW l, Locale!SetLocale(l) PROVE Known'
    BY <2>2 DEF Locale!SetLocale
  <2>3. CASE Locale!GetLocale
    BY <2>1, <2>3 DEF Locale!GetLocale, Locale!Fetched
  <2>4. CASE Locale!LocaleChanged
    <3>1. Head(localeQueue) \in Locales \cup {Locale!NoLang}
      BY <2>1, <2>4 DEF Locale!LocaleChanged
    <3> QED
      BY <2>4, <3>1 DEF Locale!LocaleChanged, Locale!Replaced
  <2>5. CASE UNCHANGED Locale!vars
    BY <2>5 DEF Locale!vars
  <2> QED
    BY <2>2, <2>3, <2>4, <2>5 DEF Locale!Next
<1>3. LocaleInv /\ Known => Locale!TypeOK
  BY DEF LocaleInv, Locale!TypeOK
<1> HIDE DEF Known
<1> QED
  BY <1>1, <1>2, <1>3, LocaleStep, Parts, PTL DEF SpecAll

\* The profiles offered are those of the device.
LEMMA EthernetTypes == SpecAll => []Ethernet!TypeOK
<1> DEFINE Offering == offered \in Ethernet!Offers
<1>1. Ethernet!Init => EthernetInv /\ Offering
  BY EthernetInit DEF Ethernet!Init
<1>2. Offering /\ [Ethernet!Next]_(Ethernet!vars) => Offering'
  BY DEF Ethernet!Next, Ethernet!Enable, Ethernet!Disable, Ethernet!OffersChange, Ethernet!vars,
     Ethernet!Offers, Ethernet!Profile
<1>3. EthernetInv /\ Offering => Ethernet!TypeOK
  BY DEF EthernetInv, Ethernet!TypeOK
<1> HIDE DEF Offering
<1> QED
  BY <1>1, <1>2, <1>3, EthernetStep, EthernetSteps, PTL DEF SpecAll


\* What the cache may be, and the connections.
Caches == [points : SUBSET Points, active : Points \cup {NoPoint}, profile : Profiles \cup {NoProfile}]
ConnectionsTyped ==
  /\ DOMAIN connections \subseteq Profiles /\ activePath \in DOMAIN connections \cup {NoProfile}
  /\ connections \in [DOMAIN connections -> Strengths \cup {0}]

\* The cache has access points that were seen, with their strengths; news are of them, and the
\* service follows no others.
CacheTyped ==
  /\ nm.points \subseteq seen /\ seen \subseteq Points
  /\ nm \in Caches /\ nm.active \in nm.points \cup {NoPoint}
  /\ strength \in [Points -> Strengths]
  /\ news \subseteq {"points", "active", "connection"} \cup nm.points
  /\ followed \subseteq nm.points
ShownTyped == shown \in [DOMAIN shown -> BOOLEAN] /\ DOMAIN shown \subseteq Points
PointsTyped ==
  /\ CacheTyped /\ ShownTyped /\ ConnectionsTyped
  /\ pointsTold = [p \in Points |-> pointsTold[p]]

\* At first the cache has access points, and there is no connection.
LEMMA PointsTypedInit == Access!Init => PointsTyped
<1> SUFFICES ASSUME Access!Init PROVE PointsTyped
  OBVIOUS
<1>1. PICK cache \in [points : SUBSET Points, active : Points \cup {NoPoint}, profile : {NoProfile}] :
        nm = cache
  BY DEF Access!Init
<1>2. CacheTyped
  BY <1>1 DEF Access!Init, CacheTyped, Caches
<1>3. ShownTyped /\ pointsTold = [p \in Points |-> pointsTold[p]]
  BY <1>1 DEF Access!Init, ShownTyped
<1>4. ConnectionsTyped
  BY DEF Access!Init, ConnectionsTyped
<1> QED
  BY <1>2, <1>3, <1>4 DEF PointsTyped

\* A batch of changes brings news of what the cache has now.
LEMMA BatchTyped ==
  ASSUME PointsTyped, NEW new \in Caches, NEW levels \in [Points -> Strengths],
         NEW activated, Access!Batch(new, levels, activated)
  PROVE  PointsTyped'
<1>1. Access!Changed(new, levels, activated) \subseteq {"points", "active", "connection"} \cup new.points
  BY DEF Access!Changed
<1>2. CacheTyped'
  BY <1>1 DEF PointsTyped, CacheTyped, Caches, Access!Batch
<1> QED
  BY <1>2 DEF PointsTyped, ShownTyped, ConnectionsTyped, Access!Batch

\* What is synchronised is the access points of the cache.
LEMMA SyncTyped ==
  ASSUME PointsTyped, Access!SyncWifiAccessPoints
  PROVE  ShownTyped' /\ pointsTold' = [p \in Points |-> pointsTold'[p]]
<1>1. nm.points \subseteq Points
  BY DEF PointsTyped, CacheTyped, Caches
<1>2. shown' = [p \in nm.points |-> p = nm.active]
  BY DEF Access!SyncWifiAccessPoints
<1>3. ShownTyped'
  BY <1>1, <1>2 DEF ShownTyped
<1> QED
  BY <1>3 DEF Access!SyncWifiAccessPoints

\* Every batch and notification is of access points that were seen.
LEMMA PointsTypedStep == PointsTyped /\ [Access!Next]_(Access!vars) => PointsTyped'
<1> SUFFICES ASSUME PointsTyped, [Access!Next]_(Access!vars) PROVE PointsTyped'
  OBVIOUS
<1> USE DEF PointsTyped
<1>1. CASE Access!CacheChanges
  <2>1. PICK points \in SUBSET Points, act \in Points \cup {NoPoint}, profile \in Profiles \cup {NoProfile},
             levels \in [Points -> Strengths], activated \in BOOLEAN :
          Access!Batch([points |-> points, active |-> act, profile |-> profile], levels, activated)
    BY <1>1 DEF Access!CacheChanges
  <2> DEFINE new == [points |-> points, active |-> act, profile |-> profile]
  <2>2. new \in Caches
    BY DEF Caches
  <2>3. Access!Batch(new, levels, activated)
    BY <2>1
  <2> HIDE DEF new, PointsTyped
  <2> QED
    BY <2>2, <2>3, BatchTyped
<1>2. CASE Access!WifiDisconnect
  <2> DEFINE new == [nm EXCEPT !.profile = NoProfile, !.active = NoPoint]
  <2>1. Access!Batch(new, strength, FALSE)
    BY <1>2 DEF Access!WifiDisconnect
  <2>2. new \in Caches /\ strength \in [Points -> Strengths]
    BY DEF CacheTyped, Caches
  <2> HIDE DEF new, PointsTyped
  <2> QED
    BY <2>1, <2>2, BatchTyped
<1>3. CASE Access!AccessPointsChanged \/ Access!ActiveAccessPointChanged \/ Access!WifiScan
  <2>1. Access!SyncWifiAccessPoints /\ news' \subseteq news
    BY <1>3 DEF Access!AccessPointsChanged, Access!ActiveAccessPointChanged, Access!WifiScan,
       Access!Emitted
  <2>2. UNCHANGED <<nm, strength, seen, connections, activePath, followed>>
    BY <1>3 DEF Access!AccessPointsChanged, Access!ActiveAccessPointChanged, Access!WifiScan
  <2>3. CacheTyped' /\ ConnectionsTyped'
    BY <2>1, <2>2 DEF CacheTyped, ConnectionsTyped
  <2> QED
    BY <2>1, <2>2, <2>3, SyncTyped
<1>a. Access!ActiveStrength \in Strengths \cup {0}
  BY DEF Access!ActiveStrength, CacheTyped, Caches
<1>4. CASE Access!ConnectionAppears
  <2>1. /\ nm.profile \in Profiles /\ activePath' = nm.profile
        /\ nm' = nm /\ strength' = strength /\ seen' = seen /\ shown' = shown /\ pointsTold' = pointsTold
        /\ news' = news \ {"connection"}
    BY <1>4 DEF Access!ConnectionAppears, Access!Emitted, CacheTyped, Caches
  <2>2. CASE nm.profile \in DOMAIN connections
    <3>1. connections' = connections /\ followed' = followed
      BY <1>4, <2>2 DEF Access!ConnectionAppears
    <3>2. CacheTyped' /\ ConnectionsTyped' /\ ShownTyped'
      BY <2>1, <2>2, <3>1 DEF CacheTyped, ConnectionsTyped, ShownTyped
    <3> QED
      BY <2>1, <3>2
  <2>3. CASE nm.profile \notin DOMAIN connections
    <3>1. /\ connections' = [c \in DOMAIN connections \cup {nm.profile} |->
                              IF c = nm.profile THEN Access!ActiveStrength ELSE connections[c]]
          /\ followed' = followed \cup ({nm.active} \ {NoPoint})
      BY <1>4, <2>3 DEF Access!ConnectionAppears
    <3>2. CacheTyped' /\ ShownTyped'
      BY <2>1, <3>1 DEF CacheTyped, ShownTyped
    <3>3. ConnectionsTyped'
      BY <1>a, <2>1, <3>1 DEF ConnectionsTyped
    <3> QED
      BY <2>1, <3>2, <3>3
  <2> QED
    BY <2>2, <2>3
<1>5. CASE Access!ConnectionDisappears
  <2>1. /\ connections' = [c \in DOMAIN connections \ {activePath} |-> connections[c]]
        /\ activePath' = NoProfile
    BY <1>5 DEF Access!ConnectionDisappears
  <2>2. ConnectionsTyped'
    BY <2>1 DEF ConnectionsTyped
  <2>3. CacheTyped'
    BY <1>5 DEF Access!ConnectionDisappears, Access!Emitted, CacheTyped
  <2> QED
    BY <1>5, <2>2, <2>3 DEF Access!ConnectionDisappears, ShownTyped
<1>6. ASSUME NEW p \in Points, Access!StrengthChanged(p) PROVE PointsTyped'
  <2>1. /\ activePath' = activePath
        /\ \/ connections' = connections
           \/ \E c \in DOMAIN connections : connections' = [connections EXCEPT ![c] = Access!ActiveStrength]
    BY <1>6 DEF Access!StrengthChanged
  <2>2. ConnectionsTyped'
    BY <1>a, <2>1 DEF ConnectionsTyped
  <2>3. CacheTyped'
    BY <1>6 DEF Access!StrengthChanged, Access!Emitted, CacheTyped
  <2> QED
    BY <1>6, <2>2, <2>3 DEF Access!StrengthChanged, ShownTyped
<1>7. CASE UNCHANGED Access!vars
  BY <1>7 DEF Access!vars, Access!service, CacheTyped, ShownTyped, ConnectionsTyped
<1> QED
  BY <1>1, <1>2, <1>3, <1>4, <1>5, <1>6, <1>7 DEF Access!Next

\* The signals of an access point add up to one or none.
LEMMA AccessTypes == SpecAll => []Access!TypeOK
<1>1. AccessInv /\ PointsTyped => Access!TypeOK
  <2> SUFFICES ASSUME AccessInv, PointsTyped PROVE Access!TypeOK
    OBVIOUS
  <2>1. \A p \in Points : pointsTold[p] \in 0 .. 1
    BY DEF AccessInv, Access!PointsMirrored
  <2> QED
    BY <2>1 DEF PointsTyped, CacheTyped, Caches, ShownTyped, ConnectionsTyped, Access!TypeOK
<1>2. AccessInv /\ [Access!Next]_(Access!vars) => AccessInv'
  BY AccessStep, DaemonAssumption
<1> QED
  BY <1>1, <1>2, AccessInit, PointsTypedInit, PointsTypedStep, Parts, PTL DEF SpecAll

\* The request that is under way is for a user, and edits one of the groups.
RequestTyped ==
  /\ at \in Account!Steps /\ group.number \in Groups \cup {0}
  /\ at # "idle" => user \in NewUsers
  /\ at \in {"groups", "write"} => group.number \in Groups
  /\ at = "write" => group.read \subseteq NewUsers \cup Others
UsersTyped ==
  /\ DOMAIN users \subseteq NewUsers
  /\ \A u \in DOMAIN users : users[u] \subseteq {"cached", "password"}
MembersTyped ==
  groups \in [Groups -> SUBSET (NewUsers \cup Others)] /\ raced \subseteq added
AccountTyped == RequestTyped /\ UsersTyped /\ MembersTyped

\* A call leaves the users as they are, or has its effect, and goes on.
LEMMA CallTyped ==
  ASSUME AccountTyped, NEW stepOf, NEW effect, NEW ok, NEW failed,
         Account!Call(stepOf, effect, ok, failed), stepOf # "idle",
         DOMAIN effect \subseteq NewUsers,
         \A u \in DOMAIN effect : effect[u] \subseteq {"cached", "password"}
  PROVE  /\ UsersTyped' /\ MembersTyped' /\ at' \in {ok, failed}
         /\ user \in NewUsers /\ user' = user
  BY DEF AccountTyped, UsersTyped, MembersTyped, RequestTyped, Account!Call, Account!history

\* Every call, failure and restart keeps the request's user and group, and the members.
LEMMA AccountStep == AccountTyped /\ [Account!Next]_(Account!vars) => AccountTyped'
<1> SUFFICES ASSUME AccountTyped, [Account!Next]_(Account!vars) PROVE AccountTyped'
  OBVIOUS
<1> USE DEF AccountTyped, Account!Steps
<1>0. Account!NoGroup.number = 0 /\ Account!FirstGroup.number = 1 /\ 1 \in Groups
  BY DaemonAssumption DEF Account!NoGroup, Account!FirstGroup, BoundsAre
<1>1. ASSUME NEW facts \in SUBSET {"cached", "password"}, user \in NewUsers
      PROVE  /\ DOMAIN Account!With(user, facts) \subseteq NewUsers
             /\ \A u \in DOMAIN Account!With(user, facts) :
                  Account!With(user, facts)[u] \subseteq {"cached", "password"}
  BY <1>1 DEF Account!With, UsersTyped
<1>2. ASSUME NEW u \in NewUsers, Account!Begin(u) PROVE AccountTyped'
  BY <1>2 DEF Account!Begin, RequestTyped, UsersTyped, MembersTyped, Account!history
<1>3. CASE Account!CreateUser
  <2>1. at = "create" /\ user \in NewUsers
    BY <1>3 DEF Account!CreateUser, Account!Call, RequestTyped
  <2>2. UsersTyped' /\ MembersTyped' /\ at' \in {"cache", "idle"} /\ user' = user
    BY <1>1, <1>3, <2>1, CallTyped DEF Account!CreateUser
  <2> QED
    BY <1>3, <2>1, <2>2 DEF Account!CreateUser, RequestTyped
<1>4. CASE Account!CacheUser
  <2>1. at = "cache" /\ user \in NewUsers
    BY <1>4 DEF Account!CacheUser, Account!Call, RequestTyped
  <2>2. UsersTyped' /\ MembersTyped' /\ at' = "groups" /\ user' = user
    BY <1>1, <1>4, <2>1, CallTyped DEF Account!CacheUser
  <2> QED
    BY <1>0, <1>4, <2>1, <2>2 DEF Account!CacheUser, RequestTyped
<1>5. CASE Account!SetUserPassword
  <2>1. at = "password" /\ user \in NewUsers
    BY <1>5 DEF Account!SetUserPassword, Account!Call, RequestTyped
  <2>2. UsersTyped' /\ MembersTyped' /\ at' \in {"idle", "uid"} /\ user' = user
    BY <1>1, <1>5, <2>1, CallTyped DEF Account!SetUserPassword
  <2> QED
    BY <1>5, <2>1, <2>2 DEF Account!SetUserPassword, RequestTyped
<1>6. CASE Account!GetUid
  <2>1. at = "uid" /\ user \in NewUsers
    BY <1>6 DEF Account!GetUid, Account!Call, RequestTyped
  <2>2. UsersTyped' /\ MembersTyped' /\ at' \in {"remove", "idle"} /\ user' = user
    BY <1>6, CallTyped DEF Account!GetUid, Account!AfterFailure, UsersTyped
  <2> QED
    BY <1>6, <2>1, <2>2 DEF Account!GetUid, RequestTyped
<1>7. CASE Account!RemoveUser
  <2>1. /\ DOMAIN Account!Without(user) \subseteq NewUsers
        /\ \A u \in DOMAIN Account!Without(user) :
             Account!Without(user)[u] \subseteq {"cached", "password"}
    BY DEF Account!Without, UsersTyped
  <2>2. UsersTyped' /\ MembersTyped' /\ at' = "idle" /\ user' = user
    BY <1>7, <2>1, CallTyped DEF Account!RemoveUser
  <2> QED
    BY <1>7, <2>2 DEF Account!RemoveUser, RequestTyped
<1>8. ASSUME Account!NextGroup, user' = user, at # "idle" PROVE RequestTyped'
  BY <1>0, <1>8 DEF Account!NextGroup, RequestTyped
<1>9. CASE Account!ReadGroup
  <2>1. UsersTyped' /\ MembersTyped' /\ user' = user /\ at = "groups"
    BY <1>9 DEF Account!ReadGroup, UsersTyped, MembersTyped, Account!history
  <2>2. CASE Account!NextGroup
    BY <1>8, <2>1, <2>2
  <2>3. CASE group' = [group EXCEPT !.read = groups[group.number]] /\ at' = "write"
    <3>1. group.number \in Groups /\ groups[group.number] \subseteq NewUsers \cup Others
      BY <2>1 DEF RequestTyped, MembersTyped
    <3>2. group'.number = group.number /\ group'.read = groups[group.number]
      BY <2>3, <3>1
    <3> QED
      BY <2>1, <2>3, <3>1, <3>2 DEF RequestTyped
  <2> QED
    BY <1>9, <2>2, <2>3 DEF Account!ReadGroup
<1>10. CASE Account!WriteGroup
  <2>1. UsersTyped' /\ user' = user /\ at = "write" /\ Account!NextGroup /\ raced' \subseteq added'
    BY <1>10 DEF Account!WriteGroup, UsersTyped, MembersTyped, Account!history
  <2>2. group.read \cup {user} \subseteq NewUsers \cup Others
    BY <2>1 DEF RequestTyped
  <2>3. MembersTyped'
    BY <1>10, <2>1, <2>2 DEF Account!WriteGroup, Account!Rewritten, MembersTyped
  <2> QED
    BY <1>8, <2>1, <2>3
<1>11. ASSUME NEW g \in Groups, NEW m \in Others, Account!OtherAdds(g, m) PROVE AccountTyped'
  <2>1. MembersTyped'
    BY <1>11 DEF Account!OtherAdds, MembersTyped
  <2> QED
    BY <1>11, <2>1 DEF Account!OtherAdds, RequestTyped, UsersTyped, Account!request
<1>12. CASE Account!Restart
  BY <1>0, <1>12 DEF Account!Restart, RequestTyped, UsersTyped, MembersTyped, Account!history
<1>13. CASE UNCHANGED Account!vars
  BY <1>13 DEF Account!vars, Account!request, Account!history, RequestTyped, UsersTyped, MembersTyped
<1> QED
  BY <1>2, <1>3, <1>4, <1>5, <1>6, <1>7, <1>9, <1>10, <1>11, <1>12, <1>13 DEF Account!Next

\* The request, the users and the members of the groups keep their types.
LEMMA AccountTypes == SpecAll => []Account!TypeOK
<1>1. Account!Init => AccountTyped
  <2> SUFFICES ASSUME Account!Init PROVE AccountTyped
    OBVIOUS
  <2>1. users = [u \in {} |-> {}] /\ groups \in [Groups -> {{}}] /\ group.number = 0
        /\ at = "idle" /\ raced = {}
    BY DEF Account!Init, Account!NoGroup
  <2> QED
    BY <2>1 DEF AccountTyped, RequestTyped, UsersTyped, MembersTyped, Account!Steps
<1>2. AccountTyped => Account!TypeOK
  BY DEF AccountTyped, RequestTyped, UsersTyped, MembersTyped, Account!TypeOK
<1> QED
  BY <1>1, <1>2, AccountStep, Parts, PTL DEF SpecAll

\* The disk and the worker's table have the types that DiskPlanProofs gives them.
LEMMA DiskTypes == SpecAll => []Disk!TypeOK
<1>1. Plans!TypeOK => Disk!TypeOK
  BY DEF Plans!TypeOK, Disk!TypeOK, Plans!IsFree, Disk!IsFree
<1>2. SpecAll => Plans!Spec
  BY PlansAre, PTL DEF SpecAll, Plans!Spec
<1>3. SpecAll => []Plans!TypeOK
  BY <1>2, PlansAre, Plans!DiskTypeCorrect, PTL
<1> QED
  BY <1>1, <1>3, PTL

\* The audio service's maps have the types that AudioServiceProofs gives them.
LEMMA AudioTypes == SpecAll => []Audio!TypeOK
<1>0. /\ Audio!AllPaths = Mirror!AllPaths /\ Audio!NoPath = Mirror!NoPath /\ Audio!Devices = Mirror!Devices
      /\ Audio!Dirs = Mirror!Dirs /\ Audio!NoName = Mirror!NoName
  BY DEF Audio!AllPaths, Mirror!AllPaths, Audio!Path, Mirror!Path, Audio!Devices, Mirror!Devices,
     Audio!Ports, Mirror!Ports, Audio!NoPort, Mirror!NoPort, Audio!NoPath, Mirror!NoPath,
     Audio!NoName, Mirror!NoName, Audio!Dirs, Mirror!Dirs
<1>1. Mirror!TypeOK => Audio!TypeOK
  BY <1>0 DEF Mirror!TypeOK, Audio!TypeOK
<1>2. SpecAll => Mirror!Spec
  BY AudioSteps, PTL DEF SpecAll, Mirror!Spec
<1>3. SpecAll => []Mirror!TypeOK
  BY <1>2, AudioSteps, Mirror!AudioTypeCorrect, PTL
<1> QED
  BY <1>1, <1>3, PTL

\* In every part of the daemon the state is what the code of that part takes it for: counters
\* in order and within what was enqueued, maps over the objects that there are, names and
\* numbers of users, regions and devices that the requests could have given, for any objects,
\* users, disks, connections, devices and clients (the services of src/services, dbus_wrapper.h).
THEOREM EveryType == SpecAll => []TypesOK
<1>1. TypeOK /\ Audio!TypeOK /\ Signal!TypeOK /\ Object!TypeOK /\ Disk!TypeOK /\ Account!TypeOK
        /\ Power!TypeOK /\ Locale!TypeOK /\ Access!TypeOK /\ Ethernet!TypeOK => TypesOK
  BY DEF TypesOK
<1> QED
  BY <1>1, LoopTypeCorrect, AudioTypes, SignalTypes, ObjectTypes, DiskTypes, AccountTypes,
     PowerTypes, LocaleTypes, AccessTypes, EthernetTypes, PTL
=============================================================================
