------------------------- MODULE PoolLatticeProofs -------------------------
(***************************************************************************)
(* Theorems about the lattices of Pool: the subscriptions of the keys and  *)
(* the copies the attached clients hold.                                   *)
(***************************************************************************)
EXTENDS PoolProofs

---------------------------------------------------------------------------
(***************************************************************************)
(* Keys and subscriptions.  KeysSubscribed has a converse: a subscription  *)
(* without a key is one that lattice_cleanup left behind.                  *)
(***************************************************************************)

KeyInv ==
    \A n \in Namespace, s \in SessionId, k \in Key :
        /\ private[n][s][k] # Absent =>
                n \in lattices /\ s \in subscriptions[n][k]
        /\ s \in subscriptions[n][k] =>
                private[n][s][k] # Absent \/ s \in lapsed[n][k]

\* What remove_session takes away is its own session's, where it was the last
\* connection attached.
LEMMA RemovedKeys ==
    ASSUME TypeOK, NEW c \in Cid, NEW s \in SessionId,
           NEW N \in SUBSET Namespace, RemoveLattices(c, s, N),
           NEW n \in Namespace, NEW x \in SessionId, NEW k \in Key
    PROVE  LET taken == n \in LastAttached(c, s, N) /\ k \in KeysOf(n, s) IN
           /\ private'[n][x][k] =
                IF n \in LastAttached(c, s, N) /\ x = s THEN Absent
                                                        ELSE private[n][x][k]
           /\ x \in subscriptions'[n][k] <=>
                x \in subscriptions[n][k] /\ ~ (taken /\ x = s)
           /\ x \in lapsed'[n][k] <=> x \in lapsed[n][k] /\ ~ (taken /\ x = s)
           /\ shared'[n][k] \in {Absent, shared[n][k]}
<1>1. private'[n][x][k] =
            IF n \in LastAttached(c, s, N) /\ x = s THEN Absent
                                                    ELSE private[n][x][k]
  BY DEF RemoveLattices, WithoutSession, TypeOK, LatticeTypeOK
<1>2. /\ subscriptions'[n][k] =
            IF n \in LastAttached(c, s, N) /\ k \in KeysOf(n, s)
            THEN subscriptions[n][k] \ {s} ELSE subscriptions[n][k]
      /\ lapsed'[n][k] =
            IF n \in LastAttached(c, s, N) /\ k \in KeysOf(n, s)
            THEN lapsed[n][k] \ {s} ELSE lapsed[n][k]
  BY DEF RemoveLattices
<1>3. shared'[n][k] \in {Absent, shared[n][k]}
  BY DEF RemoveLattices
<1>4. QED
  BY <1>1, <1>2, <1>3

\* remove_lattice keeps keys and subscriptions together.
LEMMA RemoveKeepsKeys ==
    ASSUME TypeOK, KeyInv, NEW c \in Cid, NEW s \in SessionId,
           NEW N \in SUBSET Namespace, RemoveLattices(c, s, N)
    PROVE  KeyInv'
<1> SUFFICES ASSUME NEW n \in Namespace, NEW x \in SessionId, NEW k \in Key
             PROVE  /\ private'[n][x][k] # Absent =>
                            n \in lattices' /\ x \in subscriptions'[n][k]
                    /\ x \in subscriptions'[n][k] =>
                            private'[n][x][k] # Absent \/ x \in lapsed'[n][k]
  BY DEF KeyInv, Absent
<1>1. private'[n][x][k] # Absent /\ n \in lattices => n \in lattices'
  BY DEF RemoveLattices
<1>2. QED
  BY <1>1, RemovedKeys DEF KeyInv, KeysOf

\* Pool::new has no keys.
LEMMA KeysInit == Init => KeyInv
  BY DEF Init, KeyInv

\* Every handler keeps keys and subscriptions together.
LEMMA KeysStep == TypeOK /\ SessionsInSync /\ KeyInv /\ [Next]_vars => KeyInv'
<1> SUFFICES ASSUME TypeOK, SessionsInSync, KeyInv, [Next]_vars PROVE KeyInv'
  OBVIOUS
<1>1. ASSUME NEW c \in Cid, NEW n \in Namespace, DetachLive(c, n)
      PROVE  KeyInv'
  <2>1. RemoveLattices(c, csession[c], {n}) /\ csession[c] \in SessionId
    BY <1>1 DEF DetachLive, SessionsInSync
  <2>2. QED
    BY <2>1, RemoveKeepsKeys
<1>2. ASSUME NEW c \in Cid, DisconnectInactive(c) PROVE KeyInv'
  <2>1. /\ RemoveLattices(c, csession[c], clattices[c])
        /\ csession[c] \in SessionId /\ clattices[c] \in SUBSET Namespace
    BY <1>2 DEF DisconnectInactive, SessionsInSync, TypeOK, ConnTypeOK
  <2>2. QED
    BY <2>1, RemoveKeepsKeys
<1>3. ASSUME NEW n \in Namespace, NEW delta \in Deltas,
             LatticeUpdate(n, delta)
      PROVE  KeyInv'
  <2>1. /\ lattices' = lattices \cup {n} /\ lapsed' = lapsed
        /\ private' = [private EXCEPT ![n] = [s \in SessionId |->
                [k \in Key |-> Max2(private[n][s][k], delta.private[s][k])]]]
        /\ subscriptions' = [subscriptions EXCEPT ![n] = [k \in Key |->
                subscriptions[n][k] \cup
                    {s \in SessionId : delta.private[s][k] # Absent}]]
    BY <1>3 DEF LatticeUpdate
  <2>2. ASSUME NEW m \in Namespace, NEW s \in SessionId, NEW k \in Key
        PROVE  /\ private'[m][s][k] =
                    IF m = n THEN Max2(private[n][s][k], delta.private[s][k])
                             ELSE private[m][s][k]
               /\ s \in subscriptions'[m][k] <=>
                    \/ s \in subscriptions[m][k]
                    \/ m = n /\ delta.private[s][k] # Absent
    BY <2>1 DEF TypeOK, LatticeTypeOK
  <2>3. ASSUME NEW m \in Namespace, NEW s \in SessionId, NEW k \in Key
        PROVE  /\ private[m][s][k] \in Version
               /\ delta.private[s][k] \in Version
    BY InputAssumption DEF TypeOK, LatticeTypeOK
  <2>4. QED
    BY <2>1, <2>2, <2>3 DEF KeyInv, Max2, Version, Absent
<1>4. ASSUME Expire PROVE KeyInv'
  <2> DEFINE purged(s) == latticeLeft = 0 /\ status'[s] = "offline"
  <2>1. /\ UNCHANGED <<lattices, subscriptions>>
        /\ private' = [n \in Namespace |-> [s \in SessionId |->
                IF purged(s) THEN [k \in Key |-> Absent] ELSE private[n][s]]]
        /\ lapsed' = [n \in Namespace |-> [k \in Key |-> lapsed[n][k] \cup
                {s \in SessionId : purged(s) /\ k \in KeysOf(n, s)}]]
    BY <1>4 DEF Expire
  <2> HIDE DEF purged
  <2>2. QED
    BY <2>1 DEF KeyInv, KeysOf, Absent
<1>5. CASE UNCHANGED latticeVars
  BY <1>5 DEF latticeVars, KeyInv
<1>6. CASE UNCHANGED vars
  BY <1>5, <1>6 DEF vars
<1>7. ASSUME NEW c \in Cid, ConnectionStep(c) PROVE KeyInv'
  BY <1>2, <1>5, <1>7 DEF ConnectionStep, NewConnection, AssociateDropped,
     AssociateConnected, Join, DisconnectPending, DisconnectActive,
     DisconnectUnknown, Panic
<1>8. ASSUME NEW c \in Cid, BackendStep(c) PROVE KeyInv'
  BY <1>1, <1>5, <1>8 DEF BackendStep, Subscribe, Unsubscribe, Panic,
     AttachPending, AttachLive, DetachPending, UsersAttachPending,
     UsersAttachLive, UsersDetachPending, UsersDetachLive
<1>9. ASSUME NEW s \in SessionId,
             \/ \E ticks \in -1 .. MaxIdle : UpdateActivity(s, ticks)
             \/ \E users \in UserLists : UsersUpdate(s, users)
      PROVE  KeyInv'
  BY <1>5, <1>9 DEF UpdateActivity, UsersUpdate
<1>10. ASSUME NEW t \in Topic, Publish(t) PROVE KeyInv'
  BY <1>5, <1>10 DEF Publish, Panic
<1>11. Fails \/ HandlerExits \/ Tick => KeyInv'
  BY <1>5 DEF Fails, Panic, HandlerExits, Tick
<1>12. QED
  BY <1>3, <1>4, <1>6, <1>7, <1>8, <1>9, <1>10, <1>11, Outcomes DEF Next

\* In every behaviour a session that holds a private key is among the key's
\* subscribers, so remove_session finds every key it removes.
THEOREM KeysStaySubscribed == Spec => []KeysSubscribed
<1> DEFINE Inv == TypeOK /\ SessionsInSync /\ KeyInv
<1>1. Init => Inv
  BY TypeInit, SessionsInit, KeysInit
<1>2. Inv /\ [Next]_vars => Inv'
  BY TypeStep, SessionsStep, KeysStep
<1>3. Inv => KeysSubscribed
  BY DEF KeyInv, KeysSubscribed, KeysOf
<1>4. QED
  BY <1>1, <1>2, <1>3, PTL DEF Spec

---------------------------------------------------------------------------
(***************************************************************************)
(* The copies of the clients.  What a client holds depends on being in the *)
(* session's set of the namespace exactly while it is attached, on having  *)
(* nothing before, and on the private copy never being ahead.              *)
(***************************************************************************)

Empty(c, n) == \A k \in Key : /\ seenPrivate[c][n][k] = Absent
                              /\ seenShared[c][n][k] = Absent

Current(c, n, s, k) ==
    /\ seenPrivate[c][n][k] <= private[n][s][k]
    /\ seenPrivate[c][n][k] = private[n][s][k] \/ private[n][s][k] = 0
    /\ private[n][s][k] # Absent =>
        \/ s \in lapsed[n][k]
        \/ seenShared[c][n][k] = Absent
        \/ seenShared[c][n][k] >= shared[n][k]

Copy(c, n) ==
    /\ phase[c] \in {"fresh", "pending"} =>
            /\ \A s \in SessionId : c \notin slattices[s][n]
            /\ Empty(c, n)
    /\ Live(c) =>
            /\ \A s \in SessionId : c \in slattices[s][n] <=>
                    s = csession[c] /\ n \in clattices[c]
            /\ n \notin clattices[c] => Empty(c, n)
            /\ n \in clattices[c] =>
                    \A k \in Key : Current(c, n, csession[c], k)

CopyInv == \A c \in Cid, n \in Namespace : Copy(c, n)

\* A step keeps the copy of d if it leaves d's place and d's copy alone, does
\* not touch its session's keys and at most drops shared values.
LEMMA CopyKept ==
    ASSUME TypeOK, SessionsInSync, NEW d \in Cid, NEW n \in Namespace,
           Copy(d, n),
           phase'[d] = phase[d], csession'[d] = csession[d],
           Live(d) => (n \in clattices'[d] <=> n \in clattices[d]),
           seenPrivate'[d][n] = seenPrivate[d][n],
           seenShared'[d][n] = seenShared[d][n],
           \A s \in SessionId : phase[d] \in {"fresh", "pending", "live"} =>
                (d \in slattices'[s][n] <=> d \in slattices[s][n]),
           Attached(d, n) => \A k \in Key :
                /\ private'[n][csession[d]][k] = private[n][csession[d]][k]
                /\ csession[d] \in lapsed[n][k] =>
                        csession[d] \in lapsed'[n][k]
                /\ shared'[n][k] \in {Absent, shared[n][k]}
    PROVE  Copy(d, n)'
<1>1. \A k \in Key : seenShared[d][n][k] \in Version
  BY DEF TypeOK, SeenTypeOK
<1>2. ASSUME Attached(d, n), NEW k \in Key
      PROVE  Current(d, n, csession[d], k)'
  <2> DEFINE s == csession[d]
  <2>1. Current(d, n, s, k)
    BY <1>2 DEF Copy, Attached
  <2>2. csession'[d] = s
    OBVIOUS
  <2> HIDE DEF s
  <2>3. /\ private'[n][s][k] = private[n][s][k]
        /\ s \in lapsed[n][k] => s \in lapsed'[n][k]
        /\ shared'[n][k] \in {Absent, shared[n][k]}
    BY <1>2 DEF s
  <2>4. Absent <= seenShared[d][n][k]
    BY <1>1 DEF Version, Absent
  <2>5. QED
    BY <2>1, <2>2, <2>3, <2>4 DEF Current, Absent
<1>3. QED
  BY <1>2 DEF Copy, Attached, Live, Empty

\* A client without a copy is not ahead of the server.
LEMMA EmptyNotAhead ==
    ASSUME TypeOK, NEW c \in Cid, NEW n \in Namespace, NEW s \in SessionId,
           Empty(c, n)
    PROVE  \A k \in Key : seenPrivate[c][n][k] <= private[n][s][k]
<1> TAKE k \in Key
<1>1. private[n][s][k] \in Version
  BY DEF TypeOK, LatticeTypeOK
<1>2. seenPrivate[c][n][k] = Absent
  BY DEF Empty
<1>3. QED
  BY <1>1, <1>2 DEF Version, Absent

\* lattice_from brings the copy of a namespace up to date; what the client
\* already had, or an empty copy, is not ahead of it.
LEMMA SnapshotCurrent ==
    ASSUME TypeOK, KeyInv, NEW c \in Cid, NEW s \in SessionId,
           NEW N \in SUBSET lattices, NEW n \in Namespace,
           n \in N \/ n \notin lattices,
           \A k \in Key : seenPrivate[c][n][k] <= private[n][s][k],
           NEW k \in Key
    PROVE  /\ SnapshotPrivate(c, s, N)[c][n][k] = private[n][s][k]
           /\ private[n][s][k] # Absent =>
                    SnapshotShared(c, s, N)[c][n][k] >= shared[n][k]
<1>1. /\ seenPrivate[c][n][k] \in Version /\ seenShared[c][n][k] \in Version
      /\ private[n][s][k] \in Version /\ shared[n][k] \in Version
  BY DEF TypeOK, SeenTypeOK, LatticeTypeOK
<1>2. n \notin N => private[n][s][k] = Absent
  BY DEF KeyInv
<1>3. /\ SnapshotPrivate(c, s, N)[c][n][k] =
            IF n \in N /\ private[n][s][k] # Absent
            THEN Max2(seenPrivate[c][n][k], private[n][s][k])
            ELSE seenPrivate[c][n][k]
      /\ SnapshotShared(c, s, N)[c][n][k] =
            IF n \in N /\ private[n][s][k] # Absent
            THEN Max2(seenShared[c][n][k], shared[n][k])
            ELSE seenShared[c][n][k]
  BY DEF SnapshotPrivate, SnapshotShared, Merged, KeysOf, TypeOK, SeenTypeOK
<1>4. QED
  BY <1>1, <1>2, <1>3 DEF Max2, Version, Absent

\* lattice_from writes to no other connection and no other namespace.
LEMMA SnapshotElsewhere ==
    ASSUME TypeOK, NEW c \in Cid, NEW s, NEW N, NEW d \in Cid,
           NEW n \in Namespace, d # c \/ n \notin N
    PROVE  /\ SnapshotPrivate(c, s, N)[d][n] = seenPrivate[d][n]
           /\ SnapshotShared(c, s, N)[d][n] = seenShared[d][n]
  BY DEF SnapshotPrivate, SnapshotShared, TypeOK, SeenTypeOK

\* remove_lattice of one connection does not touch the keys another attached
\* connection sees: of its own session it was not the last one.
LEMMA RemoveElsewhere ==
    ASSUME TypeOK, SessionsInSync, NEW c \in Cid, NEW s \in SessionId,
           NEW N \in SUBSET Namespace, RemoveLattices(c, s, N),
           NEW d \in Cid, NEW n \in Namespace, Copy(d, n), Attached(d, n),
           d # c \/ n \notin N, NEW k \in Key
    PROVE  /\ private'[n][csession[d]][k] = private[n][csession[d]][k]
           /\ csession[d] \in lapsed[n][k] => csession[d] \in lapsed'[n][k]
           /\ shared'[n][k] \in {Absent, shared[n][k]}
<1>1. csession[d] \in SessionId
  BY DEF SessionsInSync, Attached
<1>2. csession[d] = s => n \notin LastAttached(c, s, N)
  BY <1>1 DEF LastAttached, Copy, Attached
<1>3. QED
  BY <1>1, <1>2, RemovedKeys

\* lattice_update brings every attached connection up to date, whichever of
\* its two loops gets to it: the session holds the key already, or the delta
\* gives it the key.
LEMMA UpdateCurrent ==
    ASSUME TypeOK, SessionsInSync, KeyInv, NEW n \in Namespace,
           NEW delta \in Deltas, LatticeUpdate(n, delta),
           NEW d \in Cid, Copy(d, n), Attached(d, n), NEW k \in Key
    PROVE  Current(d, n, csession[d], k)'
<1> DEFINE s == csession[d]
           named == {x \in SessionId :
                        \E j \in Key : delta.private[x][j] # Absent}
           newKeys(x) == {j \in Key : /\ delta.private[x][j] # Absent
                                      /\ x \notin subscriptions[n][j]}
           changedShared == {j \in Key : delta.shared[j] > 0
                                      /\ delta.shared[j] > shared[n][j]}
           changedPrivate(x) == {j \in Key : delta.private[x][j] > 0
                                  /\ delta.private[x][j] > private[n][x][j]}
           newShared == [j \in Key |-> Max2(shared[n][j], delta.shared[j])]
           newPrivate == [x \in SessionId |-> [j \in Key |->
                            Max2(private[n][x][j], delta.private[x][j])]]
           newSubs == [j \in Key |-> subscriptions[n][j] \cup
                            {x \in SessionId : delta.private[x][j] # Absent}]
           sharedFor(x) ==
               IF x \in named
               THEN {j \in changedShared : newPrivate[x][j] # Absent}
                       \cup newKeys(x)
               ELSE IF \E j \in changedShared : x \in newSubs[j]
                    THEN changedShared ELSE {}
           p == private[n][s][k]
           dp == delta.private[s][k]
           sh == shared[n][k]
           ds == delta.shared[k]
           sp == seenPrivate[d][n][k]
           ss == seenShared[d][n][k]
<1>1. s \in SessionId /\ Receives(d, n)
  BY DEF Attached, SessionsInSync, Receives, Copy
<1>2. /\ p \in Version /\ dp \in Version /\ sh \in Version /\ ds \in Version
      /\ sp \in Version /\ ss \in Version
  BY <1>1, InputAssumption DEF TypeOK, LatticeTypeOK, SeenTypeOK
<1>3. private'[n][s][k] = Max2(p, dp) /\ shared'[n][k] = Max2(sh, ds)
  <2>1. private' = [private EXCEPT ![n] = newPrivate]
    BY DEF LatticeUpdate
  <2>2. shared' = [shared EXCEPT ![n] = newShared]
    BY DEF LatticeUpdate
  <2>3. QED
    BY <1>1, <2>1, <2>2 DEF TypeOK, LatticeTypeOK
<1>4. seenPrivate'[d][n][k] =
            IF k \in changedPrivate(s) THEN Max2(sp, Max2(p, dp)) ELSE sp
  <2>1. seenPrivate'[d] = [seenPrivate[d] EXCEPT ![n] =
                Merged(seenPrivate[d][n], changedPrivate(s), newPrivate[s])]
    BY <1>1 DEF LatticeUpdate, TypeOK, SeenTypeOK
  <2>2. seenPrivate[d] \in [Namespace -> [Key -> Version]]
    BY DEF TypeOK, SeenTypeOK
  <2>3. newPrivate[s][k] = Max2(p, dp)
    BY <1>1
  <2> HIDE DEF changedPrivate, newPrivate
  <2>4. QED
    BY <2>1, <2>2, <2>3 DEF Merged
<1>5. seenShared'[d][n][k] =
            IF k \in sharedFor(s) THEN Max2(ss, Max2(sh, ds)) ELSE ss
  <2>1. seenShared'[d] = [seenShared[d] EXCEPT ![n] =
                Merged(seenShared[d][n], sharedFor(s), newShared)]
    BY <1>1 DEF LatticeUpdate, TypeOK, SeenTypeOK
  <2>2. seenShared[d] \in [Namespace -> [Key -> Version]]
    BY DEF TypeOK, SeenTypeOK
  <2>3. newShared[k] = Max2(sh, ds)
    OBVIOUS
  <2> HIDE DEF sharedFor, newShared
  <2>4. QED
    BY <2>1, <2>2, <2>3 DEF Merged
<1>6. lapsed' = lapsed /\ csession'[d] = s
  BY DEF LatticeUpdate, connVars
<1>7. Current(d, n, s, k)
  BY DEF Copy, Attached
<1>8. p # Absent /\ ds > 0 /\ ds > sh => k \in sharedFor(s)
  <2> SUFFICES ASSUME p # Absent, ds > 0, ds > sh PROVE k \in sharedFor(s)
    OBVIOUS
  <2>1. k \in changedShared
    OBVIOUS
  <2>2. newPrivate[s][k] # Absent
    BY <1>1, <1>2 DEF Max2, Version, Absent
  <2>3. s \in newSubs[k]
    BY <1>1 DEF KeyInv
  <2> HIDE DEF changedShared, newPrivate, newSubs, named, newKeys
  <2>4. QED
    BY <2>1, <2>2, <2>3
<1>9. dp # Absent /\ s \notin subscriptions[n][k] => k \in sharedFor(s)
  BY <1>1
<1>10. p = Absent /\ s \in subscriptions[n][k] => s \in lapsed[n][k]
  BY <1>1 DEF KeyInv
<1>11. k \in changedPrivate(s) <=> dp > 0 /\ dp > p
  OBVIOUS
<1>12. /\ seenPrivate'[d][n][k] <= private'[n][s][k]
       /\ seenPrivate'[d][n][k] = private'[n][s][k] \/ private'[n][s][k] = 0
  <2> HIDE DEF changedPrivate, p, dp, sp, s
  <2>1. sp <= p /\ (sp = p \/ p = 0)
    BY <1>7 DEF Current, p, sp
  <2>2. QED
    BY <1>2, <1>3, <1>4, <1>11, <2>1 DEF Max2, Version, Absent
<1>13. private'[n][s][k] # Absent =>
            \/ s \in lapsed[n][k]
            \/ seenShared'[d][n][k] = Absent
            \/ seenShared'[d][n][k] >= shared'[n][k]
  <2> HIDE DEF sharedFor, p, dp, sh, ds, ss, s
  <2>1. CASE p = Absent
    BY <1>2, <1>3, <1>5, <1>9, <1>10, <2>1 DEF Max2, Version, Absent
  <2>2. CASE p # Absent
    <3>1. s \in lapsed[n][k] \/ ss = Absent \/ ss >= sh
      BY <1>7, <2>2 DEF Current, p, ss, sh
    <3>2. QED
      BY <1>2, <1>3, <1>5, <1>8, <2>2, <3>1 DEF Max2, Version, Absent
  <2>3. QED
    BY <2>1, <2>2
<1>14. QED
  BY <1>6, <1>12, <1>13 DEF Current

copyVars == <<phase, csession, clattices, slattices, latticeVars, seenVars>>

\* Pub/sub, users lists and activity do not touch lattices.
LEMMA CopiesUnchanged ==
    /\ Fails \/ HandlerExits \/ Tick => UNCHANGED copyVars
    /\ \A t \in Topic : Publish(t) => UNCHANGED copyVars
    /\ \A c \in Cid, t \in Topic :
            Subscribe(c, t) \/ Unsubscribe(c, t) => UNCHANGED copyVars
    /\ \A s \in SessionId, ticks \in -1 .. MaxIdle :
            UpdateActivity(s, ticks) => UNCHANGED copyVars
    /\ \A c \in Cid, users \in UserLists :
            UsersAttachPending(c, users) \/ UsersAttachLive(c, users)
                => UNCHANGED copyVars
    /\ \A s \in SessionId, users \in UserLists :
            UsersUpdate(s, users) => UNCHANGED copyVars
    /\ \A c \in Cid : UsersDetachPending(c) \/ UsersDetachLive(c)
                => UNCHANGED copyVars
<1>1. Fails \/ HandlerExits \/ Tick => UNCHANGED copyVars
  BY DEF Fails, Panic, HandlerExits, Tick, copyVars, connVars, sessionVars
<1>2. ASSUME NEW t \in Topic, Publish(t) PROVE UNCHANGED copyVars
  BY <1>1, <1>2 DEF Publish, Fails, PanicMessage, copyVars, connVars, sessionVars
<1>3. ASSUME NEW c \in Cid, NEW t \in Topic, Subscribe(c, t)
      PROVE  UNCHANGED copyVars
  BY <1>3 DEF Subscribe, copyVars, sessionVars
<1>4. ASSUME NEW c \in Cid, NEW t \in Topic, Unsubscribe(c, t)
      PROVE  UNCHANGED copyVars
  BY <1>1, <1>4 DEF Unsubscribe, Fails, PanicMessage, copyVars, sessionVars
<1>5. ASSUME NEW s \in SessionId, NEW ticks \in -1 .. MaxIdle,
             UpdateActivity(s, ticks)
      PROVE  UNCHANGED copyVars
  BY <1>5 DEF UpdateActivity, copyVars, connVars
<1>6. ASSUME NEW c \in Cid, NEW users \in UserLists,
             UsersAttachPending(c, users) \/ UsersAttachLive(c, users)
      PROVE  UNCHANGED copyVars
  BY <1>6 DEF UsersAttachPending, UsersAttachLive, copyVars, connVars,
     sessionVars
<1>7. ASSUME NEW s \in SessionId, NEW users \in UserLists,
             UsersUpdate(s, users)
      PROVE  UNCHANGED copyVars
  BY <1>7 DEF UsersUpdate, copyVars, connVars
<1>8. ASSUME NEW c \in Cid, UsersDetachPending(c) \/ UsersDetachLive(c)
      PROVE  UNCHANGED copyVars
  BY <1>8 DEF UsersDetachPending, UsersDetachLive, copyVars, sessionVars
<1>9. QED
  BY <1>1, <1>2, <1>3, <1>4, <1>5, <1>6, <1>7, <1>8

\* Pool::new has no copies.
LEMMA CopyInit == Init => CopyInv
  BY DEF Init, CopyInv, Copy, Empty, Live

\* Every handler keeps the copies.
LEMMA CopyStep ==
    TypeOK /\ SessionsInSync /\ KeyInv /\ CopyInv /\ [Next]_vars => CopyInv'
<1> SUFFICES ASSUME TypeOK, SessionsInSync, KeyInv, CopyInv, [Next]_vars,
                    NEW d \in Cid, NEW m \in Namespace
             PROVE  Copy(d, m)'
  BY DEF CopyInv
<1>0. TypeOK' /\ SessionsInSync' /\ Copy(d, m)
  BY TypeStep, SessionsStep DEF CopyInv
<1>1. ASSUME NEW c \in Cid, NewConnection(c) PROVE Copy(d, m)'
  <2>1. /\ phase[c] = "fresh" /\ phase' = [phase EXCEPT ![c] = "pending"]
        /\ UNCHANGED <<csession, clattices, slattices, latticeVars, seenVars>>
    BY <1>1 DEF NewConnection, sessionVars
  <2>2. QED
    BY <1>0, <2>1 DEF Copy, Empty, Current, Live, TypeOK, ConnTypeOK,
       latticeVars, seenVars
<1>2. ASSUME NEW c \in Cid, NEW p \in {"dropped", "gone"},
             ForgetConnection(c, p), d # c
      PROVE  /\ phase'[d] = phase[d] /\ csession'[d] = csession[d]
             /\ clattices'[d] = clattices[d]
             /\ seenPrivate'[d] = seenPrivate[d]
             /\ seenShared'[d] = seenShared[d]
  BY <1>2 DEF ForgetConnection, TypeOK, ConnTypeOK, SeenTypeOK
<1>3. ASSUME NEW c \in Cid, NEW p \in {"dropped", "gone"},
             ForgetConnection(c, p), d = c
      PROVE  Copy(d, m)'
  BY <1>3, ConnectionForgotten DEF Copy, Live
<1>4. ASSUME NEW c \in Cid,
             \/ AssociateDropped(c) \/ DisconnectPending(c)
             \/ DisconnectActive(c)
      PROVE  Copy(d, m)'
  <2>1. PICK p \in {"dropped", "gone"} :
            ForgetConnection(c, p) /\ UNCHANGED <<slattices, latticeVars>>
    BY <1>4 DEF AssociateDropped, DisconnectPending, DisconnectActive,
       sessionVars
  <2>2. CASE d # c
    BY <1>0, <1>2, <2>1, <2>2 DEF Copy, Empty, Current, Live, latticeVars
  <2>3. QED
    BY <1>3, <2>1, <2>2
<1>5. ASSUME NEW c \in Cid, NEW s \in SessionId,
             NEW age \in 0 .. NewConnTimeout + 1, Joined(c, s, age)
      PROVE  Copy(d, m)'
  <2>1. /\ phase[c] = "pending" /\ clattices[c] \subseteq lattices
        /\ phase' = [phase EXCEPT ![c] = "live"]
        /\ csession' = [csession EXCEPT ![c] = s]
        /\ slattices' = [slattices EXCEPT ![s] = [n \in Namespace |->
                IF n \in clattices[c] THEN slattices[s][n] \cup {c}
                                      ELSE slattices[s][n]]]
        /\ seenPrivate' = SnapshotPrivate(c, s, clattices[c])
        /\ seenShared' = SnapshotShared(c, s, clattices[c])
        /\ UNCHANGED <<clattices, lattices, shared, private, lapsed>>
    BY <1>5 DEF Joined, Join, Pending, latticeVars
  <2>2. \A x \in SessionId : d \in slattices'[x][m] <=>
            d \in slattices[x][m] \/ (d = c /\ x = s /\ m \in clattices[c])
    BY <2>1 DEF TypeOK, SessionTypeOK
  <2>3. CASE d # c
    <3>1. phase'[d] = phase[d] /\ csession'[d] = csession[d]
      BY <2>1, <2>3 DEF TypeOK, ConnTypeOK
    <3>2. /\ seenPrivate'[d][m] = seenPrivate[d][m]
          /\ seenShared'[d][m] = seenShared[d][m]
      BY <2>1, <2>3, SnapshotElsewhere
    <3>3. QED
      BY <1>0, <2>1, <2>2, <2>3, <3>1, <3>2, CopyKept
  <2>4. CASE d = c
    <3>1. phase'[d] = "live" /\ csession'[d] = s
      BY <2>1, <2>4 DEF TypeOK, ConnTypeOK
    <3>2. Empty(d, m) /\ \A x \in SessionId : d \notin slattices[x][m]
      BY <1>0, <2>1, <2>4 DEF Copy
    <3>3. m \notin clattices[d] => Empty(d, m)'
      <4> SUFFICES ASSUME m \notin clattices[d] PROVE Empty(d, m)'
        OBVIOUS
      <4>1. /\ seenPrivate'[d][m] = seenPrivate[d][m]
            /\ seenShared'[d][m] = seenShared[d][m]
        BY <2>1, <2>4, SnapshotElsewhere
      <4>2. QED
        BY <3>2, <4>1 DEF Empty, Absent
    <3>4. ASSUME m \in clattices[d], NEW k \in Key
          PROVE  Current(d, m, s, k)'
      <4>1. \A j \in Key : seenPrivate[c][m][j] <= private[m][s][j]
        BY <2>4, <3>2, EmptyNotAhead
      <4>2. /\ seenPrivate'[c][m][k] = private[m][s][k]
            /\ private[m][s][k] # Absent => seenShared'[c][m][k] >= shared[m][k]
        BY <2>1, <2>4, <3>4, <4>1, SnapshotCurrent
      <4>3. private[m][s][k] \in Int
        BY DEF TypeOK, LatticeTypeOK, Version, Absent
      <4>4. QED
        BY <2>1, <2>4, <4>2, <4>3 DEF Current, Absent
    <3>5. QED
      BY <2>1, <2>2, <2>4, <3>1, <3>2, <3>3, <3>4 DEF Copy, Live
  <2>5. QED
    BY <2>3, <2>4
<1>6. ASSUME NEW c \in Cid, DisconnectInactive(c) PROVE Copy(d, m)'
  <2> DEFINE s == csession[c]
  <2>1. /\ Live(c) /\ ForgetConnection(c, "gone")
        /\ RemoveLattices(c, s, clattices[c])
        /\ s \in SessionId /\ clattices[c] \in SUBSET Namespace
    BY <1>6 DEF DisconnectInactive, SessionsInSync, TypeOK, ConnTypeOK
  <2>2. CASE d # c
    <3>1. \A x \in SessionId : phase[d] \in {"fresh", "pending", "live"} =>
                (d \in slattices'[x][m] <=> d \in slattices[x][m])
      <4>1. CASE sconns[s] # {c}
        <5>1. slattices' = [slattices EXCEPT
                                ![s] = Detached(s, c, clattices[c])]
          BY <1>6, <4>1 DEF DisconnectInactive
        <5>2. QED
          BY <2>1, <2>2, <5>1 DEF Detached, TypeOK, SessionTypeOK
      <4>2. CASE sconns[s] = {c}
        <5>1. DropSessions({s})
          BY <1>6, <4>2 DEF DisconnectInactive
        <5>2. Live(d) => csession[d] # s
          BY <2>2, <4>2 DEF SessionsInSync
        <5>3. phase[d] \in {"fresh", "pending", "live"} =>
                d \notin slattices[s][m]
          BY <1>0, <2>1, <5>2 DEF Copy, Live
        <5>4. QED
          BY <5>1, <5>3 DEF DropSessions
      <4>3. QED
        BY <4>1, <4>2
    <3>2. Attached(d, m) => \A k \in Key :
                /\ private'[m][csession[d]][k] = private[m][csession[d]][k]
                /\ csession[d] \in lapsed[m][k] =>
                        csession[d] \in lapsed'[m][k]
                /\ shared'[m][k] \in {Absent, shared[m][k]}
      BY <1>0, <2>1, <2>2, RemoveElsewhere
    <3>3. QED
      BY <1>0, <1>2, <2>1, <2>2, <3>1, <3>2, CopyKept
  <2>3. QED
    BY <1>3, <2>1, <2>2
<1>7. ASSUME Expire PROVE Copy(d, m)'
  <2> DEFINE purged(s) == latticeLeft = 0 /\ status'[s] = "offline"
  <2>1. /\ UNCHANGED <<phase, csession, clattices, shared, seenPrivate,
                       seenShared>>
        /\ DropSessions(Leaving)
        /\ private' = [n \in Namespace |-> [s \in SessionId |->
                IF purged(s) THEN [k \in Key |-> Absent] ELSE private[n][s]]]
        /\ lapsed' = [n \in Namespace |-> [k \in Key |-> lapsed[n][k] \cup
                {s \in SessionId : purged(s) /\ k \in KeysOf(n, s)}]]
    BY <1>7 DEF Expire, connVars, seenVars
  <2>2. Live(d) => /\ csession[d] \in SessionId \ Leaving
                   /\ ~ purged(csession[d])
    <3>1. Live(d) => csession[d] \in SessionId \ Leaving
      BY DEF SessionsInSync, Leaving
    <3>2. Live(d) => status'[csession[d]] # "offline"
      BY <1>0, <2>1 DEF SessionsInSync, Live, Exists
    <3>3. QED
      BY <3>1, <3>2
  <2> HIDE DEF purged
  <2>3. \A x \in SessionId : phase[d] \in {"fresh", "pending", "live"} =>
                (d \in slattices'[x][m] <=> d \in slattices[x][m])
    BY <1>0, <2>1, <2>2 DEF DropSessions, Copy, Live
  <2>4. Attached(d, m) => \A k \in Key :
                /\ private'[m][csession[d]][k] = private[m][csession[d]][k]
                /\ csession[d] \in lapsed[m][k] =>
                        csession[d] \in lapsed'[m][k]
                /\ shared'[m][k] \in {Absent, shared[m][k]}
    BY <2>1, <2>2 DEF Attached
  <2>5. QED
    BY <1>0, <2>1, <2>3, <2>4, CopyKept
<1>8. ASSUME NEW c \in Cid, NEW n \in Namespace,
             AttachPending(c, n) \/ DetachPending(c, n)
      PROVE  Copy(d, m)'
  <2>1. /\ phase[c] = "pending"
        /\ UNCHANGED <<phase, csession, slattices, latticeVars, seenVars>>
        /\ \/ clattices' = [clattices EXCEPT ![c] = @ \cup {n}]
           \/ clattices' = [clattices EXCEPT ![c] = @ \ {n}]
    BY <1>8 DEF AttachPending, DetachPending, Pending, sessionVars
  <2>2. Live(d) => clattices'[d] = clattices[d]
    BY <2>1 DEF Live, TypeOK, ConnTypeOK
  <2>3. QED
    BY <1>0, <2>1, <2>2 DEF Copy, Empty, Current, Live, latticeVars, seenVars
<1>9. ASSUME NEW c \in Cid, NEW n \in Namespace, AttachLive(c, n)
      PROVE  Copy(d, m)'
  <2> DEFINE s == csession[c]
  <2>1. /\ Live(c) /\ UNCHANGED <<phase, csession>>
        /\ UNCHANGED <<lattices, shared, private, lapsed>>
        /\ slattices' = [slattices EXCEPT ![s][n] = @ \cup {c}]
        /\ clattices' = [clattices EXCEPT ![c] = @ \cup {n}]
        /\ seenPrivate' = SnapshotPrivate(c, s, {n} \cap lattices)
        /\ seenShared' = SnapshotShared(c, s, {n} \cap lattices)
    BY <1>9 DEF AttachLive, latticeVars
  <2>2. s \in SessionId
    BY <2>1 DEF SessionsInSync
  <2>3. /\ \A x \in SessionId : d \in slattices'[x][m] <=>
                d \in slattices[x][m] \/ (d = c /\ x = s /\ m = n)
        /\ m \in clattices'[d] <=> m \in clattices[d] \/ (d = c /\ m = n)
    BY <2>1, <2>2 DEF TypeOK, SessionTypeOK, ConnTypeOK
  <2>4. CASE d # c \/ m # n
    <3>1. /\ seenPrivate'[d][m] = seenPrivate[d][m]
          /\ seenShared'[d][m] = seenShared[d][m]
      BY <2>1, <2>4, SnapshotElsewhere
    <3>2. QED
      BY <1>0, <2>1, <2>3, <2>4, <3>1, CopyKept
  <2>5. CASE d = c /\ m = n
    <3>1. \A j \in Key : seenPrivate[c][n][j] <= private[n][s][j]
      <4>1. CASE n \in clattices[c]
        BY <1>0, <2>1, <2>5, <4>1 DEF Copy, Current
      <4>2. CASE n \notin clattices[c]
        <5>1. Empty(c, n)
          BY <1>0, <2>1, <2>5, <4>2 DEF Copy
        <5>2. QED
          BY <2>2, <5>1, EmptyNotAhead
      <4>3. QED
        BY <4>1, <4>2
    <3>2. ASSUME NEW k \in Key PROVE Current(c, n, s, k)'
      <4>1. /\ seenPrivate'[c][n][k] = private[n][s][k]
            /\ private[n][s][k] # Absent => seenShared'[c][n][k] >= shared[n][k]
        BY <2>1, <2>2, <3>1, SnapshotCurrent
      <4>2. private[n][s][k] \in Int
        BY <2>2 DEF TypeOK, LatticeTypeOK, Version, Absent
      <4>3. QED
        BY <2>1, <4>1, <4>2 DEF Current, Absent
    <3>3. QED
      BY <1>0, <2>1, <2>3, <2>5, <3>2 DEF Copy, Live
  <2>6. QED
    BY <2>4, <2>5
<1>10. ASSUME NEW c \in Cid, NEW n \in Namespace, DetachLive(c, n)
       PROVE  Copy(d, m)'
  <2> DEFINE s == csession[c]
  <2>1. /\ Live(c) /\ UNCHANGED <<phase, csession>>
        /\ RemoveLattices(c, s, {n})
        /\ slattices' = [slattices EXCEPT ![s] = Detached(s, c, {n})]
        /\ clattices' = [clattices EXCEPT ![c] = @ \ {n}]
        /\ seenPrivate' = [seenPrivate EXCEPT ![c][n] = [k \in Key |-> Absent]]
        /\ seenShared' = [seenShared EXCEPT ![c][n] = [k \in Key |-> Absent]]
    BY <1>10 DEF DetachLive
  <2>2. s \in SessionId
    BY <2>1 DEF SessionsInSync
  <2>3. /\ \A x \in SessionId : d \in slattices'[x][m] <=>
                d \in slattices[x][m] /\ ~ (d = c /\ x = s /\ m = n)
        /\ m \in clattices'[d] <=> m \in clattices[d] /\ ~ (d = c /\ m = n)
    BY <2>1, <2>2 DEF Detached, TypeOK, SessionTypeOK, ConnTypeOK
  <2>4. CASE d # c \/ m # n
    <3>1. /\ seenPrivate'[d][m] = seenPrivate[d][m]
          /\ seenShared'[d][m] = seenShared[d][m]
      BY <2>1, <2>4 DEF TypeOK, SeenTypeOK
    <3>2. Attached(d, m) => \A k \in Key :
                /\ private'[m][csession[d]][k] = private[m][csession[d]][k]
                /\ csession[d] \in lapsed[m][k] =>
                        csession[d] \in lapsed'[m][k]
                /\ shared'[m][k] \in {Absent, shared[m][k]}
      BY <1>0, <2>1, <2>2, <2>4, RemoveElsewhere
    <3>3. QED
      BY <1>0, <2>1, <2>3, <2>4, <3>1, <3>2, CopyKept
  <2>5. CASE d = c /\ m = n
    <3>1. Empty(d, m)'
      BY <2>1, <2>5 DEF Empty, TypeOK, SeenTypeOK
    <3>2. QED
      BY <1>0, <2>1, <2>3, <2>5, <3>1 DEF Copy, Live
  <2>6. QED
    BY <2>4, <2>5
<1>11. ASSUME NEW n \in Namespace, NEW delta \in Deltas,
              LatticeUpdate(n, delta)
       PROVE  Copy(d, m)'
  <2>1. UNCHANGED <<phase, csession, clattices, slattices>>
    BY <1>11 DEF LatticeUpdate, connVars, sessionVars
  <2>2. CASE m = n /\ Attached(d, n)
    <3>1. \A k \in Key : Current(d, n, csession[d], k)'
      BY <1>0, <1>11, <2>2, UpdateCurrent
    <3>2. QED
      BY <1>0, <2>1, <2>2, <3>1 DEF Copy, Attached, Live
  <2>3. CASE ~ (m = n /\ Attached(d, n))
    <3>1. /\ seenPrivate'[d][m] = seenPrivate[d][m]
          /\ seenShared'[d][m] = seenShared[d][m]
      <4>1. CASE m # n
        BY <1>11, <4>1 DEF LatticeUpdate, TypeOK, SeenTypeOK
      <4>2. CASE m = n
        <5>1. ~ Receives(d, n)
          BY <1>0, <2>3, <4>2 DEF Receives, Attached, Copy, SessionsInSync
        <5>2. QED
          BY <1>11, <5>1 DEF LatticeUpdate
      <4>3. QED
        BY <4>1, <4>2
    <3>2. m # n => UNCHANGED <<private[m], shared[m], lapsed[m]>>
      BY <1>11 DEF LatticeUpdate, TypeOK, LatticeTypeOK
    <3>3. QED
      BY <1>0, <2>1, <2>3, <3>1, <3>2 DEF Copy, Empty, Current, Attached, Live
  <2>4. QED
    BY <2>2, <2>3
<1>12. CASE UNCHANGED copyVars
  BY <1>0, <1>12 DEF copyVars, latticeVars, seenVars, Copy, Empty, Current,
     Live
<1>13. CASE UNCHANGED vars
  BY <1>12, <1>13 DEF vars, copyVars, connVars, sessionVars
<1>14. ASSUME NEW c \in Cid, ConnectionStep(c) PROVE Copy(d, m)'
  BY <1>1, <1>4, <1>5, <1>6, <1>12, <1>14, CopiesUnchanged, Outcomes
     DEF ConnectionStep
<1>15. ASSUME NEW c \in Cid, BackendStep(c) PROVE Copy(d, m)'
  BY <1>8, <1>9, <1>10, <1>12, <1>15, CopiesUnchanged DEF BackendStep
<1>16. QED
  BY <1>7, <1>11, <1>12, <1>13, <1>14, <1>15, CopiesUnchanged, Outcomes
     DEF Next

\* The three invariants of the lattices hold in every state of the pool.
LEMMA CopiesCorrect == Spec => [](TypeOK /\ KeyInv /\ CopyInv)
<1> DEFINE Inv == TypeOK /\ SessionsInSync /\ KeyInv /\ CopyInv
<1>1. Init => Inv
  BY TypeInit, SessionsInit, KeysInit, CopyInit
<1>2. Inv /\ [Next]_vars => Inv'
  BY TypeStep, SessionsStep, KeysStep, CopyStep
<1>3. Inv => TypeOK /\ KeyInv /\ CopyInv
  OBVIOUS
<1>4. QED
  BY <1>1, <1>2, <1>3, PTL DEF Spec

\* In every behaviour an attached client's copy of its private keys is the
\* server's, whatever order attachment, association, updates, clean-up and
\* the departure of other connections come in.
THEOREM PrivateCopiesStayCurrent == Spec => []PrivateCopyCurrent
<1>1. TypeOK /\ KeyInv /\ CopyInv => PrivateCopyCurrent
  BY DEF CopyInv, Copy, Current, PrivateCopyCurrent, Attached, KeysOf
<1>2. QED
  BY <1>1, CopiesCorrect, PTL

\* In every behaviour an attached client holds no outdated shared value of a
\* key its session holds, unless lattice_cleanup once took the key away.
THEOREM SharedCopiesNotStale == Spec => []SharedCopyNotStale
<1>1. TypeOK /\ KeyInv /\ CopyInv => SharedCopyNotStale
  BY DEF CopyInv, Copy, Current, SharedCopyNotStale, Attached, KeysOf
<1>2. QED
  BY <1>1, CopiesCorrect, PTL

===========================================================================
